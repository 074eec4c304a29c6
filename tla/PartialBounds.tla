---------------------------- MODULE PartialBounds ----------------------------
(* Lower bounds on every completion of a prefix P (partial_bounds.cpp).       *)
EXTENDS Cutwidth

CeilDiv(value, divisor) == IF divisor = 0 THEN 0 ELSE (value + divisor - 1) \div divisor

Remaining(g, P)          == Vertices(g) \ P
ResidualDegree(g, P, v)  == Cardinality(g[v] \ P)
MaximumDegree(g, P)      == Max({0} \cup {ResidualDegree(g, P, v) : v \in Remaining(g, P)})

(* A boundary edge survives until its endpoint is placed: larger boundary     *)
(* degrees first is the cheapest order.                                       *)
BoundaryDegree(g, P, v) == Cardinality(g[v] \cap P)
BoundaryArea(g, P) ==
    LET byBoundary == Sorted(Remaining(g, P),
            LAMBDA u, v : \/ BoundaryDegree(g, P, u) > BoundaryDegree(g, P, v)
                          \/ BoundaryDegree(g, P, u) = BoundaryDegree(g, P, v) /\ u < v)
    IN  SumOf([i \in DOMAIN byBoundary |-> i * BoundaryDegree(g, P, byBoundary[i])])

(* r - d pairs of r vertices are at distance d: the shortest are filled first.*)
Unfilled(r, edges, d) == Max({0, edges - SumOf([e \in 1..(d - 1) |-> r - e])})
MinimumEdgeDistance(g, P) ==
    LET r == Cardinality(Remaining(g, P))
        edges == SumOf([v \in Remaining(g, P) |-> ResidualDegree(g, P, v)]) \div 2
    IN  SumOf([d \in 1..(r - 1) |-> d * Min({Unfilled(r, edges, d), r - d})])

QuarterSquare(d) == ((d + 1) * (d + 1)) \div 4
MinimumDegreeDistance(g, P) ==
    (SumOf([v \in Remaining(g, P) |-> QuarterSquare(ResidualDegree(g, P, v))]) + 1) \div 2

(* The largest minimum degree met while vertices of minimum degree are taken  *)
(* away; equal ones by number.                                                *)
DegreeIn(g, R, v) == Cardinality(g[v] \cap R)
LeastDegree(g, R) ==
    CHOOSE v \in R : \A u \in R : \/ DegreeIn(g, R, v) < DegreeIn(g, R, u)
                                  \/ DegreeIn(g, R, v) = DegreeIn(g, R, u) /\ v <= u
ResidualDegeneracy(g, P) ==
    LET n == Cardinality(Remaining(g, P))
        peel[i \in 0..n] ==
            IF i = 0 THEN [left |-> Remaining(g, P), d |-> 0]
            ELSE LET R == peel[i - 1].left
                     v == LeastDegree(g, R)
                 IN  [left |-> R \ {v}, d |-> Max({peel[i - 1].d, DegreeIn(g, R, v)})]
    IN  peel[n].d

IsTriangleFree(g) == \A u \in Vertices(g) : \A v \in g[u] : g[u] \cap g[v] = {}

DegeneracyBound(d, triangleFree) ==
    IF triangleFree THEN (d * d + 1) \div 2 ELSE QuarterSquare(d)

DegreeBound(degree) == (degree + 1) \div 2

ResidualDegreeCeiling(g) == DegreeBound(MaximumDegree(g, {}))
DegeneracyCeiling(g)     == DegeneracyBound(ResidualDegeneracy(g, {}), IsTriangleFree(g))

(* A bound that cannot exceed the threshold even for the empty prefix is      *)
(* switched off for the session.                                              *)
EnabledBounds(g, bounds, k) ==
    {b \in bounds : /\ b = "residual_degree" => ResidualDegreeCeiling(g) > k
                    /\ b = "degeneracy" => DegeneracyCeiling(g) > k}

Expensive == {"edge_distance_area", "degree_distance_area", "degeneracy"}
ExpensiveMaxSlack == 1

(* completion_exceeds: the expensive bounds are only evaluated close to the    *)
(* threshold, and with them the residual degree is computed afresh; otherwise   *)
(* degree, the caller's maximum residual degree, is taken.                     *)
CompletionExceeds(g, P, k, bounds, degree, cut) ==
    LET close == cut > k \/ k - cut <= ExpensiveMaxSlack
        count == Cardinality(Remaining(g, P))
        exceeds(area) == CeilDiv(BoundaryArea(g, P) + area, count) > k
        afresh == bounds \cap Expensive # {} /\ close
    IN  \/ "residual_degree" \in bounds /\ ~afresh /\ DegreeBound(degree) > k
        \/ /\ afresh /\ count > 0
           /\ \/ "residual_degree" \in bounds /\ DegreeBound(MaximumDegree(g, P)) > k
              \/ "edge_distance_area" \in bounds /\ exceeds(MinimumEdgeDistance(g, P))
              \/ "degree_distance_area" \in bounds /\ exceeds(MinimumDegreeDistance(g, P))
              \/ /\ "degeneracy" \in bounds
                 /\ DegeneracyBound(ResidualDegeneracy(g, P), IsTriangleFree(g)) > k

(* Bounds on the whole graph: ceil(m(m + d) / 2d^2) with d = n - 1, evaluated  *)
(* by quotient and remainder.                                                 *)
AverageDegreeLowerBound(n, m) ==
    IF n <= 1 \/ m = 0 THEN 0
    ELSE LET d == n - 1
             q == m \div d
             r == m % d
             first == r * (2 * q + 1)
             reduced == (first % (2 * d)) + ((r * r) \div d)
             beyondOne == reduced > 2 * d \/ (reduced = 2 * d /\ ((r * r) % d) # 0)
         IN  ((q * (q + 1)) \div 2) + (first \div (2 * d))
                 + (IF r = 0 THEN 0 ELSE IF beyondOne THEN 2 ELSE 1)

(* What a cut of one more unit can carry at most, largest first.              *)
GroomingWeights(n) ==
    LET pairs == {p \in (1..(n - 1)) \X (1..(n - 1)) : p[2] <= p[1] /\ p[2] <= n - p[1]}
        weight(p) == (n - p[2]) \div p[1]
    IN  [i \in 1..Cardinality(pairs) |->
            weight(Sorted(pairs, LAMBDA p, q :
                \/ weight(p) > weight(q)
                \/ weight(p) = weight(q) /\ (p[1] < q[1] \/ (p[1] = q[1] /\ p[2] < q[2])))[i])]

GroomingLowerBound(n, m) ==
    IF n < 2 \/ m = 0 THEN 0
    ELSE LET w == GroomingWeights(n)
             carried(c) == MapThenSumSet(LAMBDA i : w[i], 1..c)
         IN  Min({c \in DOMAIN w : carried(c) >= m} \cup {Len(w)})

(* Whatever half of the vertices comes first, what two cliques cannot hold of   *)
(* the edges crosses.                                                          *)
DensityLowerBound(n, m) ==
    LET left == n \div 2
        right == n - left
    IN  Max({0, m - (left * (left - 1)) \div 2 - (right * (right - 1)) \div 2})

DegreeLowerBound(g) == DegreeBound(Max({0} \cup {Degree(g, v) : v \in Vertices(g)}))

RootLowerBound(g) ==
    LET n == Cardinality(Vertices(g))
        m == EdgeCount(g)
    IN  Max({DegreeLowerBound(g), DensityLowerBound(n, m),
             AverageDegreeLowerBound(n, m), GroomingLowerBound(n, m)})
=============================================================================
