------------------------------ MODULE PbEncoding -----------------------------
(* The formulas handed to a SAT solver (pb_encoding.cpp): one for a cutwidth    *)
(* threshold, one for the cut of the prefixes of one size, and what is read out *)
(* of a model. A clause is a set of literals, a literal a variable 1, 2, ... or *)
(* its negation. Prefix sizes and positions are counted from 1.                *)
EXTENDS Cutwidth

Encodings == {"sequential_counter", "totalizer"}

Formula(encoding) == [variables |-> 0, clauses |-> {}, encoding |-> encoding]

Fresh(f, n)       == [f EXCEPT !.variables = @ + n]
With(f, clauses)  == [f EXCEPT !.clauses = @ \cup clauses]
Negated(x)        == [i \in DOMAIN x |-> -x[i]]

(* s(i, j): at least j of the first i literals hold. Implied forwards only.     *)
SequentialCount(f, x, limit) ==
    LET n == Len(x)
        used[i \in 0..n] == IF i = 0 THEN 0 ELSE used[i - 1] + Min({i, limit})
        s(i, j) == f.variables + used[i - 1] + j
    IN  [formula |-> With(Fresh(f, used[n]),
            {{-x[i], s(i, 1)} : i \in 1..n}
            \cup UNION {{{-s(i - 1, j), s(i, j)} : j \in 1..Min({i - 1, limit})} : i \in 2..n}
            \cup UNION {{{-x[i], -s(i - 1, j - 1), s(i, j)} : j \in 2..Min({i, limit})} : i \in 2..n}),
         outputs |-> [j \in 1..limit |-> s(n, j)]]

(* The counts of both halves are added up.                                    *)
RECURSIVE Totalizer(_, _, _)
Totalizer(f, x, limit) ==
    LET middle == Len(x) \div 2
        left  == Totalizer(f, SubSeq(x, 1, middle), limit)
        right == Totalizer(left.formula, SubSeq(x, middle + 1, Len(x)), limit)
        l == left.outputs
        r == right.outputs
        size == Min({limit, Len(l) + Len(r)})
        out(i) == right.formula.variables + i
    IN  IF Len(x) = 1 THEN [formula |-> f, outputs |-> x]
        ELSE [formula |-> With(Fresh(right.formula, size),
                {{-l[i], out(i)} : i \in 1..Min({Len(l), size})}
                \cup {{-r[i], out(i)} : i \in 1..Min({Len(r), size})}
                \cup {{-l[p[1]], -r[p[2]], out(p[1] + p[2])} :
                        p \in {p \in (DOMAIN l) \X (DOMAIN r) : p[1] + p[2] <= size}}),
              outputs |-> [i \in 1..size |-> out(i)]]

UnaryCount(f, x, limit) ==
    IF x = << >> \/ limit = 0 THEN [formula |-> f, outputs |-> << >>]
    ELSE IF f.encoding = "sequential_counter" THEN SequentialCount(f, x, Min({limit, Len(x)}))
    ELSE Totalizer(f, x, Min({limit, Len(x)}))

AtMost(f, x, bound) ==
    LET count == UnaryCount(f, x, bound + 1)
    IN  CASE bound >= Len(x) -> f
          [] bound = 0       -> With(f, {{-x[i]} : i \in DOMAIN x})
          [] OTHER           -> With(count.formula, {{-count.outputs[bound + 1]}})

ExactlyOne(f, x) ==
    IF x = << >> THEN With(f, {{}}) ELSE AtMost(With(f, {ToSet(x)}), x, 1)

(* y holds just when one of a and b does.                                     *)
Xor(a, b, y) == {{a, b, -y}, {-a, -b, -y}, {-a, b, y}, {a, -b, y}}

Edges(g) == Sorted({e \in Vertices(g) \X Vertices(g) : e[1] < e[2] /\ e[2] \in g[e[1]]},
                   LAMBDA d, e : d[1] < e[1] \/ (d[1] = e[1] /\ d[2] < e[2]))
-----------------------------------------------------------------------------
(* encode_cutwidth_threshold. Prefix(n, v, p): v is among the first p vertices. *)
Prefix(n, v, p)   == v * (n - 1) + p
Position(n, v, p) == n * (n - 1) + v * n + p

(* One vertex per position and one position per vertex, and v is in a prefix if *)
(* it is in the one before or at its last position.                           *)
Channelled(f, n) ==
    LET rows    == [i \in 1..n |-> [p \in 1..n |-> Position(n, i - 1, p)]]
        columns == [p \in 1..n |-> [i \in 1..n |-> Position(n, i - 1, p)]]
        ends(v) == {{-Position(n, v, 1), Prefix(n, v, 1)}, {-Prefix(n, v, 1), Position(n, v, 1)},
                    {-Position(n, v, n), -Prefix(n, v, n - 1)}, {Prefix(n, v, n - 1), Position(n, v, n)}}
        inner(v, p) == {{-Prefix(n, v, p - 1), Prefix(n, v, p)}, {-Position(n, v, p), Prefix(n, v, p)},
                        {-Prefix(n, v, p), Prefix(n, v, p - 1), Position(n, v, p)}}
        permutation == FoldLeft(ExactlyOne, Fresh(f, n * n), rows \o columns)
    IN  IF n < 2 THEN permutation
        ELSE With(permutation, UNION {ends(v) \cup UNION {inner(v, p) : p \in 2..(n - 1)} : v \in 0..(n - 1)})

Monotone(f, n) ==
    With(f, {{-Prefix(n, v, p - 1), Prefix(n, v, p)} : v \in 0..(n - 1), p \in 2..(n - 1)})

(* Of an order and its reverse the one with vertex 0 before vertex 1.          *)
OneDirection(f, n) ==
    With(f, {{-Prefix(n, 1, p), Prefix(n, 0, p)} : p \in 1..(n - 1)})

Layers(f, n) ==
    LET layer(p) == [i \in 1..n |-> Prefix(n, i - 1, p)]
    IN  FoldLeft(LAMBDA h, p : AtMost(AtMost(h, layer(p), p), Negated(layer(p)), n - p),
                 f, [p \in 1..(n - 1) |-> p])

(* At most so many edges cross each prefix; the counters' outputs are kept.     *)
Crossings(s, g, p, threshold) ==
    LET n == Cardinality(Vertices(g))
        edges == Edges(g)
        y(i) == s.formula.variables + i
        crossing == [i \in DOMAIN edges |-> y(i)]
        crossed == With(Fresh(s.formula, Len(edges)),
                        UNION {Xor(Prefix(n, edges[i][1], p), Prefix(n, edges[i][2], p), y(i)) : i \in DOMAIN edges})
        count == UnaryCount(crossed, crossing, threshold + 1)
    IN  IF threshold >= Len(edges)
        THEN [formula |-> crossed, outputs |-> Append(s.outputs, << >>)]
        ELSE [formula |-> With(count.formula, {{-count.outputs[threshold + 1]}}),
              outputs |-> Append(s.outputs, count.outputs)]

EncodeThreshold(g, threshold, options) ==
    LET n == Cardinality(Vertices(g))
        f == Fresh(Formula(options.cardinality), n * (n - 1))
        placed == IF options.channel THEN Channelled(f, n) ELSE Monotone(f, n)
        oneWay == IF options.break /\ n >= 2 THEN OneDirection(placed, n) ELSE placed
        layered == IF options.channel THEN oneWay ELSE Layers(oneWay, n)
    IN  FoldLeft(LAMBDA s, p : Crossings(s, g, p, threshold),
                 [formula |-> layered, outputs |-> << >>], [p \in 1..(n - 1) |-> p])

Invalid == << >>

(* decode_ordering: model[x] is 1, 0, or -1 if the solver left x out.          *)
DecodeOrdering(n, model) ==
    LET in(v, p) == model[Prefix(n, v, p)] = 1
        position(v) == Min({p \in 1..(n - 1) : in(v, p)} \cup {n})
        complete == \A v \in 0..(n - 1), p \in 1..(n - 1) : model[Prefix(n, v, p)] # -1
        monotone == \A v \in 0..(n - 1), p \in 2..(n - 1) : in(v, p - 1) => in(v, p)
    IN  IF complete /\ monotone /\ {position(v) : v \in 0..(n - 1)} = 1..n
        THEN [p \in 1..n |-> CHOOSE v \in 0..(n - 1) : position(v) = p]
        ELSE Invalid

VerifyOrdering(g, o, threshold) == ValidOrdering(g, o) /\ OrderingCutwidth(g, o) <= threshold
-----------------------------------------------------------------------------
(* encode_fixed_prefix_cut_profile: some q vertices outside S can follow it with *)
(* a cut of at most threshold. The edges from a vertex to S count one by one.   *)
EncodeProfile(g, S, q, threshold, encoding) ==
    LET residual == Sorted(Vertices(g) \ S, <)
        selected == [i \in DOMAIN residual |-> i]
        exact == AtMost(AtMost(Fresh(Formula(encoding), Len(residual)), selected, q),
                        Negated(selected), Len(residual) - q)
        vertex(s, i) ==
            FoldLeft(LAMBDA t, j : LET y == t.formula.variables + 1
                                   IN  [formula |-> With(Fresh(t.formula, 1), Xor(i, j, y)),
                                        crossing |-> Append(t.crossing, y)],
                     [s EXCEPT !.crossing = @ \o [c \in 1..Cardinality(g[residual[i]] \cap S) |-> -i]],
                     Sorted({j \in (i + 1)..Len(residual) : residual[j] \in g[residual[i]]}, <))
        edges == FoldLeft(vertex, [formula |-> exact, crossing |-> << >>], selected)
    IN  [formula |-> AtMost(edges.formula, edges.crossing, threshold), residual |-> residual]

DecodeSubset(residual, q, model) ==
    LET chosen == {i \in DOMAIN residual : model[i] = 1}
    IN  IF (\E i \in DOMAIN residual : model[i] = -1) \/ Cardinality(chosen) # q THEN Invalid
        ELSE [k \in 1..q |-> residual[Sorted(chosen, <)[k]]]

VerifySubset(g, S, q, threshold, subset) ==
    /\ Len(subset) = q /\ IsInjective(subset)
    /\ ToSet(subset) \cap S = {} /\ ToSet(subset) \subseteq Vertices(g)
    /\ Cut(g, S \cup ToSet(subset)) <= threshold
-----------------------------------------------------------------------------
(* The order in which the vertices are numbered for a formula                  *)
(* (pb_structural_ordering.cpp).                                              *)

ByDegree(g, S) ==
    Sorted(S, LAMBDA u, v : Degree(g, u) < Degree(g, v) \/ (Degree(g, u) = Degree(g, v) /\ u < v))

RECURSIVE Breadth(_, _, _)
Breadth(g, queue, head) ==
    IF head > Len(queue) THEN queue
    ELSE Breadth(g, queue \o ByDegree(g, g[queue[head]] \ ToSet(queue)), head + 1)

RECURSIVE DegreeBfs(_, _, _)
DegreeBfs(g, reverse, done) ==
    LET rest == Vertices(g) \ ToSet(done)
        component == Breadth(g, <<ByDegree(g, rest)[1]>>, 1)
    IN  IF rest = {} THEN done
        ELSE DegreeBfs(g, reverse, done \o (IF reverse THEN Reverse(component) ELSE component))

(* A vertex is on the frontier until its last neighbour has been reached.      *)
Score(g, order) ==
    LET n == Len(order)
        position(v) == CHOOSE i \in 1..n : order[i] = v
        span(i) == {position(u) - i : u \in g[order[i]]}
        last(i) == i + Max({0} \cup span(i))
        frontier[i \in 0..n] ==
            IF i = 0 THEN 0
            ELSE frontier[i - 1] - Cardinality({j \in 1..(i - 1) : last(j) = i})
                    + (IF last(i) > i THEN 1 ELSE 0)
    IN  [frontier |-> Max({0} \cup {frontier[i] : i \in 1..n}),
         bandwidth |-> Max({0} \cup UNION {{IF s < 0 THEN -s ELSE s : s \in span(i)} : i \in 1..n}),
         span |-> MapThenSumSet(LAMBDA i : MapThenSumSet(LAMBDA s : IF s > 0 THEN s ELSE 0, span(i)), 1..n)]

Identity(g) == Sorted(Vertices(g), <)

Candidates(g) == {Identity(g), DegreeBfs(g, FALSE, << >>), DegreeBfs(g, TRUE, << >>)}

OrderingKey(g, o) ==
    LET s == Score(g, o) IN <<s.frontier, s.bandwidth, s.span>> \o o

Select(g, mode) ==
    CASE mode = "identity" -> Identity(g)
      [] mode = "rcm"      -> DegreeBfs(g, TRUE, << >>)
      [] mode = "auto"     -> CHOOSE o \in Candidates(g) : \A p \in Candidates(g) \ {o} :
            LET a == OrderingKey(g, o)
                b == OrderingKey(g, p)
            IN  \E i \in DOMAIN a : a[i] < b[i] /\ \A j \in 1..(i - 1) : a[j] = b[j]

PermuteGraph(g, order) ==
    [a \in 0..(Len(order) - 1) |-> {b \in 0..(Len(order) - 1) : order[b + 1] \in g[order[a + 1]]}]
=============================================================================
