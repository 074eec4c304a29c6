--------------------------- MODULE LagrangianBound ---------------------------
(* Lower bounds on the cut of a prefix after t further vertices, by a minimum   *)
(* cut for each multiplier p/q (lagrangian_bound.cpp). Machine integers reach    *)
(* from -limit - 1 to limit; a point of the grid that leaves them at a checked   *)
(* operation is passed over, and the others are modelled exactly.              *)
EXTENDS Cutwidth

Source == -1
Sink   == -2

(* ----- Dinic's maximum flow ----- *)
(* A network is the residual capacity of each pair of nodes.                   *)
Nodes(net) == {a[1] : a \in DOMAIN net}
Reach(net, level, S) == {v \in Nodes(net) : level[v] = -1 /\ \E u \in S : net[<<u, v>>] > 0}

(* bfs: the distance from the source, -1 where no capacity leads.              *)
RECURSIVE Levels(_, _, _, _)
Levels(net, level, S, d) ==
    IF S = {} THEN level
    ELSE LET here == [v \in Nodes(net) |-> IF v \in S THEN d ELSE level[v]]
         IN  Levels(net, here, Reach(net, here, S), d + 1)

(* dfs: the paths from v to the sink, one level at a time.                     *)
RECURSIVE Augmenting(_, _, _)
Augmenting(net, level, v) ==
    IF v = Sink THEN {<<Sink>>}
    ELSE UNION {{<<v>> \o path : path \in Augmenting(net, level, u)} :
                    u \in {u \in Nodes(net) : level[u] = level[v] + 1 /\ net[<<v, u>>] > 0}}

Arcs(path) == {<<path[i], path[i + 1]>> : i \in 1..(Len(path) - 1)}
Reversed(a) == <<a[2], a[1]>>
Pushed(net, path, amount) ==
    [a \in DOMAIN net |-> net[a] - (IF a \in Arcs(path) THEN amount ELSE 0)
                                 + (IF Reversed(a) \in Arcs(path) THEN amount ELSE 0)]

(* Which of the paths comes first is the order of the arcs; most is the largest *)
(* residual capacity met.                                                      *)
RECURSIVE MaxFlow(_, _, _)
MaxFlow(net, flow, most) ==
    LET level == Levels(net, [v \in Nodes(net) |-> -1], {Source}, 0)
        path == CHOOSE p \in Augmenting(net, level, Source) : TRUE
        amount == Min({net[a] : a \in Arcs(path)})
        larger == Max({most} \cup {net[a] : a \in DOMAIN net})
    IN  IF level[Sink] = -1 THEN [flow |-> flow, most |-> larger]
        ELSE MaxFlow(Pushed(net, path, amount), flow + amount, larger)

(* ----- One point of the grid ----- *)
Beyond(limit, x) == x < -limit - 1 \/ x > limit

Earlier(g, P, v) == Cardinality(g[v] \cap P)
Weight(g, P, q, p, v) == p - q * Earlier(g, P, v)
Network(g, P, q, p) ==
    LET U == Vertices(g) \ P
        cap(a) == IF a[1] \in U /\ a[2] \in g[a[1]] THEN q
                  ELSE IF a[1] = Source /\ a[2] \in U THEN Max({0, -Weight(g, P, q, p, a[2])})
                  ELSE IF a[1] \in U /\ a[2] = Sink THEN Max({0, Weight(g, P, q, p, a[1])})
                  ELSE 0
    IN  [a \in (U \cup {Source, Sink}) \X (U \cup {Source, Sink}) |-> cap(a)]

(* The capacities at the source and at the sink and the constant, vertex by      *)
(* vertex, with the first of them that does not fit.                           *)
Tallied(g, P, q, p, t, limit) ==
    LET U == Sorted(Vertices(g) \ P, <)
        edges == MapThenSumSet(LAMBDA v : Earlier(g, P, v), ToSet(U))
        step(s, v) ==
            LET w == Weight(g, P, q, p, v)
                n == IF w >= 0 THEN [s EXCEPT !.into = @ + w]
                     ELSE [s EXCEPT !.constant = @ + w, !.from = @ - w]
            IN  [n EXCEPT !.over = \/ @ \/ Beyond(limit, q * Earlier(g, P, v)) \/ Beyond(limit, w)
                                   \/ \E x \in {-w, n.into, n.from, n.constant} : Beyond(limit, x)]
        constant == q * edges - p * t
    IN  FoldLeft(step, [constant |-> constant, from |-> 0, into |-> 0,
                        over |-> \E x \in {q * edges, p * t, constant} : Beyond(limit, x)], U)

TooLarge(q, tally, limit) == \E x \in {q, tally.from, tally.into} : x >= limit \div 4

CeilQuotient(x, q) == -((-x) \div q)

(* The bound for t at p/q, -1 when the point is passed over; most is what the    *)
(* flow needs of the integers.                                                 *)
PointBound(g, P, q, p, t, limit) ==
    LET tally == Tallied(g, P, q, p, t, limit)
        cut == MaxFlow(Network(g, P, q, p), 0, 0)
        total == tally.constant + cut.flow
    IN  IF tally.over \/ TooLarge(q, tally, limit) THEN [bound |-> -1, most |-> 0]
        ELSE IF Beyond(limit, total) THEN [bound |-> -1, most |-> cut.most]
        ELSE [bound |-> Max({0, CeilQuotient(total, q)}), most |-> cut.most]

(* ----- evaluate ----- *)
Certificate(t, p, bound) == [cardinality |-> t, numerator |-> p, bound |-> bound]
NoCertificate == Certificate(0, 0, 0)

LargestNumerator(g, q) == q * Max({0} \cup {Degree(g, v) : v \in Vertices(g)})
Numerators(g, q) == (-LargestNumerator(g, q))..LargestNumerator(g, q)
MaxGrid == 100000

Cardinalities(g, P, selected) ==
    LET eligible(t) == t >= 1 /\ t < Cardinality(Vertices(g) \ P)
    IN  IF selected = << >> THEN [t \in 1..(Cardinality(Vertices(g) \ P) - 1) |-> t]
        ELSE SelectSeq(selected, eligible)

Ineligible(g, P, q, selected) ==
    \/ Cardinality(Vertices(g) \ P) <= 1 \/ q = 0 \/ Cardinalities(g, P, selected) = << >>

(* The scan stops at the first bound above the threshold k. overflow is set by   *)
(* any point passed over.                                                      *)
Evaluate(g, P, k, selected, q, limit) ==
    LET scan(s, x) ==
            LET point == PointBound(g, P, q, x[2], x[1], limit)
            IN  IF s.best.bound > k THEN s
                ELSE [overflow |-> s.overflow \/ point.bound = -1,
                      best |-> IF point.bound > s.best.bound THEN Certificate(x[1], x[2], point.bound)
                               ELSE s.best]
        ps == Sorted(Numerators(g, q), <)
        ts == Cardinalities(g, P, selected)
        grid == [i \in 1..(Len(ts) * Len(ps)) |->
                    <<ts[1 + ((i - 1) \div Len(ps))], ps[1 + ((i - 1) % Len(ps))]>>]
    IN  IF Ineligible(g, P, q, selected) THEN [ineligible |-> TRUE, overflow |-> FALSE, best |-> NoCertificate]
        ELSE IF LargestNumerator(g, q) > Min({limit, MaxGrid})
        THEN [ineligible |-> FALSE, overflow |-> TRUE, best |-> NoCertificate]
        ELSE [ineligible |-> FALSE] @@ FoldLeft(scan, [overflow |-> FALSE, best |-> NoCertificate], grid)
=============================================================================
