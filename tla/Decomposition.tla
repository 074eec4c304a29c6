---------------------------- MODULE Decomposition ----------------------------
(* Components and twins (decomposition.cpp), and what the entry points make of  *)
(* a graph with several components: decide_cutwidth_v2 and                     *)
(* optimize_cutwidth_v2 (optimizer_v2.cpp). The searches of the parts, the      *)
(* certificates of the SDP and the answers of the MILP solver are inputs.       *)
EXTENDS Cutwidth

NoValue == -1

(* induce: a graph on 0, 1, ... and, per number, the vertex it stands for.     *)
Induced(g, vertices) ==
    [graph |-> [a \in 0..(Len(vertices) - 1) |->
                    {b \in 0..(Len(vertices) - 1) : vertices[b + 1] \in g[vertices[a + 1]]}],
     parents |-> vertices]

RECURSIVE Reached(_, _, _)
Reached(g, frontier, seen) ==
    LET new == UNION {g[v] : v \in frontier} \ seen
    IN  IF frontier = {} THEN seen ELSE Reached(g, new, seen \cup new)

ComponentSets(g) ==
    FoldLeft(LAMBDA sets, root :
                IF \E S \in ToSet(sets) : root \in S THEN sets
                ELSE Append(sets, Reached(g, {root}, {root})),
             << >>, Sorted(Vertices(g), <))

ConnectedComponents(g) ==
    LET sets == ComponentSets(g)
    IN  [i \in DOMAIN sets |-> Induced(g, Sorted(sets[i], <))]

Whole(g) == << [graph |-> g, parents |-> Sorted(Vertices(g), <)] >>

(* The first vertex of a class collects the later ones that match it.          *)
ClassesOf(g, Match(_, _)) ==
    LET collected(s, v) ==
            LET class == {u \in Vertices(g) : u > v /\ u \notin s.assigned /\ Match(v, u)}
            IN  IF v \in s.assigned THEN s
                ELSE [assigned |-> s.assigned \cup class,
                      classes |-> IF class = {} THEN s.classes
                                  ELSE s.classes \cup {class \cup {v}}]
    IN  FoldLeft(collected, [assigned |-> {}, classes |-> {}], Sorted(Vertices(g), <)).classes

FalseTwins(g, a, b) == b \notin g[a] /\ g[a] = g[b]
TrueTwins(g, a, b)  == b \in g[a] /\ g[a] \cup {a} = g[b] \cup {b}

FalseClasses(g) == ClassesOf(g, LAMBDA a, b : FalseTwins(g, a, b))
TrueClasses(g)  == ClassesOf(g, LAMBDA a, b : TrueTwins(g, a, b))

TwinClasses(g) == Sorted(FalseClasses(g) \cup TrueClasses(g), LAMBDA S, T : Min(S) < Min(T))
-----------------------------------------------------------------------------
Lifted(component, order) == [i \in DOMAIN order |-> component.parents[order[i] + 1]]

Joined(components, orders) ==
    FoldLeft(LAMBDA o, i : o \o Lifted(components[i], orders[i]), << >>, [i \in DOMAIN orders |-> i])

(* decide_cutwidth_v2: one component after the other, up to the first that is  *)
(* not feasible, whose status is the answer. answers[i] is what the search of   *)
(* the i-th returns.                                                          *)
DecideParts(components, answers) ==
    LET stops == {i \in DOMAIN answers : answers[i].status # "feasible"}
    IN  IF stops # {} THEN [status |-> answers[Min(stops)].status, order |-> << >>]
        ELSE [status |-> "feasible",
              order |-> Joined(components, [i \in DOMAIN answers |-> answers[i].order])]

(* optimize_cutwidth_v2. Prefix sizes asked of the bisection SDP, nearest to    *)
(* the middle first as the options say.                                       *)
Cardinalities(n, offsets) ==
    FoldLeft(LAMBDA q, offset :
                LET k == n \div 2 - offset
                IN  IF offset > n \div 2 \/ k = 0 \/ k >= n \/ k \in ToSet(q) THEN q ELSE Append(q, k),
             << >>, offsets)

(* Any prefix of that size is cut by so many edges at least, which is the most  *)
(* a valid certificate can say.                                               *)
BisectionWidth(g, k) == Min({Cut(g, S) : S \in kSubset(k, Vertices(g))})

(* certified[i] is the bound of the i-th call, NoValue without one; the  *)
(* time may be up after any of them.                                          *)
SdpRootBound(certified) ==
    LET bounds == ToSet(certified) \ {NoValue} IN IF bounds = {} THEN NoValue ELSE Max(bounds)

(* An optimum of the MILP is the answer only if its own order proves it.       *)
MilpDecides(g, milp) ==
    /\ milp.status = "optimal" /\ milp.optimum # NoValue /\ milp.incumbent = milp.optimum
    /\ ValidOrdering(g, milp.order)

(* The adaptive controller searches the whole graph as one component.          *)
Parts(g, adaptive) == IF adaptive THEN Whole(g) ELSE ConnectedComponents(g)

(* parts are the results of the components searched before the time was up; the *)
(* vertices of the others follow by number.                                   *)
Assembled(g, components, parts) ==
    LET joined == Joined(components, [i \in DOMAIN parts |-> parts[i].order])
        order == joined \o Sorted(Vertices(g) \ ToSet(joined), <)
    IN  [lower |-> Max({0} \cup {parts[i].lower : i \in DOMAIN parts}),
         order |-> order, upper |-> OrderingCutwidth(g, order)]

Narrower(result, order, width) ==
    IF width < result.upper THEN [result EXCEPT !.order = order, !.upper = width] ELSE result

(* seed is the order found before an oracle was asked, << >> if there was none; *)
(* a MILP that was not attempted has neither an optimum nor an incumbent.       *)
OptimizeParts(g, components, parts, seed, milp, sdp) ==
    LET assembled == Assembled(g, components, parts)
        seeded == IF seed = << >> THEN assembled
                  ELSE Narrower(assembled, seed, OrderingCutwidth(g, seed))
        offered == milp.incumbent # NoValue /\ ValidOrdering(g, milp.order)
        best == IF offered THEN Narrower(seeded, milp.order, milp.incumbent) ELSE seeded
        lower == IF sdp = NoValue THEN best.lower ELSE Max({best.lower, sdp})
    IN  IF MilpDecides(g, milp)
        THEN [lower |-> milp.optimum, upper |-> milp.optimum, order |-> milp.order, optimal |-> TRUE]
        ELSE [lower |-> lower, upper |-> best.upper, order |-> best.order,
              optimal |-> lower = best.upper]
=============================================================================
