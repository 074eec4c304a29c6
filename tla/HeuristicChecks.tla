-------------------------- MODULE HeuristicChecks ---------------------------
(* The layouts and the heuristics (Heuristics) on small graphs, at whatever     *)
(* point the deadline stops them.                                             *)
EXTENDS Cutwidth

H == INSTANCE Heuristics
I == INSTANCE Incumbent

Path   == SimpleGraph(4, {<<0, 2>>, <<2, 1>>, <<1, 3>>})
Diamond == SimpleGraph(4, {<<0, 1>>, <<1, 2>>, <<2, 3>>, <<3, 0>>, <<0, 2>>})
Kite   == SimpleGraph(5, {<<0, 3>>, <<3, 1>>, <<1, 4>>, <<4, 0>>, <<2, 4>>, <<2, 3>>})
Drawn == {Path, Diamond, Kite, SimpleGraph(1, {}), SimpleGraph(2, {})}

Orders(g) == SetToSeqs(Vertices(g))
Optimum(g) == SubsetDp(g)[Vertices(g)]
Layouts(g) == {H!Layout(g, o) : o \in Orders(g)}

(* The cuts kept up incrementally are those of the order, after every move from *)
(* every order, and the order remains one of all vertices.                     *)
ASSUME LayoutsExact ==
    \A g \in {Path, Diamond} : \A s \in Layouts(g), kind \in H!Kinds, a, b \in 1..4 :
        LET t == H!Applied(g, s, kind, a, b)
        IN  ValidOrdering(g, t.order) /\ t.cuts = H!Cuts(g, t.order)

Sound(g, r) == ValidOrdering(g, r.order) /\ r.width = OrderingCutwidth(g, r.order)

(* Whenever it is stopped, a heuristic returns an order with the width it has,  *)
(* never wider than that of the vertices by number; left alone, one that no      *)
(* single relocation makes narrower.                                          *)
ASSUME HeuristicsSound ==
    \A g \in Drawn : \A seeds \in 0..Cardinality(Vertices(g)), polls \in {0, 1, 99}, looked \in {0, 2}, tiebreak \in BOOLEAN :
        LET n == Cardinality(Vertices(g))
            start == OrderingCutwidth(g, Sorted(Vertices(g), <))
            results == {H!IncrementalHeuristic(g, tiebreak, seeds, polls),
                        H!BasicHeuristic(g, seeds, polls, looked)}
        IN  \A r \in results :
                /\ Sound(g, r) /\ r.width \in Optimum(g)..start
                /\ polls = 99 => \A a, b \in 1..n :
                    OrderingCutwidth(g, H!Moved(r.order, "insertion", a, b)) >= r.width

(* A local search never loses what it started with, wherever it stops; what     *)
(* leaves the portfolio is the best it has seen.                              *)
ASSUME PortfolioKeepsBest ==
    \A o \in Orders(Diamond), passes \in 0..2, looked \in {0, 3, 10} :
        LET s == H!Layout(Diamond, o)
            t == H!VnsImprove(Diamond, s, passes, looked)
            r == H!Portfolio(Diamond, H!Result(Diamond, o), <<<<0, 1, 2, 3>>, <<3, 0, 1, 2>>>>, passes, looked)
        IN  /\ t = s \/ H!Better(t.cuts, s.cuts, TRUE)
            /\ t.cuts = H!Cuts(Diamond, t.order)
            /\ Sound(Diamond, r) /\ r.width <= OrderingCutwidth(Diamond, o)

(* However the dice fall, annealing keeps the best order it has met.           *)
ASSUME AnnealingKeepsBest ==
    \A o \in {<<0, 1, 2, 3>>, <<1, 2, 0, 3>>} :
        LET first == [current |-> H!Result(Path, o), best |-> H!Result(Path, o)]
            walk[k \in 0..3] ==
                IF k = 0 THEN {first}
                ELSE UNION {H!AnnealStep(Path, s, k - 1, 3) : s \in walk[k - 1]}
        IN  \A k \in 0..3 : \A s \in walk[k] :
                /\ Sound(Path, s.best) /\ Sound(Path, s.current)
                /\ ~H!Preferred(s.current, s.best) /\ ~H!Preferred(first.best, s.best)

(* The randomised construction: the cut it keeps is that of the vertices        *)
(* placed, and every result is an order.                                      *)
ASSUME ConstructionsExact ==
    \A g \in {Diamond, Kite} :
        /\ \A s \in H!GraspOrders(g) : ValidOrdering(g, s.order) /\ s.cut = 0
        /\ \A v \in Vertices(g) : ValidOrdering(g, H!GreedyOrder(g, v)) /\ H!GreedyOrder(g, v)[1] = v
        /\ \A o \in H!FiedlerOrders(g) : ValidOrdering(g, o)
-----------------------------------------------------------------------------
(* The sessions some steps after each of the first orders.                     *)
RECURSIVE Onward(_, _, _)
Onward(g, sessions, steps) ==
    LET next == sessions \cup UNION {I!RepairStep(g, s) : s \in sessions}
    IN  IF steps = 0 \/ next = sessions THEN sessions ELSE Onward(g, next, steps - 1)

(* A session can be saved and restored after any step, repairs half done        *)
(* included. No step makes the best order or the current one worse, and the     *)
(* best is replaced only by a narrower one.                                   *)
ASSUME IncumbentKept ==
    \A g \in {Path, Diamond, SimpleGraph(1, {})} :
        LET first == {I!NewSession(g, o) : o \in {Sorted(Vertices(g), <), Sorted(Vertices(g), >)}}
        IN  \A s \in Onward(g, first, 60) :
                /\ I!ValidSnapshot(g, s)
                /\ \A t \in I!RepairStep(g, s) :
                    /\ t.width <= s.width
                    /\ t.best # s.best => t.bestWidth < s.bestWidth
                    /\ t.current # s.current =>
                        t.width < s.width \/ H!ProfileBetter(H!Cuts(g, t.current), H!Cuts(g, s.current))

(* The optimizer takes the order a service reports for its own upper bound.     *)
ASSUME IncumbentReports ==
    \A o \in Orders(Path), work \in 0..3 : \A r \in I!Service(Path, I!NewSession(Path, o), work) :
        /\ ValidOrdering(Path, r.order) /\ r.width = OrderingCutwidth(Path, r.order)
        /\ r.improved <=> r.width < OrderingCutwidth(Path, o)
=============================================================================
