------------------------- MODULE MCDecisionSearch --------------------------
(* Instances of DecisionSearch for TLC: graphs of three to seven vertices, the *)
(* thresholds next to their cutwidth, and the ways the solver is set up.       *)
EXTENDS DecisionSearch

Triangle == SimpleGraph(3, {<<0, 1>>, <<0, 2>>, <<1, 2>>})
K4    == SimpleGraph(4, {<<0, 1>>, <<0, 2>>, <<0, 3>>, <<1, 2>>, <<1, 3>>, <<2, 3>>})
Star  == SimpleGraph(4, {<<0, 1>>, <<0, 2>>, <<0, 3>>})
Paw   == SimpleGraph(4, {<<0, 1>>, <<1, 2>>, <<0, 2>>, <<2, 3>>})
Bull  == SimpleGraph(5, {<<0, 1>>, <<0, 2>>, <<0, 3>>, <<1, 3>>, <<3, 4>>})
House == SimpleGraph(5, {<<0, 1>>, <<1, 2>>, <<2, 3>>, <<3, 0>>, <<3, 4>>, <<2, 4>>})
Comet == SimpleGraph(7, {<<0, 2>>, <<1, 2>>, <<0, 3>>, <<0, 4>>, <<0, 5>>, <<0, 6>>})

MCGraphs == {Triangle, K4, Star, Paw, Bull, House, Comet}
MCThresholds ==
    (Triangle :> {1, 2}) @@ (K4 :> {3, 4}) @@ (Star :> {1, 2}) @@ (Paw :> {1, 2})
        @@ (Bull :> {1, 2}) @@ (House :> {2, 3}) @@ (Comet :> {2})

Default ==
    [twins |-> TRUE, index |-> FALSE, failFirst |-> TRUE,
     lookahead |-> FALSE, lookaheadRemaining |-> 0,
     partialBounds |-> TRUE, bounds |-> {"residual_degree"},
     dp |-> 0, probe |-> 0, probeSlack |-> 1, probeChildren |-> 4, probeLimited |-> FALSE,
     cache |-> "freeze", keeps |-> FALSE, bestNext |-> FALSE,
     sessions |-> TRUE, kernel |-> FALSE, frontier |-> FALSE, limit |-> 3]

(* One that keeps what it splits off, probes and recycles its cache; one that  *)
(* ends in tables; the coarse kernel below a frontier; the recursive search    *)
(* with a cache for all thresholds, cut short or not; one that keeps residual  *)
(* degrees up to date and does not use them.                                  *)
Keeping == [Default EXCEPT !.index = TRUE, !.probe = 2, !.cache = "clock", !.keeps = TRUE,
                           !.partialBounds = FALSE]
Tables  == [Default EXCEPT !.dp = 3, !.lookahead = TRUE]
Coarse  == [Default EXCEPT !.kernel = TRUE, !.frontier = TRUE, !.bestNext = TRUE,
                           !.bounds = {"edge_distance_area", "degeneracy"}]
Classic == [Default EXCEPT !.sessions = FALSE, !.kernel = TRUE, !.cache = "cross", !.dp = 3,
                           !.failFirst = FALSE]
Plain   == [Default EXCEPT !.sessions = FALSE, !.kernel = TRUE, !.cache = "cross", !.index = TRUE,
                           !.twins = FALSE, !.partialBounds = FALSE,
                           !.probe = 1, !.probeLimited = TRUE, !.bestNext = TRUE]
Unpruned == [Default EXCEPT !.partialBounds = FALSE, !.cache = "none"]

MCOptions ==
    [g \in MCGraphs |->
        IF g = Comet THEN {[Unpruned EXCEPT !.limit = 1]}
        ELSE IF g = House THEN {Keeping, Classic, Plain}
        ELSE IF g = Bull THEN {Default, Keeping, Coarse, Classic, Plain, Unpruned}
        ELSE {Default, Keeping, Tables, Coarse, Classic, Plain, Unpruned}]

(* The optimizer starts from a lower bound on the cutwidth.                     *)
Pairs(n) == {<<a, b>> \in (0..(n - 1)) \X (0..(n - 1)) : a < b}
SmallGraphs == MCGraphs \cup {SimpleGraph(4, E) : E \in SUBSET Pairs(4)}
ASSUME RootBoundsSound == \A g \in SmallGraphs : RootLowerBound(g) <= SubsetDp(g)[Vertices(g)]
=============================================================================
