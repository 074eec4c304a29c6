----------------------------- MODULE MCRootTasks -----------------------------
(* Instances of RootTasks for TLC: graphs of one to five vertices at the        *)
(* thresholds next to their cutwidth, one to three threads, both engines.      *)
EXTENDS RootTasks, CacheChecks

Single == SimpleGraph(1, {})
Star  == SimpleGraph(4, {<<0, 1>>, <<0, 2>>, <<0, 3>>})
K4    == SimpleGraph(4, {<<0, 1>>, <<0, 2>>, <<0, 3>>, <<1, 2>>, <<1, 3>>, <<2, 3>>})
Paw   == SimpleGraph(4, {<<0, 1>>, <<1, 2>>, <<0, 2>>, <<2, 3>>})
Wheel == SimpleGraph(5, {<<0, 1>>, <<1, 2>>, <<2, 3>>, <<3, 0>>,
                         <<0, 4>>, <<1, 4>>, <<2, 4>>, <<3, 4>>})
Bull  == SimpleGraph(5, {<<0, 1>>, <<0, 2>>, <<0, 3>>, <<1, 3>>, <<3, 4>>})

MCGraphs == {Single, Star, K4, Paw, Bull, Wheel}
MCThresholds ==
    (Single :> {0}) @@ (Star :> {0, 1, 2}) @@ (K4 :> {3, 4}) @@ (Paw :> {1, 2}) @@ (Bull :> {1, 2}) @@ (Wheel :> {4, 5})

Serial ==
    [word64 |-> TRUE, threads |-> 1, timed |-> FALSE, twins |-> TRUE, index |-> FALSE,
     failFirst |-> TRUE, lookahead |-> FALSE, lookaheadRemaining |-> 0, incremental |-> FALSE,
     partialBounds |-> FALSE, bounds |-> {"residual_degree"}, caching |-> TRUE,
     fixed |-> FALSE, keepsCache |-> FALSE, sdp |-> FALSE,
     memo |-> 0, memoRemaining |-> 0, memoOrder |-> FALSE,
     dp |-> 0, bestNext |-> FALSE, probe |-> 0, probeSlack |-> 1, probeChildren |-> 4,
     probeLimited |-> FALSE]

Words    == [Serial EXCEPT !.threads = 3, !.timed = TRUE, !.incremental = TRUE,
                           !.partialBounds = TRUE, !.fixed = TRUE, !.lookahead = TRUE]
Memos    == [Serial EXCEPT !.threads = 2, !.timed = TRUE, !.memo = 2, !.memoOrder = TRUE]
Dynamics == [Serial EXCEPT !.threads = 3, !.word64 = FALSE, !.timed = TRUE, !.index = TRUE,
                           !.keepsCache = TRUE, !.probe = 1,
                           !.partialBounds = TRUE, !.bounds = Expensive]
Plain    == [Serial EXCEPT !.threads = 2, !.word64 = FALSE, !.failFirst = FALSE, !.sdp = TRUE,
                           !.keepsCache = TRUE, !.bestNext = TRUE, !.dp = 3]
SerialMemo == [Serial EXCEPT !.memo = 2, !.memoRemaining = 3, !.keepsCache = TRUE, !.twins = FALSE]

MCOptions == [g \in MCGraphs |-> {Serial, Words, Memos, Dynamics, Plain, SerialMemo}]
=============================================================================
