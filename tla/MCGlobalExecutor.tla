-------------------------- MODULE MCGlobalExecutor --------------------------
(* Instances of GlobalExecutor for TLC: two proof forests at different      *)
(* thresholds, one auxiliary one-shot at the optimizer's high pseudo-       *)
(* threshold.                                                               *)
EXTENDS GlobalExecutor, TLC

CONSTANTS t1, t2, f1, f2, o1

MCThreshold == [s \in Sessions |-> IF s = f1 THEN 3 ELSE IF s = f2 THEN 4 ELSE 9]
\* f2 is the forest of the same threshold that replaces a retired f1.
MCSameThreshold == [s \in Sessions |-> 3]
Req(s, n) == [session |-> s, permits |-> n]

\* A forest with a one-shot arm, or alone with a permit for each worker.
ArmBatches == {<<Req(f1, 1), Req(o1, 1)>>, <<Req(f1, 2)>>}
\* A grant may find permits of another epoch still queued.
QueueBatches == {<<Req(f2, 2)>>, <<Req(f1, 1)>>, <<Req(f1, 1), Req(f2, 1)>>}
ThreadSymmetry == Permutations(Threads)
=============================================================================
