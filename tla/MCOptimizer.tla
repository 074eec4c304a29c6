----------------------------- MODULE MCOptimizer -----------------------------
(* Instances of Optimizer for TLC: one option set per way through the loop.    *)
EXTENDS Optimizer, HeuristicChecks, WholeGraphChecks, PbChecks, CertificateChecks

M(scheduler, threads, arms, recursive, timed) ==
    [controller |-> "adaptive-dfs", scheduler |-> scheduler, threads |-> threads,
     arms |-> arms, recursive |-> recursive, timed |-> timed]

(* The default scheduler with a pool of three that shares its windows with the   *)
(* one-shots, with a pool of two beside the incumbent's thread, and with one     *)
(* worker and its own forest; primary-first without root bounds; value-aware    *)
(* with the SAT proof in its thread, and with one worker.                       *)
AllModes ==
    {M("recurrence", 3, {"bounds", "residual-dp", "sdp"}, FALSE, FALSE),
     M("recurrence", 3, {"bounds", "alns"}, FALSE, TRUE),
     M("recurrence", 1, {"bounds", "residual-dp", "sdp"}, TRUE, TRUE),
     M("primary_first", 2, {}, FALSE, TRUE),
     M("value_aware", 3, {"bounds", "pb-sat-root"}, FALSE, FALSE),
     M("value_aware", 1, {"alns"}, FALSE, TRUE)}
    \cup [controller : {"static", "adaptive-pb"}, scheduler : {"recurrence"}, threads : {1},
          arms : {{"sdp"}}, recursive : {FALSE}, timed : BOOLEAN]
PoolModes == {M("recurrence", 3, {}, FALSE, FALSE)}
SerialModes == {M("recurrence", 1, {}, FALSE, TRUE)}
=============================================================================
