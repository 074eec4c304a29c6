----------------------------- MODULE Optimizer -----------------------------
(* The controller that closes the interval around the cutwidth of a connected  *)
(* graph (optimize_connected of optimizer_v2.cpp). It asks "is the cutwidth at  *)
(* most t" of one persistent session per threshold, by turns, and mixes in      *)
(* what the other arms find: residual DP, SDP, cheap bounds, incumbents, a SAT   *)
(* proof in a thread of its own. A run that is out of time leaves a checkpoint   *)
(* which a later run resumes. One action is one passage through the loop's      *)
(* head or one service; how a session searches is DecisionSearch's, how its      *)
(* workers share regions ProofForest's, how permits are leased GlobalExecutor's. *)
EXTENDS Integers, FiniteSets

CONSTANTS
    RootBound,       \* what root_lower_bounds yields
    SeedWidth,       \* width of the seed ordering
    Work,            \* services that decide a threshold at the latest
    PbGap,           \* pb_sat_root_max_gap
    DescendingSteps, \* descending_feasible_steps_before_binary
    MaxStops,        \* runs that end at their time limit and are resumed
    Modes,           \* OptimizerV2Options to choose from
    None

ASSUME WidthAssumption == RootBound \in Nat /\ SeedWidth \in Nat /\ RootBound <= SeedWidth
ASSUME WorkAssumption  == Work \in Nat \ {0} /\ MaxStops \in Nat /\ DescendingSteps \in Nat
                          /\ PbGap \in Nat
ASSUME ModesAssumption ==
    Modes \subseteq [controller : {"static", "adaptive-pb", "adaptive-dfs"},
                     scheduler  : {"recurrence", "primary_first", "value_aware"},
                     threads    : Nat \ {0},
                     arms       : SUBSET {"bounds", "alns", "residual-dp", "sdp", "pb-sat-root"},
                     recursive  : BOOLEAN,  \* recursive_coarse_kernel
                     timed      : BOOLEAN]  \* a time limit, and a file for the checkpoint

Thresholds == 0..(SeedWidth - 1)
Sessions   == [status : {"unresolved", "infeasible", "feasible"}, done : 0..Work,
               services : Nat, pooled : BOOLEAN]
Intervals  == [lower : Nat, upper : 0..SeedWidth, width : 0..SeedWidth]
Places     == {"head", "serve", "ended", "saved", "done", "stopped",
               "EpochRefused", "CheckpointRefused", "ResumeRefused"}
Larger(a, b) == IF a >= b THEN a ELSE b
ASSUME NoneAssumption == None \notin Int /\ None \notin Sessions

VARIABLES
    mode,
    opt,       \* the cutwidth, which the controller does not know
    pc,
    cut,       \* lower, upper, and the width of order
    sess,      \* adaptive_sessions
    resumed,   \* resumed_serial_sessions and resumed_parallel_sessions
    completed, \* completed_thresholds
    epoch,     \* value_aware_epoch
    tick,      \* adaptive_tick modulo 4
    scheduled, \* scheduled_lower and scheduled_upper
    aux,       \* what waits to be done by the auxiliary arms
    job,       \* active_pb_sat_root_job
    attempted, \* pb_sat_root_attempted_thresholds
    descents,  \* descending_steps
    stops

vars == <<mode, opt, pc, cut, sess, resumed, completed, epoch, tick, scheduled, aux, job,
          attempted, descents, stops>>

Dfs    == mode.controller = "adaptive-dfs"
Arm(a) == Dfs /\ a \in mode.arms

(* A thread each for the incumbent and the SAT proof, the others for the DFS.   *)
AuxiliarySlots == (IF Arm("alns") THEN 1 ELSE 0) + (IF Arm("pb-sat-root") THEN 1 ELSE 0)
Slots  == IF mode.threads > AuxiliarySlots THEN mode.threads - AuxiliarySlots ELSE 1
Pool   == Dfs /\ Slots > 1
Forest == Dfs /\ (Slots > 1 \/ mode.recursive)

(* What cheap_bound_forest points to once its threshold's session is dropped.   *)
Dropped  == -1
Open(c)  == {t \in Thresholds : c.lower <= t /\ t < c.upper}
Truth(t) == IF t < opt THEN "infeasible" ELSE "feasible"

NewSession(pooled) == [status |-> "unresolved", done |-> 0, services |-> 0, pooled |-> pooled]
IdleArms == [dpLeft |-> Arm("residual-dp"), dpNext |-> FALSE, sdp |-> 0, sdpNext |-> FALSE,
             cheapOf |-> None]

Raised(c, bound) == [c EXCEPT !.lower = Larger(@, bound)]

(* A witness of a threshold may be narrower than the threshold.                *)
Improved(c, t, width) ==
    IF t < c.upper THEN [c EXCEPT !.upper = t, !.width = width] ELSE c

-----------------------------------------------------------------------------
(* The loop's head: poll the SAT proof, stop when the interval is closed, start *)
(* a proof at upper - 1, look at the clock, drop the sessions outside.          *)

(* Only a checked refutation counts. Mutant: any proof that has ended.          *)
PolledAnyEnd == IF job # None /\ job.state # "running" THEN Raised(cut, job.threshold + 1) ELSE cut
Polled == IF job # None /\ job.state = "unsat" THEN Raised(cut, job.threshold + 1) ELSE cut
JobEnded == job # None /\ job.state # "running"
Closed(c) == c.lower >= c.upper

Spawns(c) ==
    /\ Arm("pb-sat-root") /\ (job = None \/ JobEnded)
    /\ c.upper - c.lower <= PbGap /\ c.upper - 1 \notin attempted

JobAfter(c) ==
    IF Spawns(c) THEN [threshold |-> c.upper - 1, state |-> "running"]
    ELSE IF JobEnded THEN None ELSE job

Closes ==
    /\ pc = "head" /\ Closed(Polled)
    /\ cut' = Polled /\ pc' = "done" /\ job' = None
    /\ UNCHANGED <<mode, opt, sess, resumed, completed, epoch, tick, scheduled, aux, attempted,
                   descents, stops>>

Enters(c) ==
    /\ pc = "head" /\ ~Closed(c)
    /\ cut' = c /\ job' = JobAfter(c)
    /\ attempted' = IF Spawns(c) THEN attempted \cup {c.upper - 1} ELSE attempted

RunsOut ==
    /\ Enters(Polled) /\ mode.timed
    /\ pc' = "ended"
    /\ UNCHANGED <<mode, opt, sess, resumed, completed, epoch, tick, scheduled, aux, descents,
                   stops>>

Moved(c) == scheduled # <<c.lower, c.upper>>

Continues ==
    /\ Enters(Polled)
    /\ pc' = "serve"
    /\ IF Dfs /\ Moved(Polled)
       THEN /\ scheduled' = <<Polled.lower, Polled.upper>> /\ tick' = 0
            /\ sess' = [t \in Thresholds |-> IF t \in Open(Polled) THEN sess[t] ELSE None]
            /\ aux' = [aux EXCEPT !.cheapOf = IF @ \in Open(Polled) \cup {None} THEN @ ELSE Dropped]
       ELSE UNCHANGED <<scheduled, tick, sess, aux>>
    /\ UNCHANGED <<mode, opt, resumed, completed, epoch, descents, stops>>

(* run_pb_sat_root_job publishes a terminal state; sat, timed_out and failed    *)
(* tell the controller nothing.                                                *)
JobEnds ==
    /\ job # None /\ job.state = "running" /\ pc \in {"head", "serve"}
    /\ \E s \in {"unsat", "other"} :
        /\ s = "unsat" => job.threshold < opt
        /\ job' = [job EXCEPT !.state = s]
    /\ UNCHANGED <<mode, opt, pc, cut, sess, resumed, completed, epoch, tick, scheduled, aux,
                   attempted, descents, stops>>
-----------------------------------------------------------------------------
(* Which threshold is served next.                                             *)

Midpoint(c) == c.lower + (c.upper - c.lower) \div 2
Powers(c)   == {2 ^ i : i \in 1..c.upper}
Dyadics(c)  == {c.upper - o : o \in {p \in Powers(c) : c.upper - p > Larger(Midpoint(c), c.lower)}}
Live(c)     == {t \in Open(c) : sess[t] # None \/ resumed[t] # None}
Services(t) == IF sess[t] = None THEN 0 ELSE sess[t].services

PersistentCandidates(c) == {c.upper - 1, c.lower, Midpoint(c)} \cup Dyadics(c) \cup Live(c)

(* The position in the list: upper - 1, lower, dyadic probes, midpoint, retained. *)
Rank(c, t) ==
    IF t = c.upper - 1 THEN 0
    ELSE IF t = c.lower THEN 1
    ELSE IF t \in Dyadics(c) THEN c.upper - t
    ELSE IF t = Midpoint(c) THEN c.upper
    ELSE c.upper + 1

(* Every threshold gets one service at a level before any gets the next.       *)
RecurringThresholds(c) ==
    {t \in PersistentCandidates(c) : \A u \in PersistentCandidates(c) :
        \/ Services(t) < Services(u)
        \/ Services(t) = Services(u) /\ Rank(c, t) <= Rank(c, u)}

LowerLive(c) ==
    {t \in Open(c) : t < c.upper - 1 /\ sess[t] # None /\ sess[t].status = "unresolved"}

(* One turn in four goes to a lower threshold.                                 *)
PrimaryFirstThresholds(c) ==
    IF LowerLive(c) = {} \/ tick # 3 THEN {c.upper - 1} ELSE LowerLive(c)

ValueAwareCandidates(c) ==
    ({c.upper - 1, c.upper - 2, c.upper - 3, Midpoint(c)} \cup Dyadics(c) \cup Live(c)) \cap Open(c)

Active(e, c) == e.candidates \cap Open(c)

(* The candidates stay as they are until the incumbent improves or fewer than   *)
(* two are left.                                                               *)
EpochAfter(c) ==
    IF \/ epoch = None \/ epoch.upper # c.upper
       \/ Cardinality(Active(epoch, c)) < 2 /\ epoch.lower # c.lower
    THEN [lower |-> c.lower, upper |-> c.upper, candidates |-> ValueAwareCandidates(c)]
    ELSE epoch

Pilots(c) == {t \in Active(EpochAfter(c), c) : Services(t) = 0}

(* Pilots from the top; what is measured later is not modelled: any candidate.  *)
ValueAwareThresholds(c) ==
    IF Pilots(c) # {} THEN {t \in Pilots(c) : \A u \in Pilots(c) : u <= t}
    ELSE Active(EpochAfter(c), c)

Selected(c) ==
    CASE mode.scheduler = "recurrence"    -> RecurringThresholds(c)
      [] mode.scheduler = "primary_first" -> PrimaryFirstThresholds(c)
      [] mode.scheduler = "value_aware"   -> ValueAwareThresholds(c)

(* The order in which retained forests may share the window.                   *)
PoolCandidates(c) ==
    IF mode.scheduler = "value_aware" THEN Active(EpochAfter(c), c) ELSE PersistentCandidates(c)

PoolRank(c, t) ==
    IF mode.scheduler # "value_aware" THEN Rank(c, t)
    ELSE LET e == EpochAfter(c)
         IN  IF t >= e.upper - 3 \/ t \in Dyadics(e) THEN e.upper - t
             ELSE IF t = Midpoint(e) THEN e.upper ELSE e.upper + 1 + t
-----------------------------------------------------------------------------
(* The arms the window does not serve take a turn of their own.                *)

Serving == pc = "serve" /\ Dfs
DpTurn    == aux.dpNext /\ aux.dpLeft /\ ~Pool
SdpTurn   == aux.sdpNext /\ ~Pool
CheapTurn == aux.cheapOf # None /\ ~(Pool /\ Slots > 2)

(* A run of residual DP over all vertices yields the cutwidth when it is over.  *)
ServeDp ==
    /\ Serving /\ DpTurn
    /\ \E complete \in BOOLEAN :
        /\ cut' = IF complete THEN Raised(cut, opt) ELSE cut
        /\ aux' = [aux EXCEPT !.dpNext = FALSE, !.dpLeft = ~complete]
    /\ pc' = "head"
    /\ UNCHANGED <<mode, opt, sess, resumed, completed, epoch, tick, scheduled, job, attempted,
                   descents, stops>>

(* What a task certifies: nothing (stale, uncertified) or a lower bound.       *)
SdpBounds == {0} \cup {b \in (cut.lower + 1)..SeedWidth : b <= opt}

ServeSdp ==
    /\ Serving /\ ~DpTurn /\ SdpTurn
    /\ \E b \in SdpBounds : cut' = Raised(cut, b)
    /\ aux' = [aux EXCEPT !.sdpNext = FALSE, !.sdp = @ - 1]
    /\ pc' = "head"
    /\ UNCHANGED <<mode, opt, sess, resumed, completed, epoch, tick, scheduled, job, attempted,
                   descents, stops>>

(* A certified fragment may be the last one open: the forest is decided then,   *)
(* but nobody is told. A task of a dropped forest is refused and its fragment   *)
(* given back.                                                                 *)
CheapCloses(S, t) ==
    IF t \in Thresholds /\ S[t] # None /\ S[t].status = "unresolved" /\ t < opt
    THEN {S, [S EXCEPT ![t].status = "infeasible"]} ELSE {S}

(* Mutant: the flag is left set.                                               *)
CheapLeft == aux
CheapDone == [aux EXCEPT !.cheapOf = None]

ServeCheap ==
    /\ Serving /\ ~DpTurn /\ ~SdpTurn /\ CheapTurn
    /\ sess' \in CheapCloses(sess, aux.cheapOf)
    /\ aux' = CheapDone
    /\ pc' = "head"
    /\ UNCHANGED <<mode, opt, cut, resumed, completed, epoch, tick, scheduled, job, attempted,
                   descents, stops>>
-----------------------------------------------------------------------------
(* One service of the selected threshold.                                      *)

(* A saved session goes on where it was. Mutant: it begins anew.               *)
OpenedAnew(t) == IF sess[t] # None THEN sess[t] ELSE NewSession(Pool)
Opened(t) ==
    IF sess[t] # None THEN sess[t]
    ELSE IF resumed[t] # None THEN [resumed[t] EXCEPT !.pooled = Pool]
    ELSE NewSession(Pool)

(* The frontier a new primary-first forest is primed with may decide it; then   *)
(* it is not bound to the executor.                                            *)
Created(t) ==
    {Opened(t)} \cup
    (IF mode.scheduler = "primary_first" /\ Forest /\ sess[t] = None /\ resumed[t] = None
     THEN {[NewSession(FALSE) EXCEPT !.status = Truth(t)]} ELSE {})

(* Some work is done, or in a pool where no region could be had none.          *)
Served(s, t) ==
    IF s.status # "unresolved" THEN {s}
    ELSE {[s EXCEPT !.status = Truth(t), !.done = Work]}
         \cup (IF s.done + 1 < Work THEN {[s EXCEPT !.done = @ + 1]} ELSE {})
         \cup (IF s.pooled THEN {s} ELSE {})

Decided(s) == s.status # "unresolved"

(* A forest decided between two epochs has no epoch to open.                    *)
Refused(s) == Decided(s) /\ s.pooled

(* Slots for one-shots: one each, if one is left for the DFS, or two when a     *)
(* fragment of the proof is claimed.                                           *)
AdmitsDp  == aux.dpNext /\ aux.dpLeft
AdmitsSdp == aux.sdpNext /\ (IF AdmitsDp THEN 1 ELSE 0) + 2 <= Slots
OneShots  == (IF AdmitsDp THEN 1 ELSE 0) + (IF AdmitsSdp THEN 1 ELSE 0)
AdmitsCheap == aux.cheapOf # None /\ OneShots + 3 <= Slots

DfsSlots(cheap) == Slots - OneShots - (IF cheap THEN 1 ELSE 0)
PrimaryPermits(cheap, m) == DfsSlots(cheap) - m * (DfsSlots(cheap) \div (m + 1))
Shares(cheap, m) ==
    m + 1 <= DfsSlots(cheap) /\ PrimaryPermits(cheap, m) >= (IF cheap THEN 2 ELSE 1)

MaxSecondaries(cheap) ==
    IF mode.scheduler = "primary_first" \/ ~Shares(cheap, 1) THEN 0
    ELSE IF Shares(cheap, 2) THEN 2 ELSE 1

Potential(t) ==
    {u \in Open(cut) \ {t} : /\ u \in PoolCandidates(cut)
                             /\ sess[u] # None /\ sess[u].pooled /\ ~Decided(sess[u])}

(* The first of the list, as many as there are permits for.                    *)
Secondaries(t, cheap) ==
    {S \in SUBSET Potential(t) :
        /\ Cardinality(S) <= MaxSecondaries(cheap)
        /\ Cardinality(S) < MaxSecondaries(cheap) => S = Potential(t)
        /\ \A u \in S, v \in Potential(t) \ S : PoolRank(cut, u) <= PoolRank(cut, v)}

(* A primary that keeps the pool busy for two epochs lets the next lower        *)
(* threshold in, and that one the next.                                        *)
MayDemand(s) == s.services >= 2
Demanded(t, s) ==
    IF mode.scheduler # "primary_first" \/ t # cut.upper - 1 \/ ~MayDemand(s)
       \/ cut.upper < cut.lower + 3 THEN {None}
    ELSE IF sess[cut.upper - 2] = None THEN {None, cut.upper - 2}
    ELSE IF /\ cut.upper >= cut.lower + 4 /\ MayDemand(sess[cut.upper - 2])
            /\ sess[cut.upper - 3] = None
         THEN {None, cut.upper - 3} ELSE {None}

(* The bounds after the one-shots.                                             *)
OneShotResults(complete) ==
    LET c == IF complete THEN Raised(cut, opt) ELSE cut
    IN  IF AdmitsSdp THEN {Raised(c, b) : b \in SdpBounds} ELSE {c}

(* The bounds after the secondaries: S maps those served to what they are now. *)
Below(S)     == {u \in DOMAIN S : S[u].status = "infeasible"}
Reached(S)   == {u \in DOMAIN S : S[u].status = "feasible"}
SecondaryLower(c, S) ==
    {b \in {c.lower} \cup {u + 1 : u \in Below(S)} : b >= c.lower /\ \A u \in Below(S) : b >= u + 1}
SecondaryResults(c, S) ==
    {[lower |-> b, upper |-> c.upper, width |-> c.width] : b \in
        {l \in SecondaryLower(c, S) : \A u \in Reached(S) : u >= c.upper}}
    \cup UNION {{[lower |-> b, upper |-> u, width |-> w] :
                    b \in SecondaryLower(c, S), w \in opt..u} :
                u \in {v \in Reached(S) : v < c.upper /\ \A x \in Reached(S) : v <= x}}

(* An incumbent found meanwhile.                                               *)
IncumbentResults(c) == {c} \cup {Improved(c, w, w) : w \in opt..(c.upper - 1)}
ConcurrentIncumbent == Arm("alns") /\ mode.threads > 1 /\ cut.lower + 1 < cut.upper
SerialIncumbent(c)  == Arm("alns") /\ mode.threads = 1 /\ c.lower + 1 < c.upper

(* The decision of the threshold itself comes last, whatever lower is by now.  *)
DecisionResults(c, t, status) ==
    CASE status = "unresolved" -> {c}
      [] status = "infeasible" -> {[c EXCEPT !.lower = t + 1]}
      [] status = "feasible"   -> {Improved(c, t, w) : w \in opt..t}

Entry(t, s) == [threshold |-> t, status |-> s.status]
Completions(t, s, S) ==
    completed \cup (IF Decided(s) THEN {Entry(t, s)} ELSE {})
              \cup {Entry(u, S[u]) : u \in {v \in DOMAIN S : Decided(S[v])}}

(* An epoch in which nothing could be done does not count.                     *)
Counted(before, after) ==
    IF after = before /\ ~Decided(after) THEN after ELSE [after EXCEPT !.services = @ + 1]

SessionsAfter(t, s, S, d, x) ==
    [u \in Thresholds |->
        IF u = t THEN s ELSE IF u \in DOMAIN S THEN S[u]
        ELSE IF d # None /\ u = d THEN x ELSE sess[u]]

Enqueued(t) == IF Arm("sdp") /\ sess[t] = None /\ resumed[t] = None THEN 1 ELSE 0

(* What the window served of the other arms.                                   *)
NoOneShots == [dp |-> FALSE, complete |-> FALSE, sdp |-> FALSE, cheap |-> FALSE]

(* After a service that leaves its threshold open every other arm may be next.  *)
ArmsAfter(t, s, w) ==
    LET a == [aux EXCEPT !.dpLeft = @ /\ ~w.complete,
                         !.dpNext = @ /\ ~w.dp,
                         !.sdp = @ + Enqueued(t) - (IF w.sdp THEN 1 ELSE 0),
                         !.sdpNext = @ /\ ~w.sdp,
                         !.cheapOf = IF w.cheap THEN None ELSE @]
    IN  IF Decided(s) THEN {a}
        ELSE {[a EXCEPT !.dpNext = Arm("residual-dp"), !.sdpNext = a.sdp > 0, !.cheapOf = f] :
                  f \in IF Arm("bounds") /\ Forest THEN {None, t} ELSE {None}}

TickAfter == IF mode.scheduler = "primary_first" THEN (tick + 1) % 4 ELSE tick
OpenedEpoch == IF mode.scheduler = "value_aware" THEN EpochAfter(cut) ELSE epoch
DfsTurn == Serving /\ ~DpTurn /\ ~SdpTurn /\ ~CheapTurn
(* S holds the secondaries, new the session that was let in at d.              *)
Concludes(t, s, S, d, new, c, w) ==
    /\ completed' = Completions(t, s, S)
    /\ aux' \in ArmsAfter(t, s, w)
    /\ resumed' = [u \in Thresholds |-> IF u = t \/ (d # None /\ u = d) THEN None ELSE resumed[u]]
    /\ \E joined \in (IF ConcurrentIncumbent THEN IncumbentResults(c) ELSE {c}) :
        \E decision \in DecisionResults(joined, t, s.status) :
            cut' \in (IF SerialIncumbent(decision) THEN IncumbentResults(decision) ELSE {decision})
    /\ tick' = TickAfter /\ epoch' = OpenedEpoch
    /\ pc' = "head"
    /\ UNCHANGED <<mode, opt, scheduled, job, attempted, descents, stops>>

(* A session with its own worker, or one that is decided already.              *)
ServesAlone(t) ==
    /\ DfsTurn /\ t \in Selected(cut)
    /\ \E before \in Created(t) :
        /\ ~before.pooled
        /\ \E after \in Served(before, t) :
            LET s == Counted(before, after)
            IN  /\ sess' = SessionsAfter(t, s, << >>, None, None)
                /\ Concludes(t, s, << >>, None, None, cut, NoOneShots)

(* When the epochs of a window are drained, the results are taken one after     *)
(* the other: the one-shots', the secondaries', the primary's.                 *)
Settles(t, s, S, d, new, claimed, complete) ==
    LET all == SessionsAfter(t, s, S, d, new)
    IN  /\ sess' \in (IF claimed THEN CheapCloses(all, aux.cheapOf) ELSE {all})
        /\ \E oneShots \in OneShotResults(complete) : \E c \in SecondaryResults(oneShots, S) :
              Concludes(t, s, S, d, new, c, [dp |-> AdmitsDp, complete |-> complete,
                                             sdp |-> AdmitsSdp, cheap |-> AdmitsCheap])

(* One window of the pool: the epochs are granted together and drained.        *)
ServesWindow(t) ==
    /\ DfsTurn /\ t \in Selected(cut)
    /\ \E before \in Created(t) :
        /\ before.pooled /\ ~Decided(before)
        /\ \E claimed \in (IF AdmitsCheap /\ aux.cheapOf # Dropped THEN BOOLEAN ELSE {FALSE}),
              complete \in (IF AdmitsDp THEN BOOLEAN ELSE {FALSE}),
              d \in Demanded(t, before) :
           \E Sec \in Secondaries(t, claimed),
              new \in (IF d = None THEN {None} ELSE Created(d)),
              after \in Served(before, t) :
           \E S \in [Sec -> UNION {Served(sess[u], u) : u \in Sec}] :
            /\ \A u \in Sec : S[u] \in Served(sess[u], u)
            /\ Settles(t, Counted(before, after), S, d, new, claimed, complete)

(* open_epoch throws, and nobody catches it before optimize returns.           *)
RefusesEpoch ==
    /\ DfsTurn
    /\ \E t \in Selected(cut) : sess[t] # None /\ Refused(sess[t])
    /\ pc' = "EpochRefused"
    /\ UNCHANGED <<mode, opt, cut, sess, resumed, completed, epoch, tick, scheduled, aux, job,
                   attempted, descents, stops>>
-----------------------------------------------------------------------------
(* The controllers without sessions: every decision is made at one go.         *)

Descending == descents = 0 \/ descents < DescendingSteps

(* The portfolio's offset would grow with a censored service, but the loop ends *)
(* with the first.                                                             *)
PortfolioThreshold(c) == IF c.upper - 1 > Midpoint(c) THEN c.upper - 1 ELSE Midpoint(c)

StaticThreshold(c) ==
    IF mode.controller = "adaptive-pb" THEN PortfolioThreshold(c)
    ELSE IF Descending THEN c.upper - 1 ELSE Midpoint(c)

Decides ==
    /\ pc = "serve" /\ ~Dfs
    /\ LET t == StaticThreshold(cut)
       IN  /\ cut' \in DecisionResults(cut, t, Truth(t))
           /\ completed' = completed \cup {[threshold |-> t, status |-> Truth(t)]}
           /\ descents' = IF Truth(t) = "feasible" /\ Descending THEN descents + 1 ELSE descents
    /\ pc' = "head"
    /\ UNCHANGED <<mode, opt, sess, resumed, epoch, tick, scheduled, aux, job, attempted, stops>>

-----------------------------------------------------------------------------
(* Checkpoint and resume. Once it is saved the variables hold what the file     *)
(* does: the process is gone, and with it the SAT proof and every flag.         *)

Saved(t) ==
    IF t \notin Open(cut) THEN None
    ELSE IF sess[t] # None
         THEN IF Decided(sess[t]) THEN None ELSE [sess[t] EXCEPT !.pooled = FALSE]
    ELSE IF resumed[t] # None THEN [resumed[t] EXCEPT !.services = 0] ELSE None

(* validate_adaptive_checkpoint, before the file is written.                   *)
Acceptable ==
    /\ epoch # None => epoch.lower <= cut.lower /\ epoch.upper = cut.upper
    /\ \A e \in completed :
        IF e.status = "feasible" THEN cut.upper <= e.threshold ELSE cut.lower >= e.threshold + 1

Saves ==
    /\ pc = "ended" /\ Dfs /\ Acceptable
    /\ pc' = "saved"
    /\ resumed' = [t \in Thresholds |-> Saved(t)]
    /\ sess' = [t \in Thresholds |-> None]
    /\ aux' = [IdleArms EXCEPT !.dpLeft = aux.dpLeft, !.sdp = aux.sdp]
    /\ job' = None /\ attempted' = {} /\ tick' = 0 /\ scheduled' = None
    /\ UNCHANGED <<mode, opt, cut, completed, epoch, descents, stops>>

RefusesCheckpoint ==
    /\ pc = "ended" /\ Dfs /\ ~Acceptable
    /\ pc' = "CheckpointRefused"
    /\ UNCHANGED <<mode, opt, cut, sess, resumed, completed, epoch, tick, scheduled, aux, job,
                   attempted, descents, stops>>

Stops ==
    /\ pc = "ended" /\ ~Dfs
    /\ pc' = "stopped"
    /\ UNCHANGED <<mode, opt, cut, sess, resumed, completed, epoch, tick, scheduled, aux, job,
                   attempted, descents, stops>>

(* The adaptive controllers skip the root bounds without that arm.              *)
SeedLower == IF mode.controller = "static" \/ "bounds" \in mode.arms THEN RootBound ELSE 0

(* The incumbent of the file has to be as wide as its upper bound.              *)
Resumes ==
    /\ pc = "saved" /\ stops < MaxStops
    /\ pc' = IF cut.width # cut.upper THEN "ResumeRefused" ELSE "head"
    /\ cut' = Raised(cut, SeedLower)
    /\ stops' = stops + 1
    /\ UNCHANGED <<mode, opt, sess, resumed, completed, epoch, tick, scheduled, aux, job,
                   attempted, descents>>
-----------------------------------------------------------------------------
Init ==
    /\ mode \in Modes
    /\ opt \in RootBound..SeedWidth
    /\ \E b \in SeedLower..SeedWidth :
        /\ b = SeedLower \/ (mode.controller = "static" /\ "sdp" \in mode.arms /\ b <= opt)
        /\ cut = [lower |-> b, upper |-> SeedWidth, width |-> SeedWidth]
    /\ pc = "head"
    /\ sess = [t \in Thresholds |-> None] /\ resumed = [t \in Thresholds |-> None]
    /\ completed = {} /\ epoch = None /\ tick = 0 /\ scheduled = None
    /\ aux = IdleArms /\ job = None /\ attempted = {} /\ descents = 0 /\ stops = 0

Serves(t) == ServesAlone(t) \/ ServesWindow(t)

Controller ==
    \/ Closes \/ RunsOut \/ Continues \/ ServeDp \/ ServeSdp \/ ServeCheap
    \/ \E t \in Thresholds : Serves(t)
    \/ RefusesEpoch \/ Decides \/ Saves \/ RefusesCheckpoint \/ Stops

Next == Controller \/ JobEnds \/ Resumes

(* A service in which some session gets on: the pool's epochs are not always    *)
(* empty.                                                                      *)
Advances == \E t \in Thresholds : Serves(t) /\ sess' # sess

Spec == Init /\ [][Next]_vars /\ WF_vars(Controller) /\ SF_vars(Advances)
-----------------------------------------------------------------------------
(* Properties.                                                                *)

TypeOK ==
    /\ mode \in Modes /\ opt \in RootBound..SeedWidth /\ pc \in Places
    /\ cut \in Intervals
    /\ sess \in [Thresholds -> {None} \cup Sessions]
    /\ resumed \in [Thresholds -> {None} \cup Sessions]
    /\ job \in {None} \cup [threshold : Thresholds, state : {"running", "unsat", "other"}]

(* Whatever the arms find and in whatever order it is taken, stale or late, the *)
(* interval encloses the cutwidth, a session's answer and a completed threshold *)
(* are right, and a closed interval is the cutwidth with an ordering of it      *)
(* (result.optimal).                                                           *)
IntervalSound ==
    /\ cut.lower <= opt /\ opt <= cut.width /\ cut.width <= cut.upper
    /\ \A t \in Thresholds :
        /\ sess[t] # None => sess[t].status \in {"unresolved", Truth(t)}
        /\ resumed[t] # None => resumed[t].status = "unresolved"
    /\ \A e \in completed : e.status = Truth(e.threshold)
    /\ pc = "done" => cut.lower = opt /\ cut.upper = opt /\ cut.width = opt

Held(t) == IF sess[t] # None THEN sess[t].done ELSE IF resumed[t] # None THEN resumed[t].done ELSE 0
Decidedly(t) == sess[t] # None /\ Decided(sess[t])

(* "Adaptive search can preserve all live threshold sessions" (README): while a *)
(* threshold is open, what its session has searched is never begun anew, by no  *)
(* switch of thresholds, no checkpoint and no resume.                          *)
ProgressKept ==
    [][\A t \in Open(cut') : Decidedly(t) \/ Held(t)' >= Held(t)]_vars

(* Every run comes to an end: closed, out of time, or refused.                 *)
Ends == pc = "head" ~> pc \in {"done", "stopped", "saved", "EpochRefused",
                               "CheckpointRefused", "ResumeRefused"}

(* "cannot prepare a terminal parallel session" (parallel_global_dfs_session,    *)
(* 38-39): a window is only opened on a forest with something to do.            *)
ForestsAnswer == pc # "EpochRefused"

(* "--checkpoint-out FILE writes an unresolved adaptive search at its time       *)
(* limit; --resume FILE restores it" (README).                                 *)
CheckpointUsable == pc \notin {"CheckpointRefused", "ResumeRefused"}
=============================================================================
