--------------------------- MODULE GlobalExecutor ---------------------------
(***************************************************************************)
(* The controller-owned worker pool of the cutwidth optimizer:             *)
(* GlobalDFSExecutor (global_dfs_executor.{hpp,cpp}), the two kinds of      *)
(* sessions it serves (ParallelGlobalDFSSession, a proof forest seen through*)
(* its adapter, and OneShotGlobalWorkSession, an auxiliary arm), and the    *)
(* one controller thread that calls it.                                    *)
(*                                                                         *)
(* mutex_ makes each locked section of the code one action here. A pool    *)
(* thread is in a task at one of these places:                             *)
(*   "enter"    holds a slot, about to call run_one_lease                   *)
(*   "inside"   in run_one_lease of the session                            *)
(*   "returned" run_one_lease is back, outcome not classified yet          *)
(*   "handoff"  in the steal loop                                          *)
(*   "finish"   about to give the slot back                                *)
(* The controller is in one call at a time: "draining" and "closing"       *)
(* (drain_epochs), "quiescing" (quiesce_all), "retiring" and "resuming"    *)
(* (unregister_session), "snapshotting" (the live checkpoint).             *)
(*                                                                         *)
(* permits_ is a deque that enqueue_permits_locked keeps sorted round-robin*)
(* by epoch id, so it is represented by permits[e], the rounds in which    *)
(* epoch e still has a permit: the deque is the pairs <<round, epoch>> in  *)
(* lexicographic order.                                                    *)
(***************************************************************************)
EXTENDS Integers, Sequences, FiniteSets

CONSTANTS
    Threads,      \* the threads of pool_
    Sessions,     \* GlobalWorkSession objects
    OneShots,     \* those that are OneShotGlobalWorkSession
    Threshold,    \* the threshold each session is bound at
    Batches,      \* the request vectors the controller may pass to grant_epochs
    MaxEpochs,    \* bound on next_epoch_
    WorkUnits,    \* total_work_units of an epoch, in region claims
    MaxReady,     \* bound on the ready queue of a forest
    MaxTasks,     \* bound on scheduled closures when the pool is paused
    NoSession

Forests  == Sessions \ OneShots
EpochId  == 1 .. MaxEpochs
\* A request: a session and the number of permits it asks for.
Request  == [session : Sessions, permits : Nat]

ASSUME ThreadsAssumption == IsFiniteSet(Threads) /\ Threads # {}
ASSUME SessionsAssumption ==
    /\ OneShots \subseteq Sessions
    /\ NoSession \notin Sessions
    /\ Threshold \in [Sessions -> Nat]
ASSUME BatchesAssumption ==
    \A b \in Batches :
        /\ b \in Seq(Request)
        /\ Len(b) > 0
        /\ \A i \in 1 .. Len(b) : b[i].permits > 0
ASSUME BoundsAssumption ==
    /\ MaxEpochs \in Nat
    /\ WorkUnits \in Nat \ {0}
    /\ MaxReady \in Nat \ {0}
    /\ MaxTasks \in Nat

VARIABLES
    \* sessions_, bindings_, generations_, and the sessions' own revoked_
    registered, bound, generation, generations, revoked,
    \* epochs_ (keys, the sessions they were granted to, the fields of Epoch),
    \* permits_, next_epoch_
    live, owner, pending, active, draining, permits, nextEpoch,
    \* paused_, stopping_, scheduled closures, active_leases_, worker_ids_in_use_
    paused, stopping, tasks, activeLeases, idsInUse,
    \* per pool thread: place, epoch whose slot it holds, worker_id,
    \* steal_attempts, outcome.status == useful, region claimed in the forest
    pc, on, wid, attempts, useful, holding,
    \* per session: ready queue (ready_ for a one-shot), remaining_work,
    \* status # unresolved, epoch_open_
    ready, credit, resolved, epochOpen,
    \* the controller: place, epochs to drain, sessions to quiesce, session to
    \* unregister, blocked in epoch_cv_.wait
    cpc, toDrain, toClose, target, asleep

registryVars   == <<registered, bound, generation, generations, revoked>>
epochVars      == <<live, owner, pending, active, draining, permits, nextEpoch>>
poolVars       == <<paused, stopping, tasks, activeLeases, idsInUse>>
threadVars     == <<pc, on, wid, attempts, useful, holding>>
sessionVars    == <<ready, credit, resolved, epochOpen>>
controllerVars == <<cpc, toDrain, toClose, target, asleep>>
vars == <<registryVars, epochVars, poolVars, threadVars, sessionVars, controllerVars>>

-----------------------------------------------------------------------------
Workers    == Cardinality(Threads)
WorkerId   == 0 .. Workers - 1
StealLimit == 2 * Workers
NoEpoch    == 0
Thresholds == {Threshold[s] : s \in Sessions}

\* The permits in the deque, as <<epoch, round>>.
Queue == UNION {{e} \X permits[e] : e \in EpochId}
IsFront(e, r) ==
    /\ r \in permits[e]
    /\ \A f \in EpochId : \A q \in permits[f] : r < q \/ (r = q /\ e <= f)

Holders(e) == {t \in Threads : on[t] = e}
Busy       == {t \in Threads : on[t] # NoEpoch}
LiveEpochsOf(s) == {e \in live : owner[e] = s}

\* prepared_ && !revoked_
Armed(s) == generation[s] # 0 /\ s \notin revoked
\* has_runnable_work(): a region that can be claimed now, or a one-shot whose
\* ready_ is still set.
Runnable(s) ==
    /\ Armed(s)
    /\ ready[s] > 0
    /\ s \in Forests => ~resolved[s] /\ credit[s] > 0

\* The steal loop's candidates for a thread, and their order.
Candidates(t) == {e \in live \ {on[t]} : owner[e] \in bound /\ Runnable(owner[e])}
StealsBefore(e, f) ==
    \/ Threshold[owner[e]] < Threshold[owner[f]]
    \/ Threshold[owner[e]] = Threshold[owner[f]] /\ e <= f

-----------------------------------------------------------------------------
Init ==
    /\ registered = {} /\ bound = {} /\ revoked = {}
    /\ generation = [s \in Sessions |-> 0]
    /\ generations = [k \in Thresholds |-> 0]
    /\ live = {} /\ draining = {}
    /\ owner = [e \in EpochId |-> NoSession]
    /\ pending = [e \in EpochId |-> 0]
    /\ active = [e \in EpochId |-> 0]
    /\ permits = [e \in EpochId |-> {}]
    /\ nextEpoch = 1
    /\ paused = FALSE /\ stopping = FALSE
    /\ tasks = 0 /\ activeLeases = 0 /\ idsInUse = {}
    /\ pc = [t \in Threads |-> "idle"]
    /\ on = [t \in Threads |-> NoEpoch]
    /\ wid = [t \in Threads |-> 0]
    /\ attempts = [t \in Threads |-> 0]
    /\ useful = [t \in Threads |-> FALSE]
    /\ holding = [t \in Threads |-> FALSE]
    /\ ready = [s \in Sessions |-> IF s \in OneShots THEN 0 ELSE 1]
    /\ credit = [s \in Sessions |-> 0]
    /\ resolved = [s \in Sessions |-> FALSE]
    /\ epochOpen = [s \in Sessions |-> FALSE]
    /\ cpc = "ready" /\ toDrain = {} /\ toClose = {}
    /\ target = NoSession /\ asleep = FALSE

-----------------------------------------------------------------------------
\* Controller: registration and binding.

\* register_session. A session the optimizer has unregistered is destroyed.
Register(s) ==
    /\ cpc = "ready"
    /\ s \notin registered \cup revoked
    /\ registered' = registered \cup {s}
    /\ UNCHANGED <<bound, generation, generations, revoked, epochVars, poolVars,
                   threadVars, sessionVars, controllerVars>>

\* The session has no binding.
Unbound(s) == s \in registered \ bound
\* ++generations_[threshold]. Mutant: read, not incremented.
NoBump(s) == generations
Bump(s)   == [generations EXCEPT ![Threshold[s]] = @ + 1]

\* bind_session of a registered session that has no binding: the threshold's
\* next generation, then session->prepare, which sets a one-shot's ready_.
BindSession(s) ==
    /\ cpc = "ready"
    /\ Unbound(s)
    /\ bound' = bound \cup {s}
    /\ generations' = Bump(s)
    /\ generation' = [generation EXCEPT ![s] = generations[Threshold[s]] + 1]
    /\ ready' = [ready EXCEPT ![s] = IF s \in OneShots THEN 1 ELSE @]
    /\ UNCHANGED <<registered, revoked, epochVars, poolVars, threadVars,
                   credit, resolved, epochOpen, controllerVars>>

-----------------------------------------------------------------------------
\* Controller: grant_epochs.

InBatch(b)      == {b[i].session : i \in 1 .. Len(b)}
IndexOf(b, s)   == CHOOSE i \in 1 .. Len(b) : b[i].session = s
EpochAt(i)      == nextEpoch + i - 1
NewEpochs(n)    == nextEpoch .. nextEpoch + n - 1
RequestOf(b, e) == b[e - nextEpoch + 1]

\* Request i survives the first loop: its session is registered and has no
\* epoch that is not draining, not even one emplaced earlier in this call ...
Emplaceable(b, i) ==
    LET s == b[i].session IN
    /\ s \in registered
    /\ LiveEpochsOf(s) \subseteq draining
    /\ \A j \in 1 .. i - 1 : b[j].session # s
\* ... and the second: open_epoch refuses a decided forest and an open epoch.
Openable(b, i) ==
    LET s == b[i].session IN s \in Forests => ~resolved[s] /\ ~epochOpen[s]

\* The first n requests of b: bind_locked on each, then epochs_.emplace.
BindAndEmplace(b, n) ==
    LET fresh == {i \in 1 .. n : b[i].session \notin bound}
        at(i) == Threshold[b[i].session]
        rank(i) == Cardinality({j \in fresh : j <= i /\ at(j) = at(i)})
        new == NewEpochs(n)
    IN  /\ bound' = bound \cup {b[i].session : i \in 1 .. n}
        /\ generations' = [k \in Thresholds |->
                generations[k] + Cardinality({i \in fresh : at(i) = k})]
        /\ generation' = [s \in Sessions |->
                IF \E i \in fresh : b[i].session = s
                THEN generations[Threshold[s]] + rank(IndexOf(b, s))
                ELSE generation[s]]
        /\ ready' = [s \in Sessions |->
                IF s \in OneShots /\ \E i \in fresh : b[i].session = s THEN 1 ELSE ready[s]]
        /\ nextEpoch' = nextEpoch + n
        /\ live' = live \cup new
        /\ owner' = [e \in EpochId |->
                IF e \in new THEN RequestOf(b, e).session ELSE owner[e]]
        /\ pending' = [e \in EpochId |->
                IF e \in new THEN RequestOf(b, e).permits ELSE pending[e]]

\* Mutant: the last epoch of the batch is not opened.
OpenEpochsOneShort(b, n) ==
    LET opened == {b[i].session : i \in 1 .. n - 1} IN
    /\ credit' = [s \in Sessions |-> IF s \in opened THEN WorkUnits ELSE credit[s]]
    /\ epochOpen' = [s \in Sessions |-> s \in opened \cap Forests \/ epochOpen[s]]

\* open_epoch on the first n requests.
OpenEpochs(b, n) ==
    LET opened == {b[i].session : i \in 1 .. n} IN
    /\ credit' = [s \in Sessions |-> IF s \in opened THEN WorkUnits ELSE credit[s]]
    /\ epochOpen' = [s \in Sessions |-> s \in opened \cap Forests \/ epochOpen[s]]

\* Mutants: a permit too few; the new permits appended to the deque.
QueueWithOneShort(b) ==
    [e \in EpochId |->
        1 .. Cardinality(permits[e]) +
             (IF e \in NewEpochs(Len(b)) THEN RequestOf(b, e).permits - 1 ELSE 0)]
QueueWithAppends(b) ==
    LET last == Cardinality(Queue) IN
    [e \in EpochId |-> permits[e] \cup
        (IF e \in NewEpochs(Len(b)) THEN last + 1 .. last + RequestOf(b, e).permits ELSE {})]

\* enqueue_permits_locked for every request: the deque is rebuilt round-robin.
QueueWith(b) ==
    [e \in EpochId |->
        1 .. Cardinality(permits[e]) +
             (IF e \in NewEpochs(Len(b)) THEN RequestOf(b, e).permits ELSE 0)]
RequestedPermits(b) == UNION {{i} \X (1 .. b[i].permits) : i \in 1 .. Len(b)}

\* The whole call: every request admitted, every epoch opened, the permits
\* queued and one closure scheduled per permit unless the pool is paused.
GrantEpochs(b) ==
    /\ cpc = "ready"
    /\ nextEpoch + Len(b) - 1 <= MaxEpochs
    /\ \A i \in 1 .. Len(b) : Emplaceable(b, i) /\ Openable(b, i)
    /\ BindAndEmplace(b, Len(b))
    /\ OpenEpochs(b, Len(b))
    /\ permits' = QueueWith(b)
    /\ tasks' = IF paused THEN tasks ELSE tasks + Cardinality(RequestedPermits(b))
    /\ UNCHANGED <<registered, revoked, active, draining, paused, stopping,
                   activeLeases, idsInUse, threadVars, resolved, controllerVars>>

-----------------------------------------------------------------------------
\* Controller: drain_epoch and drain_epochs.

DrainBegin(E) ==
    /\ cpc = "ready"
    /\ E # {} /\ E \subseteq live
    /\ cpc' = "draining"
    /\ toDrain' = E
    /\ draining' = draining \cup E
    /\ UNCHANGED <<registryVars, live, owner, pending, active, permits, nextEpoch,
                   poolVars, threadVars, sessionVars, toClose, target, asleep>>

IsNext(e) == e \in toDrain /\ \A f \in toDrain : e <= f

\* The predicate of the wait. Mutant: it tests the permits only.
PermitsSpent(e) == pending[e] = 0
Drained(e)      == pending[e] = 0 /\ active[e] = 0

\* The wait's predicate holds for the next epoch: erase it, remember its session.
DrainErases(e) ==
    /\ cpc = "draining" /\ ~asleep
    /\ IsNext(e)
    /\ Drained(e)
    /\ live' = live \ {e}
    /\ draining' = draining \ {e}
    /\ toDrain' = toDrain \ {e}
    /\ toClose' = toClose \cup {owner[e]}
    /\ cpc' = IF toDrain' = {} THEN "closing" ELSE "draining"
    /\ UNCHANGED <<registryVars, owner, pending, active, permits, nextEpoch,
                   poolVars, threadVars, sessionVars, target, asleep>>

\* The predicate is false: the controller blocks until a notify.
DrainSleeps(e) ==
    /\ cpc = "draining" /\ ~asleep
    /\ IsNext(e)
    /\ ~Drained(e)
    /\ asleep' = TRUE
    /\ UNCHANGED <<registryVars, epochVars, poolVars, threadVars, sessionVars,
                   cpc, toDrain, toClose, target>>

\* After unlocking, session->quiesce(): finish_external_epoch waits for the
\* forest's own leases and its reconciliation re-queues a region if the
\* unresolved forest has none ready. A one-shot's quiesce does nothing.
CloseSession(s) ==
    /\ cpc = "closing"
    /\ s \in toClose
    /\ s \in Forests => ~\E t \in Threads : pc[t] = "inside" /\ owner[on[t]] = s
    /\ epochOpen' = [epochOpen EXCEPT ![s] = FALSE]
    /\ ready' = [ready EXCEPT ![s] =
                    IF s \in Forests /\ ~resolved[s] /\ @ = 0 THEN 1 ELSE @]
    /\ toClose' = toClose \ {s}
    /\ cpc' = IF toClose' = {} THEN "ready" ELSE "closing"
    /\ UNCHANGED <<registryVars, epochVars, poolVars, threadVars, credit, resolved,
                   toDrain, target, asleep>>

-----------------------------------------------------------------------------
\* Controller: quiesce_all, resume, unregister_session, the live checkpoint
\* and the destructor.

\* Every resume schedules a closure per queued permit, whether or not the one
\* scheduled before is still waiting: MaxTasks bounds that backlog.
PauseAllowed == tasks + Cardinality(Queue) <= MaxTasks

\* unregister_session(s) starts with quiesce_all.
UnregisterBegin(s) ==
    /\ cpc = "ready"
    /\ s \in registered
    /\ PauseAllowed
    /\ paused' = TRUE
    /\ target' = s
    /\ cpc' = "quiescing"
    /\ UNCHANGED <<registryVars, epochVars, stopping, tasks, activeLeases, idsInUse,
                   threadVars, sessionVars, toDrain, toClose, asleep>>

\* write_live_checkpoint starts with quiesce_all.
CheckpointBegin ==
    /\ cpc = "ready"
    /\ PauseAllowed
    /\ paused' = TRUE
    /\ cpc' = "quiescing"
    /\ UNCHANGED <<registryVars, epochVars, stopping, tasks, activeLeases, idsInUse,
                   threadVars, sessionVars, toDrain, toClose, target, asleep>>

\* The predicate of its wait. Mutant: no wait.
NoWait == TRUE
AtRest == activeLeases = 0

QuiesceSleeps ==
    /\ cpc = "quiescing" /\ ~asleep
    /\ ~AtRest
    /\ asleep' = TRUE
    /\ UNCHANGED <<registryVars, epochVars, poolVars, threadVars, sessionVars,
                   cpc, toDrain, toClose, target>>

QuiesceDone ==
    /\ cpc = "quiescing" /\ ~asleep
    /\ AtRest
    /\ cpc' = IF target = NoSession THEN "snapshotting" ELSE "retiring"
    /\ UNCHANGED <<registryVars, epochVars, poolVars, threadVars, sessionVars,
                   toDrain, toClose, target, asleep>>

\* Revoke and erase a session. Mutant: its binding stays.
ForgetKeepsBinding(s) ==
    revoked' = revoked \cup {s} /\ bound' = bound /\ registered' = registered \ {s}
Forget(s) ==
    revoked' = revoked \cup {s} /\ bound' = bound \ {s} /\ registered' = registered \ {s}

\* The locked section of unregister_session: it throws while an epoch of the
\* session is left, otherwise revokes the session and forgets it.
Retire ==
    /\ cpc = "retiring"
    /\ cpc' = "resuming"
    /\ IF LiveEpochsOf(target) # {}
       THEN UNCHANGED <<registered, bound, revoked>>
       ELSE Forget(target)
    /\ UNCHANGED <<generation, generations, epochVars, poolVars, threadVars,
                   sessionVars, toDrain, toClose, target, asleep>>

\* The closures resume schedules. Mutant: it counts on the earlier ones.
NoClosures    == 0
QueueClosures == Cardinality(Queue)

\* resume: one closure for every queued permit.
Resume ==
    /\ cpc \in {"resuming", "snapshotting"}
    /\ paused' = FALSE
    /\ tasks' = tasks + QueueClosures
    /\ target' = NoSession
    /\ cpc' = "ready"
    /\ UNCHANGED <<registryVars, epochVars, stopping, activeLeases, idsInUse,
                   threadVars, sessionVars, toDrain, toClose, asleep>>

\* The destructor sets stopping_; the pool's destructor then joins.
Destroy ==
    /\ cpc = "ready"
    /\ stopping' = TRUE
    /\ cpc' = "destroyed"
    /\ UNCHANGED <<registryVars, epochVars, paused, tasks, activeLeases, idsInUse,
                   threadVars, sessionVars, toDrain, toClose, target, asleep>>

-----------------------------------------------------------------------------
\* Pool threads: the closure of submit_dispenso_task_locked.

\* The closure returns at once: stopping, paused, or no permit left.
TaskReturns(t) ==
    /\ pc[t] = "idle" /\ tasks > 0
    /\ stopping \/ paused \/ Queue = {}
    /\ tasks' = tasks - 1
    /\ UNCHANGED <<registryVars, epochVars, paused, stopping, activeLeases, idsInUse,
                   threadVars, sessionVars, controllerVars>>

\* Mutant: the flag of the id is not looked at.
FreeIdUnchecked(i) == i \in WorkerId
FreeId(i) == i \in WorkerId \ idsInUse /\ \A j \in WorkerId \ idsInUse : i <= j

\* The closure pops the front permit and takes a slot and a worker id.
TaskClaims(t) ==
    /\ pc[t] = "idle" /\ tasks > 0
    /\ ~stopping /\ ~paused
    /\ tasks' = tasks - 1
    /\ \E e \in EpochId : \E r \in permits[e] :
        /\ IsFront(e, r)
        /\ permits' = [permits EXCEPT ![e] = @ \ {r}]
        /\ pending' = [pending EXCEPT ![e] = @ - 1]
        /\ active' = [active EXCEPT ![e] = @ + 1]
        /\ on' = [on EXCEPT ![t] = e]
    /\ activeLeases' = activeLeases + 1
    /\ \E i \in WorkerId :
        /\ FreeId(i) \/ (WorkerId \subseteq idsInUse /\ i = 0)
        /\ wid' = [wid EXCEPT ![t] = i]
        /\ idsInUse' = idsInUse \cup {i}
    /\ pc' = [pc EXCEPT ![t] = "enter"]
    /\ UNCHANGED <<registryVars, live, owner, draining, nextEpoch, paused, stopping,
                   attempts, useful, holding, sessionVars, controllerVars>>

\* run_one_lease, the checks on entry: a revoked or resolved forest and a
\* one-shot that has been served are refused.
LeaseEntered(t) ==
    LET s == owner[on[t]] IN
    /\ pc[t] = "enter"
    /\ Armed(s) /\ (IF s \in Forests THEN ~resolved[s] ELSE ready[s] > 0)
    /\ pc' = [pc EXCEPT ![t] = "inside"]
    /\ UNCHANGED <<registryVars, epochVars, poolVars, on, wid, attempts, useful, holding,
                   sessionVars, controllerVars>>

LeaseRefused(t) ==
    LET s == owner[on[t]] IN
    /\ pc[t] = "enter"
    /\ ~(Armed(s) /\ (IF s \in Forests THEN ~resolved[s] ELSE ready[s] > 0))
    /\ pc' = [pc EXCEPT ![t] = "returned"]
    /\ UNCHANGED <<registryVars, epochVars, poolVars, on, wid, attempts, useful, holding,
                   sessionVars, controllerVars>>

\* Inside a forest lease, worker_epoch claims a ready region against the
\* epoch's credit ...
ForestClaims(t) ==
    LET s == owner[on[t]] IN
    /\ pc[t] = "inside" /\ s \in Forests /\ ~holding[t]
    /\ ~resolved[s] /\ credit[s] > 0 /\ ready[s] > 0
    /\ ready' = [ready EXCEPT ![s] = @ - 1]
    /\ credit' = [credit EXCEPT ![s] = @ - 1]
    /\ holding' = [holding EXCEPT ![t] = TRUE]
    /\ useful' = [useful EXCEPT ![t] = TRUE]
    /\ UNCHANGED <<registryVars, epochVars, poolVars, pc, on, wid, attempts,
                   resolved, epochOpen, controllerVars>>

\* ... serves it, returns the credit it has not consumed and leaves n regions
\* ready (the region itself, a donated sibling, a parent whose last child
\* failed), or decides the forest.
ForestReturns(t) ==
    LET s == owner[on[t]] IN
    /\ pc[t] = "inside" /\ holding[t]
    /\ holding' = [holding EXCEPT ![t] = FALSE]
    /\ \E unused \in 0 .. 1 : credit' = [credit EXCEPT ![s] = @ + unused]
    /\ \/ /\ \E n \in 0 .. 2 :
                /\ ready[s] + n <= MaxReady
                /\ ready' = [ready EXCEPT ![s] = @ + n]
          /\ UNCHANGED resolved
       \/ /\ resolved' = [resolved EXCEPT ![s] = TRUE]
          /\ UNCHANGED ready
    /\ UNCHANGED <<registryVars, epochVars, poolVars, pc, on, wid, attempts, useful,
                   epochOpen, controllerVars>>

\* ... and leaves the lease between two regions: nothing ready, credit spent,
\* forest decided, or deadline. With nothing ready while another worker serves a
\* region, a lease that has been useful still ends as no_runnable.
ForestLeaseEnds(t) ==
    LET s == owner[on[t]] IN
    /\ pc[t] = "inside" /\ s \in Forests /\ ~holding[t]
    /\ pc' = [pc EXCEPT ![t] = "returned"]
    /\ \/ UNCHANGED useful
       \/ /\ ready[s] = 0 /\ \E u \in Threads : holding[u] /\ owner[on[u]] = s
          /\ useful' = [useful EXCEPT ![t] = FALSE]
    /\ UNCHANGED <<registryVars, epochVars, poolVars, on, wid, attempts,
                   holding, sessionVars, controllerVars>>

\* A one-shot lease: work_ has run, only now is ready_ cleared.
OneShotEnds(t) ==
    LET s == owner[on[t]] IN
    /\ pc[t] = "inside" /\ s \in OneShots
    /\ ready' = [ready EXCEPT ![s] = 0]
    /\ pc' = [pc EXCEPT ![t] = "returned"]
    /\ useful' = [useful EXCEPT ![t] = TRUE]
    /\ UNCHANGED <<registryVars, epochVars, poolVars, on, wid, attempts, holding,
                   credit, resolved, epochOpen, controllerVars>>

\* Back in the closure: a useful outcome of a session that still has runnable
\* work ends the task, every other one enters the steal loop.
Classify(t) ==
    /\ pc[t] = "returned"
    /\ pc' = [pc EXCEPT ![t] =
                IF useful[t] /\ Runnable(owner[on[t]]) THEN "finish" ELSE "handoff"]
    /\ useful' = [useful EXCEPT ![t] = FALSE]
    /\ UNCHANGED <<registryVars, epochVars, poolVars, on, wid, attempts,
                   holding, sessionVars, controllerVars>>

\* --curr_ep.active, ++tgt_ep.active. Mutant: only the first.
SlotDropped(t, e) == [active EXCEPT ![on[t]] = @ - 1]
SlotMoved(t, e)   == [active EXCEPT ![on[t]] = @ - 1, ![e] = @ + 1]

\* The locked section of the steal loop finds a candidate and moves this
\* thread's slot to it. epoch_cv_ is not notified here.
Steal(t) ==
    /\ pc[t] = "handoff" /\ attempts[t] < StealLimit
    /\ \E e \in Candidates(t) :
        /\ \A f \in Candidates(t) : StealsBefore(e, f)
        /\ active' = SlotMoved(t, e)
        /\ on' = [on EXCEPT ![t] = e]
    /\ attempts' = [attempts EXCEPT ![t] = @ + 1]
    /\ pc' = [pc EXCEPT ![t] = "enter"]
    /\ UNCHANGED <<registryVars, live, owner, pending, draining, permits, nextEpoch,
                   poolVars, wid, useful, holding, sessionVars, controllerVars>>

\* Mutant: the loop does not look at its attempts.
StealLoopInsists(t) ==
    /\ pc[t] = "handoff"
    /\ Candidates(t) = {}
    /\ pc' = [pc EXCEPT ![t] = "finish"]
    /\ UNCHANGED <<registryVars, epochVars, poolVars, on, wid, attempts, useful,
                   holding, sessionVars, controllerVars>>

\* The loop is left: attempts spent, or no candidate by the handoff deadline
\* (time is abstracted: any fruitless poll may be the last).
StealLoopEnds(t) ==
    /\ pc[t] = "handoff"
    /\ attempts[t] >= StealLimit \/ Candidates(t) = {}
    /\ pc' = [pc EXCEPT ![t] = "finish"]
    /\ UNCHANGED <<registryVars, epochVars, poolVars, on, wid, attempts, useful,
                   holding, sessionVars, controllerVars>>

\* epoch_cv_.notify_all. Mutant: nobody is woken.
NotifyNobody == UNCHANGED asleep
NotifyAll    == asleep' = FALSE

\* The closure gives its slot and worker id back and notifies epoch_cv_; its
\* locals end with it.
TaskFinishes(t) ==
    /\ pc[t] = "finish"
    /\ active' = [active EXCEPT ![on[t]] = @ - 1]
    /\ activeLeases' = activeLeases - 1
    /\ idsInUse' = idsInUse \ {wid[t]}
    /\ NotifyAll
    /\ on' = [on EXCEPT ![t] = NoEpoch]
    /\ pc' = [pc EXCEPT ![t] = "idle"]
    /\ wid' = [wid EXCEPT ![t] = 0]
    /\ attempts' = [attempts EXCEPT ![t] = 0]
    /\ useful' = [useful EXCEPT ![t] = FALSE]
    /\ UNCHANGED <<registryVars, live, owner, pending, draining, permits, nextEpoch,
                   paused, stopping, tasks, holding, sessionVars,
                   cpc, toDrain, toClose, target>>

-----------------------------------------------------------------------------
Task(t) ==
    \/ TaskReturns(t) \/ TaskClaims(t)
    \/ LeaseEntered(t) \/ LeaseRefused(t)
    \/ ForestClaims(t) \/ ForestReturns(t) \/ ForestLeaseEnds(t) \/ OneShotEnds(t)
    \/ Classify(t) \/ Steal(t) \/ StealLoopEnds(t) \/ TaskFinishes(t)

\* A call that the controller has started runs to its return.
Continue ==
    \/ \E e \in EpochId : DrainErases(e) \/ DrainSleeps(e)
    \/ \E s \in Sessions : CloseSession(s)
    \/ QuiesceSleeps \/ QuiesceDone \/ Retire \/ Resume

Call ==
    \/ \E s \in Sessions : Register(s) \/ BindSession(s) \/ UnregisterBegin(s)
    \/ \E b \in Batches : GrantEpochs(b)
    \/ \E E \in SUBSET EpochId : DrainBegin(E)
    \/ CheckpointBegin \/ Destroy

\* Every request is acceptable. One for a forest that is decided is not: the call
\* throws half-way, with the epochs of the earlier requests emplaced and bound, and
\* optimize_connected, the only caller, lets the exception end it (RefusesEpoch of
\* Optimizer). It grants only when every earlier epoch has been drained, so no slot is
\* held, no closure is scheduled and no permit queued: what follows is Destroy alone.
Next == (\E t \in Threads : Task(t)) \/ Continue \/ Call

\* The pool runs every scheduled closure and a closure runs on to its end; a
\* started controller call runs on. Nothing makes the controller start a call.
\* A forest lease that may return unused credit for ever is ended by the epoch's
\* deadline, which it tests between two regions: SF of ForestLeaseEnds.
Fairness ==
    /\ \A t \in Threads : WF_vars(Task(t)) /\ SF_vars(ForestLeaseEnds(t))
    /\ WF_vars(Continue)

Spec == Init /\ [][Next]_vars /\ Fairness

-----------------------------------------------------------------------------
\* Properties.

TypeOK ==
    /\ registered \in SUBSET Sessions
    /\ bound \in SUBSET registered
    /\ revoked \in SUBSET Sessions
    /\ generation \in [Sessions -> Nat]
    /\ generations \in [Thresholds -> Nat]
    /\ live \in SUBSET EpochId
    /\ draining \in SUBSET live
    /\ owner \in [EpochId -> Sessions \cup {NoSession}]
    /\ pending \in [EpochId -> Int]
    /\ active \in [EpochId -> Int]
    /\ permits \in [EpochId -> SUBSET (Nat \ {0})]
    /\ nextEpoch \in 1 .. MaxEpochs + 1
    /\ paused \in BOOLEAN /\ stopping \in BOOLEAN
    /\ tasks \in Nat /\ activeLeases \in Int
    /\ idsInUse \in SUBSET WorkerId
    /\ pc \in [Threads -> {"idle", "enter", "inside", "returned", "handoff", "finish"}]
    /\ on \in [Threads -> EpochId \cup {NoEpoch}]
    /\ wid \in [Threads -> WorkerId]
    /\ attempts \in [Threads -> Nat]
    /\ useful \in [Threads -> BOOLEAN]
    /\ holding \in [Threads -> BOOLEAN]
    /\ ready \in [Sessions -> Nat]
    /\ credit \in [Sessions -> Nat]
    /\ resolved \in [Sessions -> BOOLEAN]
    /\ epochOpen \in [Sessions -> BOOLEAN]
    /\ cpc \in {"ready", "draining", "closing", "quiescing", "retiring",
                "resuming", "snapshotting", "destroyed"}
    /\ toDrain \in SUBSET EpochId
    /\ toClose \in SUBSET Sessions
    /\ target \in Sessions \cup {NoSession}
    /\ asleep \in BOOLEAN

\* The counters the waits test are exact: Epoch::active is the number of
\* threads holding a slot of the epoch, through every steal, and active_leases_
\* the number of threads holding any (so "steal donor lost its active lease"
\* cannot be thrown, and a wait that sees 0 means nobody).
SlotsCounted ==
    /\ \A e \in EpochId : active[e] = Cardinality(Holders(e))
    /\ activeLeases = Cardinality(Busy)

\* Epoch::pending is the number of the epoch's permits still in the deque, and
\* the deque holds permits of live epochs only: the drain wait cannot miss a
\* permit nor wait for one that is gone.
PermitsCounted ==
    \A e \in EpochId :
        /\ pending[e] = Cardinality(permits[e])
        /\ e \notin live => permits[e] = {}

\* A thread in a task works on an epoch that exists, of a session that is bound
\* and not revoked: epochs_.at and bindings_.at in the closure never throw and
\* no lease runs in a session that unregister_session has retired.
SlotsOnLiveEpochs ==
    \A t \in Busy : on[t] \in live /\ owner[on[t]] \in bound \ revoked

\* A task that calls run_one_lease of a forest finds its epoch open: "lease
\* dispatched to unopened epoch" cannot be thrown on a pool thread.
LeasesFindOpenEpoch ==
    \A t \in Threads :
        pc[t] \in {"enter", "inside"} /\ owner[on[t]] \in Forests => epochOpen[owner[on[t]]]

\* Nobody is in a session when the controller closes its epoch, so
\* finish_external_epoch reconciles a forest at rest.
ClosedSessionsUnused ==
    \A s \in toClose : \A t \in Busy : owner[on[t]] # s

\* Two leases that run at the same time have different worker ids: the id
\* indexes per-worker state of a forest (worker_used, recursive_workers).
WorkerIdsExclusive ==
    \A t, u \in Busy : t # u => wid[t] # wid[u]

\* Unless the pool is paused or stopped, every queued permit has a scheduled
\* closure that will pop a permit.
NoStrandedPermit ==
    ~paused /\ ~stopping => tasks >= Cardinality(Queue)

\* Recurring service (comment in enqueue_permits_locked): at most one permit of
\* an epoch is ahead of the first permit of any other epoch.
RoundRobin ==
    \A e, f \in EpochId : permits[e] # {} /\ permits[f] # {} =>
        Cardinality({r \in permits[e] :
                        \A q \in permits[f] : r < q \/ (r = q /\ e < f)}) <= 1

\* The generation of a binding identifies it among all bindings its threshold
\* ever had.
GenerationsDistinct ==
    \A s, u \in Sessions :
        generation[s] # 0 /\ Threshold[s] = Threshold[u] /\ generation[s] = generation[u]
            => s = u

\* From the moment quiesce_all returns until resume, no session changes: the
\* checkpoint reads all forests at one instant, unregistration retires an idle
\* session.
FrozenWhileQuiesced ==
    [][(cpc \in {"snapshotting", "retiring"}) =>
            UNCHANGED <<sessionVars, epochVars>>]_vars

\* The executor implements SessionService: a session is open while it has an
\* epoch, a thread is in the session of the epoch whose slot it holds, and the
\* service is frozen from the end of quiesce_all to resume.
Service == INSTANCE SessionService WITH
    open   <- {owner[e] : e \in live},
    user   <- [t \in Threads |-> IF on[t] = NoEpoch THEN NoSession ELSE owner[on[t]]],
    frozen <- cpc \in {"snapshotting", "retiring", "resuming"}
ServesSessions == Service!ServiceSpec

\* Every call the controller starts returns: drains are woken although a steal
\* lowers an epoch's count without notifying, and quiesce_all outlasts the
\* steal loops, which do not look at paused_.
CallsReturn == cpc \notin {"ready", "destroyed"} ~> cpc = "ready"

\* Every permit granted is served without the controller's help, unless the
\* pool is stopped or paused again and again: a pause makes waiting closures
\* return unserved, and resume must replace them.
PermitsServed ==
    <>[](~paused) => \A e \in EpochId : permits[e] # {} ~> permits[e] = {} \/ stopping

\* After the destructor has set stopping_, the pool drains: it can be joined.
PoolJoins == stopping ~> Busy = {} /\ tasks = 0

\* "A one-lease controller arm" (optimizer_v2.cpp): the work of a one-shot
\* session is run by one lease, never by two at a time.
OneShotExclusive ==
    \A t, u \in Busy :
        /\ pc[t] = "inside" /\ pc[u] = "inside"
        /\ owner[on[t]] = owner[on[u]] /\ owner[on[t]] \in OneShots
        => t = u
=============================================================================
