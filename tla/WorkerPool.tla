----------------------------- MODULE WorkerPool -----------------------------
(***************************************************************************)
(* ParallelDecisionSession with worker threads of its own                  *)
(* (parallel_decision_session.cpp): service() opens an epoch, the threads   *)
(* meet at its start, take regions of the proof forest, serve them for a    *)
(* part of the epoch's work each, and go; service() returns when all have   *)
(* gone.                                                                    *)
(*                                                                         *)
(* One condition variable, work_cv, carries four waits. Their predicates    *)
(* read atomics that change, and are notified, outside control_mutex, so    *)
(* that between the evaluation of a predicate and the sleep (mode "dozing", *)
(* the mutex held) a notification is lost. A thread is at:                  *)
(*   "loop"   waits for an epoch         "start"  enters worker_epoch       *)
(*   "gate"   waits for the others       "top"    head of its loop          *)
(*   "round"  has had its first claim, waits for the others' first claims   *)
(*   "pick"   is about to pop            "empty"  popped nothing             *)
(*   "idle"   waits for a region         "claim"  popped, takes its work     *)
(*   "count"  counts its first claim     "enter"  is not counted active yet  *)
(*   "serve"  active                     "leave"  served, active count next  *)
(*   "end"    leaves the epoch           "gone"   the thread has returned    *)
(*                                                                         *)
(* The forest is a tree of regions; what a service of a region does to it   *)
(* is any of what ProofForest has it do. A service uses a unit at least.    *)
(* The head of the loop reads stop, the deadline and remaining_work at once. *)
(***************************************************************************)
EXTENDS Integers, FiniteSets, FiniteSetsExt

CONSTANTS
    Workers,    \* the threads of the session
    MaxRegions, \* bound: regions the search ever has
    Kernel,     \* recursive_coarse_kernel
    Bounded,    \* service() is given a deadline
    Yielding,   \* another thread may call request_yield()
    Failing,    \* bound: services that throw
    Quanta,     \* work a call of service() may be given
    MaxEpochs,  \* bound: calls of service()
    None

ASSUME PoolAssumption ==
    /\ IsFiniteSet(Workers) /\ Workers # {}
    /\ None \notin Workers \cup (1..MaxRegions)
    /\ MaxRegions \in Nat \ {0} /\ MaxEpochs \in Nat
    /\ {Kernel, Bounded, Yielding} \subseteq BOOLEAN /\ Failing \in Nat
    /\ Quanta \subseteq Nat \ {0}

Regions == 1..MaxRegions
Width == Cardinality(Workers)

VARIABLES
    region,     \* "absent", "ready", "held", "waiting" (for its children), "closed"
    parent,     \* the region a region was donated by; None of the root
    status,     \* current_status
    ctl,        \* the caller: "idle", "armed" (epoch open, not notified), "waiting",
                \* and in the destructor "stopping", "joining", "gone"
    work,       \* remaining_work
    granted,    \* the work of the epoch: no variable of the code
    active,     \* active_workers
    arrivals, released, firstClaims, finished,   \* as in the code
    epoch, opened,                               \* epoch, service_active
    stop, late, stopping,   \* recursive_stop, the deadline has passed, stopping
    lock,       \* the dozing holder of control_mutex
    pc, mode, held, claimed, used, seen   \* per thread

forest == <<region, parent, status>>
counts == <<work, granted, active>>
barrier == <<arrivals, released, firstClaims, finished>>
control == <<ctl, epoch, opened, stopping>>
flags == <<stop, late>>
threads == <<held, claimed, used, seen>>
vars == <<forest, counts, barrier, control, flags, lock, pc, mode, threads>>

Ready == {r \in Regions : region[r] = "ready"}
Unresolved == status = "unresolved"

Init ==
    /\ region = [r \in Regions |-> IF r = 1 THEN "ready" ELSE "absent"]
    /\ parent = [r \in Regions |-> None]
    /\ status = "unresolved" /\ ctl = "idle"
    /\ work = 0 /\ granted = 0 /\ active = 0
    /\ arrivals = 0 /\ released = FALSE /\ firstClaims = 0 /\ finished = 0
    /\ epoch = 0 /\ opened = FALSE
    /\ stop = FALSE /\ late = FALSE /\ stopping = FALSE /\ lock = None
    /\ pc = [w \in Workers |-> "loop"] /\ mode = [w \in Workers |-> "awake"]
    /\ held = [w \in Workers |-> None] /\ claimed = [w \in Workers |-> 0]
    /\ used = [w \in Workers |-> FALSE] /\ seen = [w \in Workers |-> 0]
-----------------------------------------------------------------------------
(* The condition variable.                                                  *)

\* A thread that is neither asleep nor about to be.
At(w, point) == pc[w] = point /\ mode[w] = "awake"
Free == lock = None
Goes(w, point) == pc' = [pc EXCEPT ![w] = point]

\* notify_all: those that doze do not hear it.
NotifiesAll == mode' = [w \in Workers |-> IF mode[w] = "asleep" THEN "awake" ELSE mode[w]]
\* notify_one: any of the sleepers, whatever it waits for.
NotifiesOne ==
    LET sleepers == {w \in Workers : mode[w] = "asleep"}
    IN  IF sleepers = {} THEN mode' = mode
        ELSE \E w \in sleepers : mode' = [mode EXCEPT ![w] = "awake"]

Dozes(w, point, predicate) ==
    /\ At(w, point) /\ Free /\ ~predicate
    /\ mode' = [mode EXCEPT ![w] = "dozing"] /\ lock' = w
    /\ UNCHANGED <<forest, counts, barrier, control, flags, pc, threads>>
FallsAsleep(w) ==
    /\ mode[w] = "dozing"
    /\ mode' = [mode EXCEPT ![w] = "asleep"] /\ lock' = None
    /\ UNCHANGED <<forest, counts, barrier, control, flags, pc, threads>>
\* The predicates of "loop" and "gate" change under the mutex only: looking
\* and falling asleep are one step.
Sleeps(w, point, predicate) ==
    /\ At(w, point) /\ Free /\ ~predicate
    /\ mode' = [mode EXCEPT ![w] = "asleep"]
    /\ UNCHANGED <<forest, counts, barrier, control, flags, lock, pc, threads>>
\* wait_until at the deadline.
TimesOut(w) ==
    /\ mode[w] = "asleep" /\ pc[w] \in {"round", "idle"} /\ late /\ Free
    /\ mode' = [mode EXCEPT ![w] = "awake"]
    /\ UNCHANGED <<forest, counts, barrier, control, flags, lock, pc, threads>>
-----------------------------------------------------------------------------
(* A thread: worker_loop, run_worker_epoch, worker_epoch.                   *)

\* Mutants: a thread does not look at stopping; the round has no deadline.
LoopReadyToServe(w) == opened /\ epoch # seen[w]
LoopReady(w) == stopping \/ (opened /\ epoch # seen[w])
GateOpen == released \/ stopping
RoundOverUntimed == stopping \/ ~Unresolved \/ stop \/ work = 0 \/ firstClaims >= Width
RoundOver == stopping \/ ~Unresolved \/ stop \/ work = 0 \/ firstClaims >= Width \/ late
IdleOver == stopping \/ ~Unresolved \/ work = 0 \/ Ready # {} \/ active = 0

JoinsEpoch(w) ==
    /\ At(w, "loop") /\ Free /\ LoopReady(w)
    /\ IF stopping THEN Goes(w, "gone") /\ UNCHANGED <<used, seen>>
       ELSE /\ Goes(w, "start")
            /\ seen' = [seen EXCEPT ![w] = epoch]
            /\ used' = [used EXCEPT ![w] = FALSE]
    /\ UNCHANGED <<forest, counts, barrier, control, flags, lock, mode, held, claimed>>

Arrives(w) ==
    /\ At(w, "start") /\ Free
    /\ IF ~Unresolved THEN Goes(w, "end") /\ UNCHANGED <<arrivals, released, mode>>
       ELSE /\ arrivals' = arrivals + 1
            /\ IF arrivals' = Width
               THEN released' = TRUE /\ NotifiesAll /\ Goes(w, "top")
               ELSE Goes(w, "gate") /\ UNCHANGED <<released, mode>>
    /\ UNCHANGED <<forest, counts, firstClaims, finished, control, flags, lock, threads>>

PassesGate(w) ==
    /\ At(w, "gate") /\ Free /\ GateOpen
    /\ Goes(w, IF stopping THEN "end" ELSE "top")
    /\ UNCHANGED <<forest, counts, barrier, control, flags, lock, mode, threads>>

\* After its first claim a thread of the recursive kernel waits for the others.
PassesRound(w) ==
    /\ At(w, "round") /\ Free /\ RoundOver
    /\ Goes(w, IF stopping \/ ~Unresolved \/ stop \/ work = 0 \/ late THEN "end" ELSE "top")
    /\ UNCHANGED <<forest, counts, barrier, control, flags, lock, mode, threads>>

LooksOnce(w) ==
    /\ At(w, "top") /\ Free
    /\ Goes(w, IF ~Unresolved \/ (Kernel /\ stop) \/ late \/ work = 0 THEN "end" ELSE "pick")
    /\ UNCHANGED <<forest, counts, barrier, control, flags, lock, mode, threads>>

Pops(w) ==
    /\ At(w, "pick")
    /\ \/ /\ Ready = {} /\ Goes(w, "empty") /\ UNCHANGED <<region, held>>
       \/ \E r \in Ready :
            /\ region' = [region EXCEPT ![r] = "held"]
            /\ held' = [held EXCEPT ![w] = r]
            /\ Goes(w, "claim")
    /\ UNCHANGED <<parent, status, counts, barrier, control, flags, lock, mode, claimed, used, seen>>

\* Nothing to pop: a thread goes when it sees no other thread active.
LooksForOthers(w) ==
    /\ At(w, "empty")
    /\ Goes(w, IF active = 0 THEN "end" ELSE "idle")
    /\ UNCHANGED <<forest, counts, barrier, control, flags, lock, mode, threads>>

LeavesIdle(w) ==
    /\ At(w, "idle") /\ Free /\ IdleOver
    /\ Goes(w, IF stopping THEN "end" ELSE "top")
    /\ UNCHANGED <<forest, counts, barrier, control, flags, lock, mode, threads>>

\* One unit while the frontier is underfilled, else a part of what was left at
\* the head of the loop. Others have claimed and returned work since: the share
\* is cut to what there is.
Share(remaining) ==
    IF Cardinality(Ready) + active + 1 < Width THEN 1
    ELSE (remaining + Width * Width - 1) \div (Width * Width)
\* Mutant: the claim is not cut.
ClaimUncut(remaining) == Share(remaining)
Claim(remaining) == IF Share(remaining) <= work THEN Share(remaining) ELSE work

TakesWork(w) ==
    /\ At(w, "claim") /\ work > 0
    /\ \E remaining \in 1..granted :
        /\ work' = work - Claim(remaining)
        /\ claimed' = [claimed EXCEPT ![w] = Claim(remaining)]
    /\ Goes(w, IF Kernel /\ ~used[w] THEN "count" ELSE "enter")
    /\ UNCHANGED <<forest, granted, active, barrier, control, flags, lock, mode, held, used, seen>>

\* The work ran out after the pop: the region is queued again. Mutant: it is not.
Forget(r)  == region' = [region EXCEPT ![r] = "waiting"]
Requeue(r) == region' = [region EXCEPT ![r] = "ready"]
FindsNoWork(w) ==
    /\ At(w, "claim") /\ work = 0
    /\ Requeue(held[w])
    /\ held' = [held EXCEPT ![w] = None]
    /\ NotifiesOne /\ Goes(w, "end")
    /\ UNCHANGED <<parent, status, counts, barrier, control, flags, lock, claimed, used, seen>>

CountsFirstClaim(w) ==
    /\ At(w, "count") /\ Free
    /\ firstClaims' = firstClaims + 1
    /\ NotifiesAll /\ Goes(w, "enter")
    /\ UNCHANGED <<forest, counts, arrivals, released, finished, control, flags, lock, threads>>

Enters(w) ==
    /\ At(w, "enter")
    /\ active' = active + 1
    /\ used' = [used EXCEPT ![w] = TRUE]
    /\ Goes(w, "serve")
    /\ UNCHANGED <<forest, work, granted, barrier, control, flags, lock, mode, held, claimed, seen>>
-----------------------------------------------------------------------------
(* What a service does to the forest; then every sleeper is notified.       *)

OpenChildren(r) == {c \in Regions : parent[c] = r /\ region[c] \notin {"absent", "closed"}}

\* The regions that fail with r: those that waited for it alone.
FailsWith(r) ==
    LET fails[x \in Regions] ==
            \/ x = r
            \/ region[x] = "waiting" /\ \A c \in OpenChildren(x) : fails[c]
    IN  {x \in Regions : fails[x]}

Yields(r) ==
    /\ region' = [region EXCEPT ![r] = "ready"]
    /\ UNCHANGED <<parent, status, stop>>

Donates(r) ==
    /\ Cardinality(Ready) + active < Width
    /\ \E c \in Regions : region[c] = "absent"
    /\ LET child == Min({c \in Regions : region[c] = "absent"})
       IN  /\ parent' = [parent EXCEPT ![child] = r]
           /\ \E rest \in {"ready", "waiting"} :
                region' = [region EXCEPT ![child] = "ready", ![r] = rest]
    /\ UNCHANGED <<status, stop>>

Waits(r) ==
    /\ OpenChildren(r) # {}
    /\ region' = [region EXCEPT ![r] = "waiting"]
    /\ UNCHANGED <<parent, status, stop>>

Fails(r) ==
    /\ OpenChildren(r) = {} /\ Free
    /\ LET failing == IF Unresolved THEN FailsWith(r) ELSE {r}
       IN  /\ region' = [x \in Regions |-> IF x \in failing THEN "closed" ELSE region[x]]
           /\ IF 1 \in failing /\ Unresolved
              THEN status' = "infeasible" /\ stop' = TRUE
              ELSE UNCHANGED <<status, stop>>
    /\ UNCHANGED parent

Finds(r) ==
    /\ Free
    /\ region' = [region EXCEPT ![r] = "closed"]
    /\ stop' = TRUE
    /\ status' = IF Unresolved THEN "feasible" ELSE status
    /\ UNCHANGED parent

\* A service that ends r, or leaves it waiting, may expand no node; one that
\* yields has moved on in r, which is counted as one unit of work: it cannot do
\* so for ever.
LeastSpent(r) == IF late \/ (Kernel /\ stop) \/ region'[r] # "ready" THEN 0 ELSE 1

Serves(w) ==
    /\ At(w, "serve")
    /\ Yields(held[w]) \/ Donates(held[w]) \/ Waits(held[w]) \/ Fails(held[w]) \/ Finds(held[w])
    /\ \E spent \in LeastSpent(held[w])..claimed[w] : work' = work + claimed[w] - spent
    /\ claimed' = [claimed EXCEPT ![w] = 0]
    /\ held' = [held EXCEPT ![w] = None]
    /\ NotifiesAll /\ Goes(w, "leave")
    /\ UNCHANGED <<granted, active, barrier, control, late, lock, used, seen>>

\* A service that throws: the guard leaves, the region stays held by no thread,
\* the rest of the epoch's work is dropped (others may still return theirs).
Lost == {r \in Regions : region[r] = "held" /\ \A w \in Workers : held[w] # r}

Throws(w) ==
    /\ At(w, "serve") /\ Cardinality(Lost) < Failing
    /\ active' = active - 1 /\ work' = 0
    /\ claimed' = [claimed EXCEPT ![w] = 0]
    /\ held' = [held EXCEPT ![w] = None]
    /\ NotifiesAll /\ Goes(w, "end")
    /\ UNCHANGED <<forest, granted, barrier, control, flags, lock, used, seen>>

\* ActiveWorkerGuard; the mutex is not taken.
Releases(w) ==
    /\ At(w, "leave")
    /\ active' = active - 1
    /\ NotifiesAll
    /\ Goes(w, IF Kernel THEN "round" ELSE "top")
    /\ UNCHANGED <<forest, work, granted, barrier, control, flags, lock, threads>>

Ends(w) ==
    /\ At(w, "end") /\ Free
    /\ finished' = finished + 1
    /\ Goes(w, "loop")
    /\ UNCHANGED <<forest, counts, arrivals, released, firstClaims, control, flags, lock, mode, threads>>
-----------------------------------------------------------------------------
(* The caller.                                                              *)

\* The barriers of an epoch start anew. Mutant: finished_workers does not.
ResetsButOne == arrivals' = 0 /\ released' = FALSE /\ firstClaims' = 0 /\ finished' = finished
Resets == arrivals' = 0 /\ released' = FALSE /\ firstClaims' = 0 /\ finished' = 0

\* service(): a call for a decided search returns without an epoch.
Calls(q) ==
    /\ ctl = "idle" /\ Free /\ Unresolved /\ epoch < MaxEpochs
    /\ ctl' = "armed"
    /\ granted' = IF Kernel /\ q < Width THEN Width ELSE q
    /\ work' = granted'
    /\ Resets
    /\ epoch' = epoch + 1 /\ opened' = TRUE
    /\ stop' = FALSE /\ late' = FALSE
    /\ UNCHANGED <<forest, active, stopping, lock, pc, mode, threads>>

Notifies ==
    /\ ctl \in {"armed", "stopping"}
    /\ NotifiesAll
    /\ ctl' = IF ctl = "armed" THEN "waiting" ELSE "joining"
    /\ UNCHANGED <<forest, counts, barrier, epoch, opened, stopping, flags, lock, pc, threads>>

Returns ==
    /\ ctl = "waiting" /\ Free /\ finished = Width
    /\ ctl' = "idle" /\ opened' = FALSE
    /\ UNCHANGED <<forest, counts, barrier, epoch, stopping, flags, lock, pc, mode, threads>>

DeadlinePasses ==
    /\ Bounded /\ ctl \in {"armed", "waiting"} /\ ~late
    /\ late' = TRUE
    /\ UNCHANGED <<forest, counts, barrier, control, stop, lock, pc, mode, threads>>

\* Another thread; the mutex is not taken.
RequestYield ==
    /\ Yielding /\ ctl = "waiting" /\ ~stop
    /\ stop' = TRUE /\ NotifiesAll
    /\ UNCHANGED <<forest, counts, barrier, control, late, lock, pc, threads>>

Cancel ==
    /\ ctl = "idle" /\ Free /\ Unresolved
    /\ status' = "cancelled" /\ stop' = TRUE /\ NotifiesAll
    /\ UNCHANGED <<region, parent, counts, barrier, control, late, lock, pc, threads>>

\* The destructor, called between two calls of service().
Destroys ==
    /\ ctl = "idle" /\ Free
    /\ ctl' = "stopping" /\ stopping' = TRUE /\ opened' = FALSE /\ stop' = TRUE
    /\ UNCHANGED <<forest, counts, barrier, epoch, late, lock, pc, mode, threads>>

Joins ==
    /\ ctl = "joining" /\ \A w \in Workers : pc[w] = "gone"
    /\ ctl' = "gone"
    /\ UNCHANGED <<forest, counts, barrier, epoch, opened, stopping, flags, lock, pc, mode, threads>>

Thread(w) ==
    \/ Sleeps(w, "loop", LoopReady(w)) \/ JoinsEpoch(w)
    \/ Arrives(w) \/ Sleeps(w, "gate", GateOpen) \/ PassesGate(w)
    \/ Dozes(w, "round", RoundOver) \/ PassesRound(w)
    \/ LooksOnce(w) \/ Pops(w) \/ LooksForOthers(w)
    \/ Dozes(w, "idle", IdleOver) \/ LeavesIdle(w)
    \/ TakesWork(w) \/ FindsNoWork(w) \/ CountsFirstClaim(w) \/ Enters(w)
    \/ Serves(w) \/ Throws(w) \/ Releases(w) \/ Ends(w)
    \/ FallsAsleep(w) \/ TimesOut(w)

Caller == Notifies \/ Returns \/ Joins

Next ==
    \/ \E w \in Workers : Thread(w)
    \/ Caller \/ DeadlinePasses \/ RequestYield \/ Cancel \/ Destroys
    \/ \E q \in Quanta : Calls(q)

\* The threads, the caller inside a call and the clock go on.
Fairness ==
    /\ \A w \in Workers : WF_vars(Thread(w))
    /\ WF_vars(Caller) /\ WF_vars(DeadlinePasses)

Spec == Init /\ [][Next]_vars /\ Fairness
-----------------------------------------------------------------------------
Held(w) == held[w] # None

TypeOK ==
    /\ region \in [Regions -> {"absent", "ready", "held", "waiting", "closed"}]
    /\ parent \in [Regions -> Regions \cup {None}]
    /\ status \in {"unresolved", "feasible", "infeasible", "cancelled"}
    /\ ctl \in {"idle", "armed", "waiting", "stopping", "joining", "gone"}
    /\ work \in Nat /\ granted \in Nat /\ active \in 0..Width
    /\ arrivals \in 0..Width /\ firstClaims \in 0..Width /\ finished \in 0..Width
    /\ epoch \in 0..MaxEpochs
    /\ {released, opened, stop, late, stopping} \subseteq BOOLEAN
    /\ lock \in Workers \cup {None}
    /\ mode \in [Workers -> {"awake", "dozing", "asleep"}]
    /\ held \in [Workers -> Regions \cup {None}]
    /\ claimed \in [Workers -> Nat] /\ used \in [Workers -> BOOLEAN]
    /\ seen \in [Workers -> 0..MaxEpochs]

\* An epoch never hands out more work than it was given: what is left and what
\* the threads hold is within the grant, whatever they return, and the unsigned
\* counter does not wrap.
WorkWithinGrant ==
    /\ work >= 0
    /\ work + MapThenSumSet(LAMBDA w : claimed[w], Workers) <= granted

\* service() returns only when every thread has been through this epoch: none is
\* missed by the notification and none is counted twice.
EveryThreadPassed ==
    ctl = "waiting" /\ finished = Width =>
        \A w \in Workers : seen[w] = epoch /\ pc[w] = "loop" /\ ~Held(w)

\* A search that is not decided keeps a region to take, in the queue or held:
\* reconcile_quiescent_frontier never finds none.
WorkRemains == Unresolved => \E r \in Regions : region[r] \in {"ready", "held"}

\* A call of service() returns.
ServiceReturns == ctl \in {"armed", "waiting"} ~> ctl \notin {"armed", "waiting"}

\* The destructor joins every thread.
PoolJoined == ctl = "stopping" ~> ctl = "gone"
=============================================================================
