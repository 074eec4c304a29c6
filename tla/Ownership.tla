------------------------------ MODULE Ownership ------------------------------
(***************************************************************************)
(* Canonical ownership: CanonicalOwnershipTable (canonical_ownership.cpp),  *)
(* its use by DecisionSession (decision_session.cpp) and by the workers of  *)
(* ParallelDecisionSession (parallel_decision_session.cpp).                *)
(*                                                                         *)
(* Two prefixes that place the same vertices in another order lead to the  *)
(* same subproblem, their key. A region searches below its own key only    *)
(* while it owns the key in the table; a second region with the key parks   *)
(* and is woken when the entry goes away. Ownership is advice: a region     *)
(* that finds the table full searches without it.                          *)
(*                                                                         *)
(* The threshold is one no ordering meets: every region fails in the end,   *)
(* so every wakeup that is lost keeps the forest from its answer. Which     *)
(* regions can be donated is given by Parent; the table has one shard.      *)
(* Each section under a shard's mutex, ready_mutex_ or a node's mutex, and  *)
(* each access to a flag of a node, is one action. A worker is at:          *)
(*   "top"    looking for a region        "popped", "cas"  taking one       *)
(*   "serve"  about to serve it   "acquire" cache missed   "search" entered  *)
(*   "wake"   a claim released, its waiters not handed over yet             *)
(*   "close"  the region has failed, its parent is to be told               *)
(*   "settle" active flag to be given up  "rerun"  flag given up            *)
(*   "free"   region closed, flag to be given up                            *)
(*   "ready"  wake_ownership_waiters                                        *)
(*   "again"  flag exchanged, region to be queued again or not             *)
(*   "load", "push", "mark", "recheck"   enqueue, for the regions of batch  *)
(***************************************************************************)
EXTENDS Integers, Sequences, SequencesExt, FiniteSets

CONSTANTS
    Workers,     \* the leases that run at the same time
    Regions,     \* the regions that may ever exist, by owner id
    Root,        \* the region of the whole search
    Parent,      \* the region a region is donated by
    Key,         \* the vertices placed at the root frame of a region
    MaxEntries,  \* entries the table has room for
    None

ASSUME RegionsAssumption ==
    /\ IsFiniteSet(Regions) /\ Root \in Regions /\ None \notin Regions \cup Workers
    /\ Parent \in [Regions \ {Root} -> Regions]
\* A donated prefix extends the path of its donor.
ASSUME KeysGrow ==
    /\ \A r \in Regions : IsFiniteSet(Key[r])
    /\ \A r \in Regions \ {Root} : Key[Parent[r]] \subseteq Key[r] /\ Key[Parent[r]] # Key[r]
ASSUME EntriesAssumption == MaxEntries \in Nat \ {0}

Keys == {Key[r] : r \in Regions}

VARIABLES
    owner, waiters,   \* the table's entries: owner and waiters of a key
    woken,            \* ready_waiters_
    proved,           \* keys in the shared cache of failed prefixes
    phase,            \* per region: "absent", "root" (root frame not entered),
                      \* "entered", "partial" (waits for its children), "failed"
    claimed,          \* frame.ownership_claimed of the root frame
    deferred,         \* deferred_region_ownership
    donated,          \* continuation_partitioned
    children,         \* donated regions that have not failed
    notified,         \* terminal_notified
    queued, active, rerun, ready,   \* as in ProofForest
    pc, at,           \* place of a worker, the region it has taken
    event,            \* what its service of the region returned
    held,             \* the region whose mutex it holds from step to step
    cursor,           \* the region whose failure it propagates
    waking,           \* waiters it has taken out of an entry
    batch, target,    \* regions it has to enqueue, the one at hand
    back,             \* its place after that
    answer

tableVars  == <<owner, waiters, woken>>
regionVars == <<phase, claimed, deferred, donated, children, notified>>
flagVars   == <<queued, active, rerun, ready>>
enqVars    == <<batch, target, back>>
workerVars == <<pc, at, event, held, cursor, waking, enqVars>>
vars == <<tableVars, proved, regionVars, flagVars, workerVars, answer>>

-----------------------------------------------------------------------------
Unresolved(r) == phase[r] \in {"root", "entered", "partial"}
Runnable(r)   == phase[r] \in {"root", "entered"}
Locked(r)     == \E w \in Workers : held[w] = r
Goes(w, place) == pc' = [pc EXCEPT ![w] = place]

\* The orders in which the regions of S may be queued.
Orders(S) == {q \in [1 .. Cardinality(S) -> S] :
                \A i, j \in 1 .. Cardinality(S) : q[i] = q[j] => i = j}

Init ==
    /\ owner = [k \in Keys |-> None] /\ waiters = [k \in Keys |-> {}]
    /\ woken = {} /\ proved = {}
    /\ phase = [r \in Regions |-> IF r = Root THEN "root" ELSE "absent"]
    /\ claimed = {} /\ deferred = {} /\ donated = {} /\ notified = {}
    /\ children = [r \in Regions |-> {}]
    /\ queued = {Root} /\ active = {} /\ rerun = {} /\ ready = <<Root>>
    /\ pc = [w \in Workers |-> "top"] /\ back = [w \in Workers |-> "top"]
    /\ event = [w \in Workers |-> "none"]
    /\ at = [w \in Workers |-> None] /\ held = [w \in Workers |-> None]
    /\ cursor = [w \in Workers |-> None] /\ target = [w \in Workers |-> None]
    /\ waking = [w \in Workers |-> {}] /\ batch = [w \in Workers |-> {}]
    /\ answer = "unresolved"

-----------------------------------------------------------------------------
\* pop_ready.

Pop(w) ==
    /\ pc[w] = "top" /\ answer = "unresolved" /\ ready # <<>>
    /\ at' = [at EXCEPT ![w] = Head(ready)]
    /\ ready' = Tail(ready)
    /\ Goes(w, "popped")
    /\ UNCHANGED <<tableVars, proved, regionVars, queued, active, rerun,
                   event, held, cursor, waking, enqVars, answer>>

Unmark(w) ==
    /\ pc[w] = "popped"
    /\ queued' = queued \ {at[w]}
    /\ Goes(w, "cas")
    /\ UNCHANGED <<tableVars, proved, regionVars, active, rerun, ready,
                   at, event, held, cursor, waking, enqVars, answer>>

\* The compare-exchange of active, and the check for a terminal region after it.
Activate(w) ==
    LET r == at[w] IN
    /\ pc[w] = "cas" /\ r \notin active
    /\ IF r \in notified
       THEN /\ rerun' = rerun \ {r} /\ Goes(w, "top")
            /\ at' = [at EXCEPT ![w] = None] /\ UNCHANGED active
       ELSE /\ active' = active \cup {r} /\ Goes(w, "serve") /\ UNCHANGED <<rerun, at>>
    /\ UNCHANGED <<tableVars, proved, regionVars, queued, ready, event, held, cursor, waking, enqVars, answer>>

ActivateFails(w) ==
    /\ pc[w] = "cas" /\ at[w] \in active
    /\ rerun' = rerun \cup {at[w]}
    /\ at' = [at EXCEPT ![w] = None]
    /\ Goes(w, "top")
    /\ UNCHANGED <<tableVars, proved, regionVars, queued, active, ready, event, held, cursor, waking, enqVars, answer>>

-----------------------------------------------------------------------------
\* DecisionSession::service, under the node's mutex.

Returns(w, e) ==
    /\ event' = [event EXCEPT ![w] = e]
    /\ held' = [held EXCEPT ![w] = None]
    /\ Goes(w, "settle")

\* The service found the session terminal, or waiting for its children.
ServeNothing(w) ==
    LET r == at[w] IN
    /\ pc[w] = "serve" /\ ~Locked(r) /\ ~Runnable(r)
    /\ Returns(w, IF phase[r] = "failed" THEN "terminal" ELSE "blocked")
    /\ UNCHANGED <<tableVars, proved, regionVars, flagVars, at, cursor, waking, enqVars, answer>>

\* The root frame, when it has not been entered: a proof in the shared cache
\* closes the region before ownership is asked for.
ServeProved(w) ==
    LET r == at[w] IN
    /\ pc[w] = "serve" /\ ~Locked(r) /\ phase[r] = "root"
    /\ Key[r] \in proved
    /\ phase' = [phase EXCEPT ![r] = "failed"]
    /\ Returns(w, "terminal")
    /\ UNCHANGED <<tableVars, proved, claimed, deferred, donated, children, notified, flagVars,
                   at, cursor, waking, enqVars, answer>>

\* The lookup misses; what another region proves after it is not seen.
MissesCache(w) ==
    LET r == at[w] IN
    /\ pc[w] = "serve" /\ ~Locked(r)
    /\ \/ phase[r] = "root" /\ Key[r] \notin proved /\ Goes(w, "acquire")
       \/ phase[r] = "entered" /\ Goes(w, "search")
    /\ held' = [held EXCEPT ![w] = r]
    /\ UNCHANGED <<tableVars, proved, regionVars, flagVars, at, event, cursor, waking,
                   enqVars, answer>>

Enters(w) ==
    /\ phase' = [phase EXCEPT ![at[w]] = "entered"]
    /\ Goes(w, "search")
    /\ UNCHANGED <<woken, waiters, event, held>>

\* acquire: another region's entry makes the region a waiter, once, and it parks.
Duplicate(w) == owner[Key[at[w]]] \notin {None, at[w]}
Saturated(w) == /\ owner[Key[at[w]]] = None
                /\ Cardinality({k \in Keys : owner[k] # None}) >= MaxEntries

AcquireParks(w) ==
    LET r == at[w] IN
    /\ pc[w] = "acquire" /\ Duplicate(w)
    /\ waiters' = [waiters EXCEPT ![Key[r]] = @ \cup {r}]
    /\ Returns(w, "parked")
    /\ UNCHANGED <<owner, woken, proved, regionVars, flagVars, at, cursor, waking, enqVars, answer>>

AcquireOwns(w) ==
    LET r == at[w] IN
    /\ pc[w] = "acquire" /\ ~Duplicate(w) /\ ~Saturated(w)
    /\ owner' = [owner EXCEPT ![Key[r]] = r]
    /\ claimed' = claimed \cup {r}
    /\ Enters(w)
    /\ UNCHANGED <<proved, deferred, donated, children, notified, flagVars, at, cursor, waking,
                   enqVars, answer>>

AcquireSaturated(w) ==
    /\ pc[w] = "acquire" /\ ~Duplicate(w) /\ Saturated(w)
    /\ Enters(w)
    /\ UNCHANGED <<owner, proved, claimed, deferred, donated, children, notified, flagVars,
                   at, cursor, waking, enqVars, answer>>

\* The rest of the service. It yields, and then the worker may donate a child.
SearchYields(w) ==
    /\ pc[w] = "search"
    /\ Returns(w, "run")
    /\ UNCHANGED <<tableVars, proved, regionVars, flagVars, at, cursor, waking, enqVars, answer>>

SearchDonates(w) ==
    LET r == at[w] IN
    /\ pc[w] = "search"
    /\ \E c \in Regions \ {Root} :
         /\ Parent[c] = r /\ phase[c] = "absent"
         /\ phase' = [phase EXCEPT ![c] = "root"]
         /\ children' = [children EXCEPT ![r] = @ \cup {c}]
         /\ batch' = [batch EXCEPT ![w] = {c}]
    /\ donated' = donated \cup {r}
    /\ event' = [event EXCEPT ![w] = "run"]
    /\ held' = [held EXCEPT ![w] = None]
    /\ Goes(w, "load") /\ back' = [back EXCEPT ![w] = "settle"]
    /\ UNCHANGED <<tableVars, proved, claimed, deferred, notified, flagVars,
                   at, cursor, waking, target, answer>>

\* release: the entry is erased and its waiters taken out; they are handed over
\* in a step of its own. Mutants: the entry passes to a waiter, which stays in
\* it.
PassesOn(k) == IF waiters[k] = {} THEN [owner |-> None, waiters |-> {}]
               ELSE [owner |-> CHOOSE r \in waiters[k] : TRUE, waiters |-> waiters[k]]
Erased(k)   == [owner |-> None, waiters |-> {}]
Releases(w, r, place) ==
    /\ owner'   = [owner EXCEPT ![Key[r]] = Erased(Key[r]).owner]
    /\ waiters' = [waiters EXCEPT ![Key[r]] = Erased(Key[r]).waiters]
    /\ waking'  = [waking EXCEPT ![w] = waiters[Key[r]]]
    /\ back'    = [back EXCEPT ![w] = place]
    /\ Goes(w, "wake")

\* finish_failed_frame on the root frame, then complete_region. A frame that
\* donated nothing records its failure, if the cache takes it. The claim of a
\* frame that donated is kept for the failure of the whole region.
FinishedPhase(r) == IF children[r] = {} THEN "failed" ELSE "partial"
FinishedEvent(r) == IF children[r] = {} THEN "terminal" ELSE "blocked"

Records(r) ==
    IF r \in donated THEN UNCHANGED proved ELSE proved' \in {proved, proved \cup {Key[r]}}

\* Mutant: the claim of a frame that donated is dropped without a release.
DropsClaim(r)  == deferred
DefersClaim(r) == deferred \cup {r}

SearchFinishes(w) ==
    LET r == at[w] IN
    /\ pc[w] = "search"
    /\ Records(r)
    /\ phase' = [phase EXCEPT ![r] = FinishedPhase(r)]
    /\ claimed' = claimed \ {r}
    /\ IF r \in claimed \ donated
       THEN /\ Releases(w, r, "settle")
            /\ event' = [event EXCEPT ![w] = FinishedEvent(r)]
            /\ UNCHANGED <<deferred, held>>
       ELSE /\ deferred' = IF r \in claimed THEN DefersClaim(r) ELSE deferred
            /\ Returns(w, FinishedEvent(r))
            /\ UNCHANGED <<owner, waiters, waking, back>>
    /\ UNCHANGED <<woken, donated, children, notified, flagVars, at, cursor, batch, target, answer>>

\* The second half of release. Mutant: nobody is told.
ForgetsWaiters(w) == woken
HandsOver(w)      == woken \cup waking[w]

Wakes(w) ==
    /\ pc[w] = "wake"
    /\ woken' = HandsOver(w)
    /\ waking' = [waking EXCEPT ![w] = {}]
    /\ held' = [held EXCEPT ![w] = None]
    /\ Goes(w, back[w])
    /\ UNCHANGED <<owner, waiters, proved, regionVars, flagVars, at, event, cursor,
                   enqVars, answer>>

-----------------------------------------------------------------------------
\* What the worker does with the region after its service.

GivesUp(w) ==
    /\ pc[w] = "settle" /\ event[w] # "terminal"
    /\ active' = active \ {at[w]}
    /\ Goes(w, "rerun")
    /\ UNCHANGED <<tableVars, proved, regionVars, queued, rerun, ready, at, event, held,
                   cursor, waking, enqVars, answer>>

\* Only a region that yielded is runnable for sure; one that parked or waits is
\* queued again only if somebody asked for it meanwhile.
ExchangesRerun(w) ==
    /\ pc[w] = "rerun"
    /\ rerun' = rerun \ {at[w]}
    /\ Goes(w, IF event[w] = "run" \/ at[w] \in rerun THEN "again" ELSE "ready")
    /\ UNCHANGED <<tableVars, proved, regionVars, queued, active, ready, at, event, held,
                   cursor, waking, enqVars, answer>>

EnqueuesAgain(w) ==
    LET r == at[w] IN
    /\ pc[w] = "again" /\ ~Locked(r)
    /\ IF Runnable(r)
       THEN /\ batch' = [batch EXCEPT ![w] = {r}]
            /\ back' = [back EXCEPT ![w] = "ready"]
            /\ held' = [held EXCEPT ![w] = r]
            /\ Goes(w, "load")
       ELSE Goes(w, "ready") /\ UNCHANGED <<batch, back, held>>
    /\ UNCHANGED <<tableVars, proved, regionVars, flagVars, at, event, cursor, waking,
                   target, answer>>

\* process_terminal: the region is closed by the first that sees it failed.
Closes(w) ==
    LET r == at[w] IN
    /\ pc[w] = "settle" /\ event[w] = "terminal" /\ ~Locked(r)
    /\ rerun' = rerun \ {r}
    /\ notified' = notified \cup {r}
    /\ IF r \in notified THEN Goes(w, "free") /\ UNCHANGED cursor
       ELSE Goes(w, "close") /\ cursor' = [cursor EXCEPT ![w] = r]
    /\ UNCHANGED <<tableVars, proved, phase, claimed, deferred, donated, children,
                   queued, active, ready, at, event, held, waking, enqVars, answer>>

\* notify_failure, for the parent p of the region whose failure is propagated,
\* under p's mutex. With its last child p is closed: its failure is recorded,
\* if the cache takes it, and the claim it kept is released.
ChildFails(w) ==
    LET c == cursor[w]
        p == Parent[c] IN
    /\ pc[w] = "close" /\ c # Root /\ ~Locked(p)
    /\ children' = [children EXCEPT ![p] = @ \ {c}]
    /\ \/ /\ phase[p] = "partial" /\ children[p] = {c}
          /\ proved' \in {proved, proved \cup {Key[p]}}
          /\ phase' = [phase EXCEPT ![p] = "failed"]
          /\ notified' = notified \cup {p}
          /\ cursor' = [cursor EXCEPT ![w] = p]
          /\ deferred' = deferred \ {p}
          /\ IF p \in deferred
             THEN Releases(w, p, "close") /\ held' = [held EXCEPT ![w] = p]
             ELSE UNCHANGED <<owner, waiters, waking, back, held, pc>>
          /\ UNCHANGED batch
       \/ /\ phase[p] = "partial" /\ children[p] # {c}
          /\ Goes(w, "free") /\ cursor' = [cursor EXCEPT ![w] = None]
          /\ UNCHANGED <<owner, waiters, proved, phase, deferred, notified, held, waking,
                         batch, back>>
       \/ /\ phase[p] = "entered"
          /\ batch' = [batch EXCEPT ![w] = {p}] /\ back' = [back EXCEPT ![w] = "free"]
          /\ held' = [held EXCEPT ![w] = p]
          /\ Goes(w, "load") /\ cursor' = [cursor EXCEPT ![w] = None]
          /\ UNCHANGED <<owner, waiters, proved, phase, deferred, notified, waking>>
    /\ UNCHANGED <<woken, claimed, donated, flagVars, at, event, target, answer>>

RootFails(w) ==
    /\ pc[w] = "close" /\ cursor[w] = Root
    /\ answer' = "infeasible"
    /\ cursor' = [cursor EXCEPT ![w] = None]
    /\ Goes(w, "free")
    /\ UNCHANGED <<tableVars, proved, regionVars, flagVars, at, event, held, waking, enqVars>>

Frees(w) ==
    /\ pc[w] = "free"
    /\ active' = active \ {at[w]}
    /\ Goes(w, "ready")
    /\ UNCHANGED <<tableVars, proved, regionVars, queued, rerun, ready, at, event, held,
                   cursor, waking, enqVars, answer>>

\* wake_ownership_waiters.
TakesWoken(w) ==
    /\ pc[w] = "ready"
    /\ batch' = [batch EXCEPT ![w] = woken] /\ woken' = {}
    /\ back' = [back EXCEPT ![w] = "top"]
    /\ at' = [at EXCEPT ![w] = None] /\ event' = [event EXCEPT ![w] = "none"]
    /\ Goes(w, "load")
    /\ UNCHANGED <<owner, waiters, proved, regionVars, flagVars, held, cursor, waking,
                   target, answer>>

-----------------------------------------------------------------------------
\* enqueue, for the regions of batch.

EnqueueDone(w) ==
    /\ pc[w] = "load" /\ batch[w] = {}
    /\ held' = [held EXCEPT ![w] = None]
    /\ back' = [back EXCEPT ![w] = "top"]
    /\ Goes(w, back[w])
    /\ UNCHANGED <<tableVars, proved, regionVars, flagVars, at, event, cursor, waking,
                   batch, target, answer>>

EnqueueLoads(w) ==
    /\ pc[w] = "load" /\ target[w] = None
    /\ \E r \in batch[w] :
         /\ target' = [target EXCEPT ![w] = r]
         /\ Goes(w, IF r \in active THEN "mark" ELSE "push")
    /\ UNCHANGED <<tableVars, proved, regionVars, flagVars, at, event, held, cursor, waking,
                   batch, back, answer>>

EnqueueLeaves(w) ==
    /\ batch' = [batch EXCEPT ![w] = @ \ {target[w]}]
    /\ target' = [target EXCEPT ![w] = None]
    /\ Goes(w, "load")

QueuedBefore(r) == r \in queued

EnqueuePushes(w) ==
    LET r == target[w] IN
    /\ pc[w] = "push"
    /\ queued' = queued \cup {r}
    /\ ready' = IF QueuedBefore(r) THEN ready ELSE Append(ready, r)
    /\ EnqueueLeaves(w)
    /\ UNCHANGED <<tableVars, proved, regionVars, active, rerun, at, event, held, cursor,
                   waking, back, answer>>

EnqueueMarks(w) ==
    /\ pc[w] = "mark"
    /\ rerun' = rerun \cup {target[w]}
    /\ Goes(w, "recheck")
    /\ UNCHANGED <<tableVars, proved, regionVars, queued, active, ready, at, event, held,
                   cursor, waking, enqVars, answer>>

\* The owner may have given the region up before it could see the mark. Mutant:
\* active is not looked at again.
TrustsOwner(r) == FALSE
OwnerLeft(r)   == r \notin active /\ r \in rerun

EnqueueRechecks(w) ==
    LET r == target[w] IN
    /\ pc[w] = "recheck"
    /\ IF OwnerLeft(r)
       THEN /\ rerun' = rerun \ {r}
            /\ target' = [target EXCEPT ![w] = None]
            /\ Goes(w, "load") /\ UNCHANGED batch
       ELSE EnqueueLeaves(w) /\ UNCHANGED rerun
    /\ UNCHANGED <<tableVars, proved, regionVars, queued, active, ready, at, event, held,
                   cursor, waking, back, answer>>

-----------------------------------------------------------------------------
\* The end of an epoch, when every lease is back: compact_proof_forest destroys
\* the failed regions, whose destructor abandons a claim still kept, and
\* reconcile_quiescent_frontier queues every region that does not wait for
\* children. Mutant: the destructor abandons no claim.
KeepsClaims == {}
LateClaims  == {r \in deferred : phase[r] = "failed" /\ r \notin queued}

Reconcile ==
    /\ answer = "unresolved"
    /\ \A w \in Workers : pc[w] = "top"
    /\ owner' = [k \in Keys |-> IF owner[k] \in LateClaims THEN None ELSE owner[k]]
    /\ woken' = woken \cup UNION {waiters[Key[r]] : r \in LateClaims}
    /\ waiters' = [k \in Keys |-> IF owner[k] \in LateClaims THEN {} ELSE waiters[k]]
    /\ deferred' = deferred \ LateClaims
    /\ LET again == {r \in Regions : Runnable(r)} IN
         /\ queued' = queued \cup again
         /\ \E q \in Orders(again \ queued) : ready' = ready \o q
    /\ UNCHANGED <<proved, phase, claimed, donated, children, notified, active, rerun,
                   workerVars, answer>>

-----------------------------------------------------------------------------
Worker(w) ==
    \/ Pop(w) \/ Unmark(w) \/ Activate(w) \/ ActivateFails(w)
    \/ ServeNothing(w) \/ ServeProved(w) \/ MissesCache(w)
    \/ AcquireParks(w) \/ AcquireOwns(w) \/ AcquireSaturated(w)
    \/ SearchYields(w) \/ SearchDonates(w) \/ SearchFinishes(w) \/ Wakes(w)
    \/ GivesUp(w) \/ ExchangesRerun(w) \/ EnqueuesAgain(w) \/ Closes(w)
    \/ ChildFails(w) \/ RootFails(w) \/ Frees(w) \/ TakesWoken(w)
    \/ EnqueueDone(w) \/ EnqueueLoads(w) \/ EnqueuePushes(w) \/ EnqueueMarks(w)
    \/ EnqueueRechecks(w)

Next == (\E w \in Workers : Worker(w)) \/ Reconcile
Spec == Init /\ [][Next]_vars

\* A lease runs; a search that is served again and again comes to its end; the
\* controller ends an epoch in which no lease makes progress.
Fairness ==
    /\ \A w \in Workers : WF_vars(Worker(w)) /\ SF_vars(SearchFinishes(w))
    /\ WF_vars(Reconcile)
FairSpec == Spec /\ Fairness
-----------------------------------------------------------------------------
\* The table, the flags and the workers' places have their types, and the queue
\* holds each region at most once, and only under its queued flag.
TypeOK ==
    /\ owner \in [Keys -> Regions \cup {None}] /\ waiters \in [Keys -> SUBSET Regions]
    /\ woken \subseteq Regions /\ proved \subseteq Keys
    /\ phase \in [Regions -> {"absent", "root", "entered", "partial", "failed"}]
    /\ claimed \subseteq Regions /\ deferred \subseteq Regions /\ donated \subseteq Regions
    /\ children \in [Regions -> SUBSET Regions]
    /\ notified \subseteq Regions
    /\ queued \subseteq Regions /\ active \subseteq Regions /\ rerun \subseteq Regions
    /\ at \in [Workers -> Regions \cup {None}] /\ target \in [Workers -> Regions \cup {None}]
    /\ held \in [Workers -> Regions \cup {None}] /\ cursor \in [Workers -> Regions \cup {None}]
    /\ waking \in [Workers -> SUBSET Regions] /\ batch \in [Workers -> SUBSET Regions]
    /\ answer \in {"unresolved", "infeasible"}
    /\ Len(ready) = Cardinality(ToSet(ready)) /\ ToSet(ready) \subseteq queued

\* The table and the sessions agree: a key has an entry exactly while a session
\* holds a claim on it, on its open root frame or kept for the failure of the
\* whole region. An entry nobody holds would strand its waiters for good
\* (canonical_ownership.cpp:67, decision_session.cpp:742-762).
ClaimsAgree ==
    /\ \A k \in Keys : owner[k] # None => owner[k] \in claimed \cup deferred /\ Key[owner[k]] = k
    /\ \A r \in claimed \cup deferred : owner[Key[r]] = r
    /\ \A r \in claimed : phase[r] = "entered"
    /\ \A r \in deferred : phase[r] \in {"partial", "failed"} /\ r \in donated

\* A region that has parked is never forgotten: as long as its root frame is not
\* entered and no worker is about to look at it again, it waits in an entry that
\* is still there, or its wakeup is on the way, whatever the order of the parking,
\* the release, the hand-over and the flags of the region (enqueue,
\* parallel_decision_session.cpp:514; release, canonical_ownership.cpp:67).
LookedAt(r) ==
    \/ r \in queued \cup active
    \/ \E w \in Workers : \/ at[w] = r /\ pc[w] \in {"popped", "cas", "rerun", "again"}
                         \/ r \in batch[w]
WakeupPending(r) ==
    \/ r \in waiters[Key[r]] /\ owner[Key[r]] # None
    \/ r \in woken
    \/ \E w \in Workers : r \in waking[w]
NoLostWaiter == \A r \in Regions : phase[r] = "root" => LookedAt(r) \/ WakeupPending(r)

\* canonical_ownership.hpp:12: parking only after giving up older claims "prevents
\* ownership cycles". A parked region waits for the owner of its key, a region
\* without frames for its children; in every set of regions one waits for no
\* other of the set, so some region can always go on.
WaitsFor(r, s) ==
    \/ phase[r] = "root" /\ r \in waiters[Key[r]] /\ owner[Key[r]] = s
    \/ phase[r] = "partial" /\ s \in children[r]
NoWaitCycle ==
    \A S \in (SUBSET Regions) \ {{}} : \E r \in S : \A s \in S : ~WaitsFor(r, s)

\* Every forest without an ordering is decided, whatever is parked on whom
\* (parallel_decision_session.cpp:559, 1126, 701).
Decides == <>(answer = "infeasible")
=============================================================================
