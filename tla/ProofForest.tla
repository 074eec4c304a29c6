----------------------------- MODULE ProofForest -----------------------------
(***************************************************************************)
(* The parallel proof search of one threshold: ParallelDecisionSession     *)
(* (parallel_decision_session.cpp) in external-worker mode, with the       *)
(* region accounting of the DecisionSession each region runs               *)
(* (decision_session.cpp).                                                 *)
(*                                                                         *)
(* A region owns the part of the search tree below its prefix that it has  *)
(* not donated. The tree is abstracted to Leaves, subproblems that are      *)
(* feasible (in feasible) or fail; todo is the set of leaves a region has   *)
(* still to explore. Every section under a node's mutex is one action; the *)
(* atomics queued, active and rerun_requested are sets of regions, changed *)
(* by the steps that change the flags in the code. A worker is at:          *)
(*   "out"     in no lease              "top"     head of the worker loop   *)
(*   "again"   looping in pop_ready     "popped"  region taken off ready    *)
(*   "cas"     its queued flag cleared  "owned"   its active flag won       *)
(*   "serve"   credit claimed           "publish" a donated child to insert *)
(*   "settle"  region served            "rerun"   active flag given up      *)
(*   "announce", "notify", "parent"     a terminal region being published   *)
(*   "release" terminal region published                                   *)
(***************************************************************************)
EXTENDS Integers, Sequences, SequencesExt

CONSTANTS
    Workers,      \* the leases that may run at the same time
    Controller,   \* the thread of the control operations
    Leaves,       \* subproblems of the whole search
    Searches,     \* what a run may search: see feasible and recursive
    MaxRegions,   \* bound on next_node_id
    Bound,        \* resolved_proof_regions_bound
    MaxCredit     \* work credit of an epoch, in claims

RegionId == 1 .. MaxRegions
Root     == 1
None     == 0
Agents   == Workers \cup {Controller}

ASSUME WorkersAssumption == IsFiniteSet(Workers) /\ Controller \notin Workers
ASSUME LeavesAssumption == IsFiniteSet(Leaves) /\ Leaves # {}
ASSUME SearchesAssumption == Searches \subseteq [feasible : SUBSET Leaves, recursive : BOOLEAN]
ASSUME ForestBoundsAssumption ==
    /\ MaxRegions \in Nat \ {0}
    /\ Bound \in Nat \ {0}
    /\ MaxCredit \in Nat \ {0}

VARIABLES
    feasible,     \* the subproblems that have an ordering within the threshold
    recursive,    \* options.recursive_coarse_kernel; both never change
    nodes,        \* the regions in nodes
    reg,          \* what a node's mutex guards, and its parent
    queued, active, rerun,   \* the regions whose flag is set
    ready,        \* the ready deque
    answer,       \* current_status
    credit,       \* remaining_work
    epochActive,  \* external_epoch_active
    live,         \* live_nodes_count
    nextId,       \* next_node_id
    pc,           \* place of each worker, and of the controller's notify_failure
    at,           \* the region a worker has taken
    event,        \* what its service of the region returned
    child,        \* the region it has donated and not yet inserted
    cursor,       \* the region whose failure an agent propagates
    cpc           \* the controller: "ready", "drain", "reconcile", "stuck"

flagVars  == <<queued, active, rerun, ready>>
epochVars == <<credit, epochActive>>
localVars == <<at, event, child, cursor>>
choice == <<feasible, recursive>>
vars == <<nodes, reg, flagVars, answer, epochVars, live, nextId, pc, localVars, cpc>>

-----------------------------------------------------------------------------
\* A node. form: a snapshot not yet materialized, a session, or neither (a
\* region the recursive kernel finished). localDone is local_region_complete.
Node(p, f, l, n) ==
    [parent |-> p, form |-> f, status |-> "unresolved", todo |-> l,
     unfinished |-> n, localDone |-> FALSE, started |-> FALSE,
     reserved |-> FALSE, notified |-> FALSE]
Blank == [Node(None, "none", {}, 0) EXCEPT !.notified = TRUE]

Waiting(r)    == reg[r].form = "session" /\ reg[r].localDone
Unresolved(r) == reg[r].form = "deferred" \/ (reg[r].form = "session" /\ reg[r].status = "unresolved")
Runnable(r)   == Unresolved(r) /\ ~Waiting(r)

\* Nodes a shared_ptr still holds: a child's weak_ptr to others has expired.
Alive == nodes \cup {Root} \cup ToSet(ready) \cup {at[w] : w \in Workers}
               \cup {child[w] : w \in Workers} \cup {cursor[a] : a \in Agents}

\* The orders in which the regions of S may be queued: nodes is a vector that
\* donated children enter in any order.
Orders(S) == {q \in [1 .. Cardinality(S) -> S] :
                \A i, j \in 1 .. Cardinality(S) : q[i] = q[j] => i = j}

\* enqueue(r), where isActive is what its load of r's active flag reads. The
\* compare-exchange of queued and the push are one step: no other thread can
\* tell them apart, for it finds neither a queued region to push again nor one
\* to pop.
Enqueue(r, isActive) ==
    /\ rerun'  = IF isActive THEN rerun \cup {r} ELSE rerun
    /\ queued' = IF isActive THEN queued ELSE queued \cup {r}
    /\ ready'  = IF isActive \/ r \in queued THEN ready ELSE Append(ready, r)

-----------------------------------------------------------------------------
\* Construction. Without the canonical frontier the root region owns the whole
\* search; with it the root waits for a region per frontier state.
SingleRoot ==
    /\ nodes = {Root}
    /\ reg = [r \in RegionId |-> IF r = Root THEN Node(None, "session", Leaves, 1) ELSE Blank]
    /\ ready = <<Root>>

Frontier(n, share) ==
    /\ nodes = 1 .. n + 1
    /\ reg = [r \in RegionId |->
                IF r = Root THEN [Node(None, "session", {}, n) EXCEPT !.localDone = TRUE]
                ELSE IF r <= n + 1
                     THEN Node(Root, "deferred", {l \in Leaves : share[l] = r}, 1)
                     ELSE Blank]
    /\ ready = [i \in 1 .. n |-> i + 1]

Init ==
    /\ \E s \in Searches : feasible = s.feasible /\ recursive = s.recursive
    /\ \/ SingleRoot
       \/ \E n \in 1 .. MaxRegions - 1 : \E share \in [Leaves -> 2 .. n + 1] :
            n <= Bound /\ Frontier(n, share)
    /\ queued = ToSet(ready) /\ active = {} /\ rerun = {}
    /\ answer = "unresolved"
    /\ credit = 0 /\ epochActive = FALSE
    /\ live = Cardinality(nodes)
    /\ nextId = live + 1
    /\ pc = [a \in Agents |-> "out"]
    /\ at = [w \in Workers |-> None]
    /\ event = [w \in Workers |-> "none"]
    /\ child = [w \in Workers |-> None]
    /\ cursor = [a \in Agents |-> None]
    /\ cpc = "ready"

-----------------------------------------------------------------------------
\* A lease: worker_epoch.

\* run_external_lease. The executor runs no lease of a forest whose last permit it
\* has drained (GlobalExecutor: ClosedSessionsUnused, LeasesFindOpenEpoch).
LeaseBegins(w) ==
    /\ pc[w] = "out" /\ epochActive /\ cpc # "drain"
    /\ pc' = [pc EXCEPT ![w] = "top"]
    /\ UNCHANGED <<nodes, reg, flagVars, answer, epochVars, live, nextId, localVars, cpc>>

\* The lease returns: the search is decided, the credit is spent, nothing is
\* ready, or the deadline has passed (at any time).
LeaseEnds(w) ==
    /\ pc[w] = "top" \/ (pc[w] = "again" /\ ready = <<>>)
    /\ pc' = [pc EXCEPT ![w] = "out"]
    /\ UNCHANGED <<nodes, reg, flagVars, answer, epochVars, live, nextId, localVars, cpc>>

Pop(w) ==
    /\ \/ pc[w] = "top" /\ answer = "unresolved" /\ credit > 0
       \/ pc[w] = "again"
    /\ ready # <<>>
    /\ at' = [at EXCEPT ![w] = Head(ready)]
    /\ ready' = Tail(ready)
    /\ pc' = [pc EXCEPT ![w] = "popped"]
    /\ UNCHANGED <<nodes, reg, queued, active, rerun, answer, epochVars, live, nextId,
                   event, child, cursor, cpc>>

Unmark(w) ==
    /\ pc[w] = "popped"
    /\ queued' = queued \ {at[w]}
    /\ pc' = [pc EXCEPT ![w] = "cas"]
    /\ UNCHANGED <<nodes, reg, active, rerun, ready, answer, epochVars, live, nextId,
                   localVars, cpc>>

\* The compare-exchange of active succeeds. Mutant: the flag is not compared.
StoreActive(w)   == TRUE
CompareActive(w) == at[w] \notin active

Activate(w) ==
    /\ pc[w] = "cas"
    /\ CompareActive(w)
    /\ active' = active \cup {at[w]}
    /\ pc' = [pc EXCEPT ![w] = "owned"]
    /\ UNCHANGED <<nodes, reg, queued, rerun, ready, answer, epochVars, live, nextId,
                   localVars, cpc>>

ActivateFails(w) ==
    /\ pc[w] = "cas"
    /\ ~CompareActive(w)
    /\ rerun' = rerun \cup {at[w]}
    /\ at' = [at EXCEPT ![w] = None]
    /\ pc' = [pc EXCEPT ![w] = "again"]
    /\ UNCHANGED <<nodes, reg, queued, active, ready, answer, epochVars, live, nextId,
                   event, child, cursor, cpc>>
\* A reserved region becomes invisible to the epoch, a terminal one is dropped.
\* Mutant: a claimed fragment is served all the same.
IgnoresClaim(r) == FALSE
Reserved(r)     == reg[r].reserved

Rejects(w) ==
    /\ pc[w] = "owned"
    /\ LET r == at[w]
           dropped == reg[r].notified \/ reg[r].form = "none"
       IN  /\ Reserved(r) \/ dropped
           /\ active' = active \ {r}
           /\ rerun' = IF Reserved(r) THEN rerun ELSE rerun \ {r}
           /\ pc' = [pc EXCEPT ![w] = IF Reserved(r) THEN "again" ELSE "top"]
    /\ at' = [at EXCEPT ![w] = None]
    /\ UNCHANGED <<nodes, reg, queued, ready, answer, epochVars, live, nextId,
                   event, child, cursor, cpc>>

Accepted(w) ==
    /\ pc[w] = "owned"
    /\ ~Reserved(at[w]) /\ ~reg[at[w]].notified /\ reg[at[w]].form # "none"

ClaimsCredit(w) ==
    /\ Accepted(w)
    /\ credit > 0
    /\ credit' = credit - 1
    /\ pc' = [pc EXCEPT ![w] = "serve"]
    /\ UNCHANGED <<nodes, reg, flagVars, answer, epochActive, live, nextId, localVars, cpc>>

\* claim == 0: the last credit went to another worker; the region goes back.
FindsNoCredit(w) ==
    /\ Accepted(w)
    /\ credit = 0
    /\ active' = active \ {at[w]}
    /\ rerun' = rerun \ {at[w]}
    /\ queued' = queued \cup {at[w]}
    /\ ready' = IF at[w] \in queued THEN ready ELSE Append(ready, at[w])
    /\ at' = [at EXCEPT ![w] = None]
    /\ pc' = [pc EXCEPT ![w] = "out"]
    /\ UNCHANGED <<nodes, reg, answer, epochVars, live, nextId, event, child, cursor, cpc>>

-----------------------------------------------------------------------------
\* Serving a region: DecisionSession::service and the donation after it, all
\* under the node's mutex.

\* The region with a leaf set E explored and failed. When its own frames are
\* exhausted (complete_region) it is infeasible or waits for its children.
\* Mutant: outstanding children are forgotten.
CompletesAlone(r, E) ==
    [reg[r] EXCEPT !.form = "session", !.started = TRUE, !.todo = @ \ E,
                   !.unfinished = @ - 1, !.status = "infeasible"]
Completes(r, E) ==
    [reg[r] EXCEPT !.form = "session", !.started = TRUE, !.todo = @ \ E,
                   !.unfinished = @ - 1,
                   !.status    = IF reg[r].unfinished = 1 THEN "infeasible" ELSE @,
                   !.localDone = reg[r].unfinished # 1]
\* It yields before that.
Advances(r, E) ==
    [reg[r] EXCEPT !.form = "session", !.started = TRUE, !.todo = @ \ E]

\* Credit the service did not consume is returned.
CreditReturned == credit' \in {credit, credit + 1}

Served(w, e) ==
    /\ event' = [event EXCEPT ![w] = e]
    /\ pc' = [pc EXCEPT ![w] = "settle"]
    /\ UNCHANGED <<nodes, flagVars, answer, epochActive, nextId, at, child, cursor, cpc>>

\* The session is terminal already (its last child failed since the region was
\* taken), or waits for its children only.
ServeNothing(w) ==
    LET r == at[w] IN
    /\ pc[w] = "serve"
    /\ reg[r].form = "session" /\ (reg[r].status # "unresolved" \/ reg[r].localDone)
    /\ reg' = [reg EXCEPT ![r].started = TRUE]
    /\ credit' = credit + 1
    /\ Served(w, reg[r].status)
    /\ UNCHANGED live

CanSearch(w) == pc[w] = "serve" /\ Runnable(at[w])

ServeFindsWitness(w) ==
    LET r == at[w] IN
    /\ CanSearch(w)
    /\ reg[r].todo \cap feasible # {}
    /\ reg' = [reg EXCEPT ![r].form = "session", ![r].started = TRUE,
                          ![r].status = "feasible"]
    /\ CreditReturned
    /\ Served(w, "feasible")
    /\ UNCHANGED live

ServeCompletes(w) ==
    LET r == at[w] IN
    /\ CanSearch(w)
    /\ reg[r].todo \cap feasible = {}
    /\ reg' = [reg EXCEPT ![r] = Completes(r, reg[r].todo)]
    /\ CreditReturned
    /\ Served(w, reg'[r].status)
    /\ UNCHANGED live

ServeYields(w) ==
    LET r == at[w] IN
    /\ CanSearch(w)
    /\ \E E \in SUBSET (reg[r].todo \ feasible) : reg' = [reg EXCEPT ![r] = Advances(r, E)]
    /\ CreditReturned
    /\ Served(w, "unresolved")
    /\ UNCHANGED live

\* After a yield the frontier may be short of regions: a sibling the session has
\* not explored, with the leaves D below it, becomes a region of its own if
\* live_nodes_count stays within the bound. Mutant: the donor does not count
\* the child.
DonatesUncounted(d, D) == [d EXCEPT !.todo = @ \ D]
Donates(d, D)          == [d EXCEPT !.todo = @ \ D, !.unfinished = @ + 1]
WithinBound == live < Bound

ServeDonates(w) ==
    LET r == at[w] IN
    /\ CanSearch(w)
    /\ WithinBound /\ nextId <= MaxRegions
    /\ \E E \in SUBSET (reg[r].todo \ feasible) :
         \E D \in (SUBSET (reg[r].todo \ E)) \ {{}} :
            reg' = [reg EXCEPT ![r] = Donates(Advances(r, E), D),
                               ![nextId] = Node(r, "session", D, 1)]
    /\ CreditReturned
    /\ live' = live + 1
    /\ child' = [child EXCEPT ![w] = nextId]
    /\ nextId' = nextId + 1
    /\ event' = [event EXCEPT ![w] = "unresolved"]
    /\ pc' = [pc EXCEPT ![w] = "publish"]
    /\ UNCHANGED <<nodes, flagVars, answer, epochActive, at, cursor, cpc>>

\* The recursive kernel takes a whole deferred region, without the mutex; if its
\* grain is too small the region becomes a session, otherwise (deadline) it
\* stays as it was. What failed below it is in the shared cache only.
ServeRecursively(w) ==
    LET r == at[w] IN
    /\ pc[w] = "serve" /\ recursive /\ reg[r].form = "deferred"
    /\ \/ /\ reg[r].todo \cap feasible # {}
          /\ Served(w, "feasible") /\ UNCHANGED reg
       \/ /\ reg[r].todo \cap feasible = {}
          /\ Served(w, "infeasible") /\ UNCHANGED reg
       \/ /\ Served(w, "replay")
          /\ reg' \in {reg, [reg EXCEPT ![r].form = "session"]}
    /\ CreditReturned
    /\ UNCHANGED live

\* The donated child enters the forest.
Publish(w) ==
    /\ pc[w] = "publish"
    /\ nodes' = nodes \cup {child[w]}
    /\ Enqueue(child[w], FALSE)
    /\ child' = [child EXCEPT ![w] = None]
    /\ pc' = [pc EXCEPT ![w] = "settle"]
    /\ UNCHANGED <<reg, active, answer, epochVars, live, nextId, at, event, cursor, cpc>>
-----------------------------------------------------------------------------
\* After the service.

\* An unresolved region: first the active flag is given up ...
GivesUp(w) ==
    /\ pc[w] = "settle" /\ event[w] \in {"unresolved", "replay"}
    /\ active' = active \ {at[w]}
    /\ pc' = [pc EXCEPT ![w] = "rerun"]
    /\ UNCHANGED <<nodes, reg, queued, rerun, ready, answer, epochVars, live, nextId,
                   localVars, cpc>>

\* ... then rerun_requested is exchanged and the region, if it can still run, goes
\* back to the queue; another worker may have taken it meanwhile. Whether it was
\* runnable before is known: only the region's owner can make it wait.
Requeues(w) == event[w] = "replay" \/ (reg[at[w]].status = "unresolved" /\ ~Waiting(at[w]))

Reruns(w) ==
    LET r == at[w] IN
    /\ pc[w] = "rerun"
    /\ IF Requeues(w)
       THEN /\ rerun'  = IF r \in active THEN rerun \cup {r} ELSE rerun \ {r}
            /\ queued' = IF r \in active THEN queued ELSE queued \cup {r}
            /\ ready'  = IF r \in active \/ r \in queued THEN ready ELSE Append(ready, r)
       ELSE /\ rerun' = rerun \ {r}
            /\ UNCHANGED <<queued, ready>>
    /\ at' = [at EXCEPT ![w] = None]
    /\ event' = [event EXCEPT ![w] = "none"]
    /\ pc' = [pc EXCEPT ![w] = "top"]
    /\ UNCHANGED <<nodes, reg, active, answer, epochVars, live, nextId, child, cursor, cpc>>

\* process_terminal, and what the recursive kernel does instead: the region is
\* marked once, its end published. The worker keeps the active flag until then.

Closes(w) ==
    LET r == at[w] IN
    /\ pc[w] = "settle" /\ event[w] \in {"feasible", "infeasible"}
    /\ rerun' = rerun \ {r}
    /\ reg' = [reg EXCEPT ![r].notified = TRUE,
                          ![r].status = event[w],
                          ![r].form = IF @ = "deferred" THEN "none" ELSE @]
    /\ IF reg[r].notified THEN pc' = [pc EXCEPT ![w] = "release"] /\ UNCHANGED cursor
       ELSE IF event[w] = "feasible"
            THEN pc' = [pc EXCEPT ![w] = "announce"] /\ UNCHANGED cursor
            ELSE /\ pc' = [pc EXCEPT ![w] = "notify"]
                 /\ cursor' = [cursor EXCEPT ![w] = r]
    /\ UNCHANGED <<nodes, queued, active, ready, answer, epochVars, live, nextId,
                   at, event, child, cpc>>

\* publish_feasible.
Announces(w) ==
    /\ pc[w] = "announce"
    /\ answer' = IF answer = "unresolved" THEN "feasible" ELSE answer
    /\ pc' = [pc EXCEPT ![w] = "release"]
    /\ UNCHANGED <<nodes, reg, flagVars, epochVars, live, nextId, localVars, cpc>>

Releases(w) ==
    /\ pc[w] = "release"
    /\ active' = active \ {at[w]}
    /\ at' = [at EXCEPT ![w] = None]
    /\ event' = [event EXCEPT ![w] = "none"]
    /\ pc' = [pc EXCEPT ![w] = "top"]
    /\ UNCHANGED <<nodes, reg, queued, rerun, ready, answer, epochVars, live, nextId,
                   child, cursor, cpc>>

\* notify_failure, by a worker or by the controller: one hop in two steps. The
\* status and the parent's weak_ptr are read without the parent's mutex.
EndOfChain(a) == IF a = Controller THEN "out" ELSE "release"
ParentOf(r)   == IF reg[r].parent \in Alive THEN reg[r].parent ELSE None

NotifyStops(a) ==
    /\ pc[a] = "notify" /\ answer # "unresolved"
    /\ pc' = [pc EXCEPT ![a] = EndOfChain(a)]
    /\ cursor' = [cursor EXCEPT ![a] = None]
    /\ UNCHANGED <<nodes, reg, flagVars, answer, epochVars, live, nextId, at, event,
                   child, cpc>>

\* No parent: the whole search has failed.
NotifyRoot(a) ==
    /\ pc[a] = "notify" /\ answer = "unresolved" /\ ParentOf(cursor[a]) = None
    /\ answer' = "infeasible"
    /\ pc' = [pc EXCEPT ![a] = EndOfChain(a)]
    /\ cursor' = [cursor EXCEPT ![a] = None]
    /\ UNCHANGED <<nodes, reg, flagVars, epochVars, live, nextId, at, event, child, cpc>>

NotifyClimbs(a) ==
    /\ pc[a] = "notify" /\ answer = "unresolved" /\ ParentOf(cursor[a]) # None
    /\ pc' = [pc EXCEPT ![a] = "parent"]
    /\ UNCHANGED <<nodes, reg, flagVars, answer, epochVars, live, nextId, localVars, cpc>>

\* resolve_external_failure. Mutant: the region is infeasible with its own
\* frames exhausted, whatever its other children do.
LocalRegion(p) == reg[p].localDone
LastRegion(p)  == reg[p].unfinished = 1

\* A parent that found a witness meanwhile needs no accounting.
ParentIndifferent(a) ==
    LET p == reg[cursor[a]].parent IN
    /\ pc[a] = "parent"
    /\ reg[p].form # "session" \/ reg[p].status = "feasible"
    /\ pc' = [pc EXCEPT ![a] = EndOfChain(a)]
    /\ cursor' = [cursor EXCEPT ![a] = None]
    /\ UNCHANGED <<nodes, reg, flagVars, answer, epochVars, live, nextId, at, event,
                   child, cpc>>

ParentFails(a) ==
    LET p == reg[cursor[a]].parent IN
    /\ pc[a] = "parent" /\ reg[p].form = "session" /\ reg[p].status # "feasible"
    /\ LastRegion(p)
    /\ reg' = [reg EXCEPT ![p].unfinished = @ - 1, ![p].status = "infeasible",
                          ![p].notified = TRUE]
    /\ cursor' = [cursor EXCEPT ![a] = p]
    /\ pc' = [pc EXCEPT ![a] = "notify"]
    /\ UNCHANGED <<nodes, flagVars, answer, epochVars, live, nextId, at, event, child, cpc>>

ParentGoesOn(a) ==
    LET p == reg[cursor[a]].parent IN
    /\ pc[a] = "parent" /\ reg[p].form = "session" /\ reg[p].status # "feasible"
    /\ ~LastRegion(p)
    /\ reg' = [reg EXCEPT ![p].unfinished = @ - 1]
    /\ IF Waiting(p) THEN UNCHANGED <<queued, rerun, ready>> ELSE Enqueue(p, p \in active)
    /\ cursor' = [cursor EXCEPT ![a] = None]
    /\ pc' = [pc EXCEPT ![a] = EndOfChain(a)]
    /\ UNCHANGED <<nodes, active, answer, epochVars, live, nextId, at, event, child, cpc>>

Notify(a) ==
    \/ NotifyStops(a) \/ NotifyRoot(a) \/ NotifyClimbs(a)
    \/ ParentIndifferent(a) \/ ParentFails(a) \/ ParentGoesOn(a)
-----------------------------------------------------------------------------
\* Control operations. They hold service_mutex and find no lease running.

Quiet       == \A w \in Workers : pc[w] = "out"
ControlIdle == cpc = "ready" /\ pc[Controller] = "out"

BeginEpoch ==
    /\ ControlIdle /\ ~epochActive
    /\ epochActive' = TRUE
    /\ credit' = MaxCredit
    /\ UNCHANGED <<nodes, reg, flagVars, answer, live, nextId, pc, localVars, cpc>>

\* The executor drains the epoch: from some point on no permit of it is left.
\* finish_external_epoch then waits for the last lease.
Drain ==
    /\ ControlIdle /\ epochActive
    /\ cpc' = "drain"
    /\ UNCHANGED <<nodes, reg, flagVars, answer, epochVars, live, nextId, pc, localVars>>

FinishEpoch ==
    /\ cpc = "drain" /\ Quiet
    /\ epochActive' = FALSE
    /\ cpc' = "reconcile"
    /\ UNCHANGED <<nodes, reg, flagVars, answer, credit, live, nextId, pc, localVars>>

\* reconcile_quiescent_frontier. A terminal region nobody has published would be
\* published first; none is left (NothingStranded). compact_proof_forest drops the
\* closed regions, and every region that can run is queued again. An unresolved
\* forest without such a region and without a claimed one is a logic error.
\* Mutant: nothing is queued again.
Keeps(r) == (~reg[r].notified /\ Unresolved(r)) \/ r \in active \cup queued \/ Reserved(r)
NoneToQueue(kept) == {}
ToQueue(kept) ==
    {r \in kept : Runnable(r) /\ ~reg[r].notified /\ ~Reserved(r)}

ReconcileEnds ==
    /\ cpc = "reconcile" /\ pc[Controller] = "out"
    /\ IF answer # "unresolved"
       THEN cpc' = "ready" /\ UNCHANGED <<nodes, reg, flagVars, live>>
       ELSE LET kept == {r \in nodes : Keeps(r)}
                add  == ToQueue(kept) \ active
            IN  /\ nodes' = kept
                /\ reg' = [r \in RegionId |-> IF r \in nodes \ kept THEN Blank ELSE reg[r]]
                /\ live' = live - Cardinality(nodes \ kept)
                /\ rerun' = rerun \cup (ToQueue(kept) \cap active)
                /\ queued' = queued \cup add
                /\ \E q \in Orders(add \ queued) : ready' = ready \o q
                /\ cpc' = IF ToQueue(kept) = {} /\ ~\E r \in kept : Reserved(r)
                          THEN "stuck" ELSE "ready"
                /\ UNCHANGED active
    /\ UNCHANGED <<answer, epochVars, nextId, pc, localVars>>

\* claim_unstarted_fragment, claim_deepest_unstarted_fragment: a region that no
\* worker has entered and that has given nothing away. Which one is a heuristic.
Whole(r) == Unresolved(r) /\ ~Waiting(r) /\ reg[r].unfinished = 1

ClaimFragment(r) ==
    /\ ControlIdle /\ ~epochActive /\ Quiet
    /\ r \in nodes /\ r \notin active
    /\ Whole(r) /\ ~Reserved(r) /\ ~reg[r].started /\ ~reg[r].notified
    /\ reg' = [reg EXCEPT ![r].reserved = TRUE]
    /\ UNCHANGED <<nodes, flagVars, answer, epochVars, live, nextId, pc, localVars, cpc>>

\* donate_and_claim_deepest_unstarted_fragment: a started region donates a child
\* that is claimed at once and never queued.
DonateAndClaim(r) ==
    /\ ControlIdle /\ ~epochActive /\ Quiet
    /\ WithinBound /\ nextId <= MaxRegions
    /\ r \in nodes /\ r \notin active
    /\ reg[r].form = "session" /\ reg[r].status = "unresolved" /\ ~Waiting(r)
    /\ reg[r].started /\ ~Reserved(r) /\ ~reg[r].notified
    /\ \E D \in (SUBSET reg[r].todo) \ {{}} :
         reg' = [reg EXCEPT ![r] = Donates(@, D),
                            ![nextId] = [Node(r, "deferred", D, 1) EXCEPT !.reserved = TRUE]]
    /\ nodes' = nodes \cup {nextId}
    /\ live' = live + 1
    /\ nextId' = nextId + 1
    /\ UNCHANGED <<flagVars, answer, epochVars, pc, localVars, cpc>>

\* validate_claimed_fragment_locked, for the holder of the reservation.
ClaimValid(r) ==
    /\ ControlIdle /\ ~epochActive /\ Quiet
    /\ r \in nodes /\ r \notin active
    /\ Reserved(r) /\ Whole(r) /\ ~reg[r].started /\ ~reg[r].notified

\* The claimant has certified that nothing below the region's prefix is feasible.
RetireFragment(r) ==
    /\ ClaimValid(r)
    /\ reg[r].todo \cap feasible = {}
    /\ reg' = [reg EXCEPT ![r].reserved = FALSE, ![r].form = "session",
                          ![r].status = "infeasible", ![r].todo = {},
                          ![r].notified = TRUE]
    /\ pc' = [pc EXCEPT ![Controller] = "notify"]
    /\ cursor' = [cursor EXCEPT ![Controller] = r]
    /\ UNCHANGED <<nodes, flagVars, answer, epochVars, live, nextId, at, event, child, cpc>>

ReleaseFragment(r) ==
    /\ ClaimValid(r)
    /\ reg' = [reg EXCEPT ![r].reserved = FALSE]
    /\ Enqueue(r, r \in active)
    /\ UNCHANGED <<nodes, active, answer, epochVars, live, nextId, pc, localVars, cpc>>

\* cancel(), by any thread.
Cancel ==
    /\ answer = "unresolved"
    /\ answer' = "cancelled"
    /\ UNCHANGED <<nodes, reg, flagVars, epochVars, live, nextId, pc, localVars, cpc>>
\* quiesce_and_snapshot, and a new process that restores the forest from it. A
\* session keeps its cursors, so its todo; the flags and marks start afresh, and
\* with the recursive kernel a region still at its root frame is deferred again.
Saved == {r \in nodes : Unresolved(r)}
SavedParent(r) == IF ParentOf(r) = None THEN None ELSE reg[r].parent
ExternalRegions(r) == reg[r].unfinished - (IF Waiting(r) THEN 0 ELSE 1)
CanSnapshot == ControlIdle /\ Quiet /\ ~\E r \in nodes : Reserved(r)

\* What the restoring constructor insists on.
Acceptable ==
    /\ Cardinality({r \in Saved : SavedParent(r) = None}) = 1
    /\ \A r \in Saved : SavedParent(r) \in Saved \cup {None}
    /\ \A r \in Saved : ExternalRegions(r) = Cardinality({c \in Saved : SavedParent(c) = r})

Restart ==
    /\ CanSnapshot /\ answer = "unresolved" /\ Acceptable
    /\ \E defer \in SUBSET {r \in Saved : recursive /\ Whole(r)} :
         reg' = [r \in RegionId |->
                    IF r \in Saved
                    THEN [reg[r] EXCEPT !.parent = SavedParent(r), !.started = FALSE,
                                        !.form = IF r \in defer THEN "deferred" ELSE "session"]
                    ELSE Blank]
    /\ nodes' = Saved
    /\ \E q \in Orders({r \in Saved : ~Waiting(r)}) : ready' = q
    /\ queued' = {r \in Saved : ~Waiting(r)} /\ active' = {} /\ rerun' = {}
    /\ credit' = 0 /\ epochActive' = FALSE
    /\ live' = Cardinality(Saved)
    /\ \E m \in Saved : (\A r \in Saved : r <= m) /\ nextId' = m + 1
    /\ UNCHANGED <<answer, pc, localVars, cpc>>

-----------------------------------------------------------------------------
Serve(w) ==
    \/ ServeNothing(w) \/ ServeFindsWitness(w) \/ ServeCompletes(w) \/ ServeYields(w)
    \/ ServeDonates(w) \/ ServeRecursively(w)

Work(w) ==
    \/ LeaseEnds(w) \/ Pop(w) \/ Unmark(w) \/ Activate(w) \/ ActivateFails(w)
    \/ Rejects(w) \/ ClaimsCredit(w) \/ FindsNoCredit(w)
    \/ Serve(w) \/ Publish(w) \/ GivesUp(w) \/ Reruns(w)
    \/ Closes(w) \/ Announces(w) \/ Releases(w) \/ Notify(w)

Reconcile == ReconcileEnds \/ Notify(Controller)

Control ==
    \/ BeginEpoch \/ Drain \/ FinishEpoch \/ Cancel \/ Restart
    \/ \E r \in RegionId :
        ClaimFragment(r) \/ DonateAndClaim(r) \/ RetireFragment(r) \/ ReleaseFragment(r)

Next == (\E w \in Workers : LeaseBegins(w) \/ Work(w)) \/ Reconcile \/ Control

Spec == Init /\ [][Next /\ UNCHANGED choice]_<<vars, choice>>
-----------------------------------------------------------------------------
\* Properties.

Places == {"out", "top", "again", "popped", "cas", "owned", "serve", "publish",
           "settle", "rerun", "announce", "notify", "parent", "release"}
Regions == [parent : RegionId \cup {None}, form : {"deferred", "session", "none"},
            status : {"unresolved", "infeasible", "feasible"}, todo : SUBSET Leaves,
            unfinished : Int, localDone : BOOLEAN, started : BOOLEAN,
            reserved : BOOLEAN, notified : BOOLEAN]

Shape ==
    /\ nodes \in SUBSET RegionId
    /\ reg \in [RegionId -> Regions]
    /\ queued \in SUBSET RegionId /\ active \in SUBSET RegionId /\ rerun \in SUBSET RegionId
    /\ ready \in Seq(RegionId)
    /\ answer \in {"unresolved", "feasible", "infeasible", "cancelled"}
    /\ credit \in Nat /\ epochActive \in BOOLEAN
    /\ live \in Int /\ nextId \in 1 .. MaxRegions + 1
    /\ pc \in [Agents -> Places]
    /\ at \in [Workers -> RegionId \cup {None}]
    /\ event \in [Workers -> {"none", "replay", "unresolved", "infeasible", "feasible"}]
    /\ child \in [Workers -> RegionId \cup {None}]
    /\ cursor \in [Agents -> RegionId \cup {None}]
    /\ cpc \in {"ready", "drain", "reconcile", "stuck"}

\* The types, and that the unsigned counters never go below zero.
TypeOK ==
    /\ Shape
    /\ live \in Nat
    /\ \A r \in RegionId : reg[r].unfinished \in Nat

\* The regions of the forest, with the children donated but not inserted yet.
Forest == nodes \cup ({child[w] : w \in Workers} \ {None})
\* Its failure has been subtracted from its parent's count.
Propagated(r) ==
    /\ reg[r].notified /\ reg[r].status = "infeasible"
    /\ \A a \in Agents : cursor[a] # r
ChildrenOf(r) == {c \in Forest : reg[c].parent = r}

\* The search is never answered wrongly: infeasible only if no subproblem has an
\* ordering, through every donation, retirement, race and restart.
AnswerSound ==
    /\ answer = "infeasible" => feasible = {}
    /\ answer = "feasible" => feasible # {}

\* Until the answer is known, every feasible subproblem is in exactly one region,
\* and that region has not been given up.
WitnessKept ==
    answer = "unresolved" =>
        \A l \in feasible :
            /\ \E r \in Forest : l \in reg[r].todo /\ (Unresolved(r) \/ reg[r].status = "feasible")
            /\ \A r, q \in Forest : l \in reg[r].todo /\ l \in reg[q].todo => r = q

\* unfinished_region_count of an unresolved region is its own remaining search
\* plus the children whose failure has not reached it.
RegionsCounted ==
    /\ live = Cardinality(Forest)
    /\ answer = "unresolved" =>
        \A r \in Forest : reg[r].form = "session" /\ reg[r].status = "unresolved" =>
            reg[r].unfinished = (IF reg[r].localDone THEN 0 ELSE 1)
                                + Cardinality({c \in ChildrenOf(r) : ~Propagated(c)})

\* "Every worker exclusively owns a continuation while it is running"
\* (parallel_decision_session.hpp), and nobody runs a claimed fragment.
OwnerPlaces == {"serve", "publish", "settle", "announce", "notify", "parent", "release"}
RegionsExclusive ==
    \A w \in Workers : pc[w] \in OwnerPlaces =>
        /\ ~reg[at[w]].reserved
        /\ \A v \in Workers \ {w} : pc[v] \in OwnerPlaces => at[v] # at[w]

\* A failure that reaches its parent finds it open, with the region counted, and
\* closes it only when the parent's own search is over: none of the logic errors
\* of notify_failure and resolve_external_failure can be thrown.
FailuresFindParent ==
    \A a \in Agents : pc[a] = "parent" =>
        LET p == reg[reg[cursor[a]].parent] IN
        p.form = "session" /\ p.status # "feasible" =>
            /\ p.status = "unresolved" /\ ~p.notified /\ p.unfinished > 0
            /\ p.unfinished = 1 => p.localDone

\* An epoch leaves no closed region unpublished. Between epochs an undecided
\* forest has every region that can run in the queue or claimed, and there is
\* one: whatever wakeup was lost in the epoch.
NothingStranded ==
    /\ cpc # "stuck"
    /\ cpc = "reconcile" /\ answer = "unresolved" =>
        \A r \in nodes : reg[r].form = "session" /\ reg[r].status # "unresolved" =>
            reg[r].notified \/ Reserved(r)
    /\ ControlIdle /\ ~epochActive /\ Quiet /\ answer = "unresolved" =>
        /\ \A r \in nodes : Runnable(r) /\ ~reg[r].notified => Reserved(r) \/ r \in queued
        /\ \E r \in nodes : Runnable(r)

\* Every snapshot taken while no lease runs is one the constructor restores.
SnapshotAcceptable == CanSnapshot /\ answer = "unresolved" => Acceptable

\* A worker's steps and the controller's run on; the controller opens epochs, and
\* closes them, for the executor drains a forest before it does. Leases are run
\* and find credit, and a region that is served again and again comes to its end:
\* an epoch's credit pays for a node of a finite tree at least. A deferred region
\* that becomes a session is no progress yet: a restart may undo it.
Progress(w) ==
    \/ ServeFindsWitness(w) \/ ServeCompletes(w)
    \/ ServeRecursively(w) /\ event'[w] # "replay"
Fairness ==
    /\ \A w \in Workers : WF_vars(Work(w))
    /\ SF_vars(\E w \in Workers : LeaseBegins(w))
    /\ SF_vars(\E w \in Workers : Pop(w))
    /\ SF_vars(\E w \in Workers : Progress(w))
    /\ WF_vars(BeginEpoch) /\ WF_vars(Drain) /\ WF_vars(FinishEpoch) /\ WF_vars(Reconcile)
FairSpec == Spec /\ Fairness

\* The search is decided, whatever is donated, lost from the queue, claimed,
\* released or restarted, unless claimants hold fragments again and again: no
\* region waits for ever.
Decides == <>(answer # "unresolved") \/ []<>(\E r \in nodes : Reserved(r))
=============================================================================
