-------------------------- MODULE ProofForestProofs --------------------------
(***************************************************************************)
(* Theorems about ProofForest for every number of workers, regions and     *)
(* subproblems: no two workers are ever in one region, and none is in a    *)
(* region that a claimant holds. The inductive invariant IInv adds where    *)
(* an agent's place says it is (Located), that a worker in a region holds   *)
(* its active flag (Owners), and that leases run in epochs only             *)
(* (EpochsQuiet). The second part is that the parallel proof of one         *)
(* threshold is sound: to IInv comes Accounts, what the regions' counters    *)
(* say of the tree they form (Books), which worker is about to publish the   *)
(* end of a region (Flight), and what is queued between epochs (Queues).     *)
(***************************************************************************)
EXTENDS ProofForest, FiniteSetTheorems, WellFoundedInduction, TLAPS

-----------------------------------------------------------------------------
\* The inductive invariant.

\* Places in which a worker has no region, and places in which it owns one.
Loose == {"out", "top", "again"}
Owner == OwnerPlaces \cup {"owned"}

Located ==
    /\ \A w \in Workers : pc[w] \notin Loose => at[w] \in RegionId
    /\ \A w \in Workers : pc[w] = "publish" => child[w] \in RegionId
    /\ \A a \in Agents : pc[a] \in {"notify", "parent"} => cursor[a] \in RegionId
    /\ \A a \in Agents : pc[a] = "parent" => reg[cursor[a]].parent \in RegionId

Owners ==
    /\ \A w \in Workers : pc[w] \in Owner => at[w] \in active
    /\ \A w, v \in Workers : w # v /\ pc[w] \in Owner /\ pc[v] \in Owner => at[w] # at[v]
    /\ \A w \in Workers : pc[w] \in OwnerPlaces => ~reg[at[w]].reserved

EpochsQuiet ==
    /\ ~epochActive => Quiet
    /\ cpc = "reconcile" => ~epochActive

IInv == Shape /\ Located /\ Owners /\ EpochsQuiet

-----------------------------------------------------------------------------
\* How a step may keep Owners.

\* No step of a worker reserves a region.
ReservesNone == \A r \in RegionId : reg'[r].reserved => reg[r].reserved

\* Worker w moves, and no other: it gives up the flag of its own region only,
\* and owns a region only if it did or wins its flag.
LEMMA OwnerMoves ==
    ASSUME Shape, Owners, NEW w \in Workers, ReservesNone,
           \A v \in Workers \ {w} : pc'[v] = pc[v] /\ at'[v] = at[v],
           active \subseteq active' \/ (pc[w] \in Owner /\ active \ {at[w]} \subseteq active'),
           pc'[w] \in Owner =>
                /\ at'[w] = at[w] /\ at[w] \in active'
                /\ pc[w] \in Owner \/ at[w] \notin active,
           pc'[w] \in OwnerPlaces => ~reg'[at'[w]].reserved
    PROVE  Owners'
<1>1. \A v \in Workers \ {w} : pc[v] \in Owner => at[v] \in active' /\ at[v] \in RegionId
    BY DEF Owners, Shape
<1>2. \A v \in Workers : pc'[v] \in Owner => at'[v] \in active'
    BY <1>1
<1>3. \A u, v \in Workers : u # v /\ pc'[u] \in Owner /\ pc'[v] \in Owner => at'[u] # at'[v]
    BY DEF Owners
<1>4. \A v \in Workers : pc'[v] \in OwnerPlaces => ~reg'[at'[v]].reserved
    <2> SUFFICES ASSUME NEW v \in Workers \ {w}, pc'[v] \in OwnerPlaces
                 PROVE  ~reg'[at'[v]].reserved
        OBVIOUS
    <2>1. pc[v] \in Owner /\ ~reg[at[v]].reserved
        BY DEF Owners, Owner
    <2>. QED BY <2>1, <1>1 DEF ReservesNone
<1>. QED BY <1>2, <1>3, <1>4 DEF Owners

\* The workers stay where they are, or move on while owning the same region.
LEMMA OwnersStay ==
    ASSUME Shape, Owners, ReservesNone, active' = active,
           \A w \in Workers : /\ at'[w] = at[w]
                              /\ pc'[w] \in Owner => pc[w] \in Owner
                              /\ pc'[w] \in OwnerPlaces => pc[w] \in OwnerPlaces
    PROVE  Owners'
<1>1. \A w \in Workers : pc[w] \in OwnerPlaces => at[w] \in RegionId
    BY DEF Owners, Owner, Shape
<1>. QED BY <1>1 DEF Owners, ReservesNone

\* Nobody is in a lease.
LEMMA OwnersQuiet ==
    ASSUME \A w \in Workers : pc'[w] = "out"
    PROVE  Owners'
BY DEF Owners, Owner, OwnerPlaces

\* A worker in a lease is in an epoch, so its steps need not look at EpochsQuiet.
LEMMA EpochRuns ==
    ASSUME EpochsQuiet, UNCHANGED <<epochActive, cpc>>,
           NEW w \in Workers, pc[w] # "out" \/ epochActive
    PROVE  EpochsQuiet'
BY DEF EpochsQuiet, Quiet

\* Nobody enters a lease.
LEMMA EpochsStay ==
    ASSUME EpochsQuiet, epochActive' = epochActive, cpc' = cpc,
           \A w \in Workers : pc[w] = "out" => pc'[w] = "out"
    PROVE  EpochsQuiet'
BY DEF EpochsQuiet, Quiet

\* enqueue keeps the types.
LEMMA EnqueueTyped ==
    ASSUME Shape, NEW r \in RegionId, NEW b, Enqueue(r, b)
    PROVE  /\ queued' \in SUBSET RegionId /\ rerun' \in SUBSET RegionId
           /\ ready' \in Seq(RegionId)
BY DEF Shape, Enqueue

LEMMA OrdersTyped ==
    ASSUME NEW S \in SUBSET RegionId, NEW q \in Orders(S)
    PROVE  q \in Seq(RegionId)
<1>1. S \subseteq 1 .. MaxRegions
    BY DEF RegionId
<1>2. IsFiniteSet(1 .. MaxRegions)
    BY FS_Interval, ForestBoundsAssumption
<1>3. IsFiniteSet(S)
    BY <1>1, <1>2, FS_Subset
<1>4. Cardinality(S) \in Nat
    BY <1>3, FS_CardinalityType
<1>. QED BY <1>4 DEF Orders

-----------------------------------------------------------------------------
\* The records the steps write are regions.
LEMMA UpdatesTyped ==
    ASSUME NEW d \in Regions
    PROVE  /\ [d EXCEPT !.started = TRUE] \in Regions
           /\ [d EXCEPT !.form = "session"] \in Regions
           /\ [d EXCEPT !.form = "session", !.started = TRUE, !.status = "feasible"] \in Regions
           /\ \A b \in BOOLEAN : [d EXCEPT !.reserved = b] \in Regions
           /\ [d EXCEPT !.unfinished = @ - 1] \in Regions
           /\ [d EXCEPT !.unfinished = @ - 1, !.status = "infeasible", !.notified = TRUE] \in Regions
           /\ [d EXCEPT !.reserved = FALSE, !.form = "session", !.status = "infeasible",
                        !.todo = {}, !.notified = TRUE] \in Regions
<1>1. [d EXCEPT !.started = TRUE] \in Regions
    BY DEF Regions
<1>2. [d EXCEPT !.form = "session"] \in Regions
    BY DEF Regions
<1>3. [d EXCEPT !.form = "session", !.started = TRUE, !.status = "feasible"] \in Regions
    BY DEF Regions
<1>4. \A b \in BOOLEAN : [d EXCEPT !.reserved = b] \in Regions
    BY DEF Regions
<1>5. d.unfinished - 1 \in Int
    BY DEF Regions
<1>6. [d EXCEPT !.unfinished = @ - 1] \in Regions
    BY <1>5 DEF Regions
<1>7. [d EXCEPT !.unfinished = @ - 1, !.status = "infeasible", !.notified = TRUE] \in Regions
    BY <1>5 DEF Regions
<1>8. [d EXCEPT !.reserved = FALSE, !.form = "session", !.status = "infeasible",
               !.todo = {}, !.notified = TRUE] \in Regions
    BY DEF Regions
<1>. QED BY <1>1, <1>2, <1>3, <1>4, <1>6, <1>7, <1>8

LEMMA ClosingTyped ==
    ASSUME NEW d \in Regions, NEW v \in {"feasible", "infeasible"}
    PROVE  [d EXCEPT !.notified = TRUE, !.status = v,
                     !.form = IF @ = "deferred" THEN "none" ELSE @] \in Regions
<1>1. (IF d.form = "deferred" THEN "none" ELSE d.form) \in {"deferred", "session", "none"}
    BY DEF Regions
<1>. QED BY <1>1 DEF Regions

LEMMA ServedTyped ==
    ASSUME Shape, NEW r \in RegionId, NEW E
    PROVE  /\ Advances(r, E) \in Regions /\ Completes(r, E) \in Regions
           /\ Advances(r, E).parent = reg[r].parent
           /\ Advances(r, E).reserved = reg[r].reserved
<1>1. reg[r] \in Regions
    BY DEF Shape
<1>2. /\ reg[r].todo \ E \in SUBSET Leaves /\ reg[r].unfinished - 1 \in Int
      /\ (IF reg[r].unfinished = 1 THEN "infeasible" ELSE reg[r].status)
            \in {"unresolved", "infeasible", "feasible"}
    BY <1>1 DEF Regions
<1>3. Advances(r, E) \in Regions
    BY <1>1, <1>2 DEF Advances, Regions
<1>4. Completes(r, E) \in Regions
    BY <1>1, <1>2 DEF Completes, Regions
<1>5. Advances(r, E).parent = reg[r].parent /\ Advances(r, E).reserved = reg[r].reserved
    BY <1>1 DEF Advances, Regions
<1>. QED BY <1>3, <1>4, <1>5

LEMMA DonorTyped ==
    ASSUME NEW d \in Regions, NEW D
    PROVE  /\ Donates(d, D) \in Regions
           /\ Donates(d, D).parent = d.parent /\ Donates(d, D).reserved = d.reserved
<1>1. d.todo \ D \in SUBSET Leaves /\ d.unfinished + 1 \in Int
    BY DEF Regions
<1>2. Donates(d, D) \in Regions
    BY <1>1 DEF Donates, Regions
<1>3. Donates(d, D).parent = d.parent /\ Donates(d, D).reserved = d.reserved
    BY DEF Donates, Regions
<1>. QED BY <1>2, <1>3

LEMMA ChildTyped ==
    ASSUME NEW D \in SUBSET Leaves, NEW p \in RegionId, NEW f \in {"session", "deferred"}
    PROVE  /\ Node(p, f, D, 1) \in Regions
           /\ Node(p, f, D, 1).parent = p /\ ~Node(p, f, D, 1).reserved
           /\ [Node(p, f, D, 1) EXCEPT !.reserved = TRUE] \in Regions
           /\ [Node(p, f, D, 1) EXCEPT !.reserved = TRUE].parent = p
<1>1. Node(p, f, D, 1) \in Regions /\ Node(p, f, D, 1).parent = p
      /\ ~Node(p, f, D, 1).reserved
    BY DEF Node, Regions
<1>2. [Node(p, f, D, 1) EXCEPT !.reserved = TRUE] \in Regions
    BY <1>1, UpdatesTyped
<1>3. [Node(p, f, D, 1) EXCEPT !.reserved = TRUE].parent = p
    BY DEF Node
<1>. QED BY <1>1, <1>2, <1>3

LEMMA BlankTyped == Blank \in Regions
<1>1. Node(None, "none", {}, 0) \in Regions
    BY DEF Node, Regions
<1>. QED BY <1>1 DEF Blank, Regions

LEMMA RestoredTyped ==
    ASSUME NEW d \in Regions, NEW p \in RegionId \cup {None}, NEW f \in {"deferred", "session"}
    PROVE  [d EXCEPT !.parent = p, !.started = FALSE, !.form = f] \in Regions
BY DEF Regions

-----------------------------------------------------------------------------
\* Every step of a worker keeps the invariant.

LEMMA LeaseBeginsKeeps ==
    ASSUME IInv, NEW w \in Workers, LeaseBegins(w)
    PROVE  IInv'
<1>. USE DEF IInv, Shape, vars, flagVars, epochVars, localVars, Agents
<1>1. Shape'
    BY ForestBoundsAssumption DEF LeaseBegins, Places
<1>2. Located'
    BY WorkersAssumption DEF LeaseBegins, Located, Loose, Regions
<1>3. Owners'
    <2>1. ReservesNone
        BY DEF LeaseBegins, ReservesNone, Regions
    <2>. QED BY <2>1, OwnerMoves DEF LeaseBegins, Owners, Owner, OwnerPlaces
<1>4. EpochsQuiet'
    BY WorkersAssumption, EpochRuns DEF LeaseBegins, EpochsQuiet, Quiet
<1>. QED BY <1>1, <1>2, <1>3, <1>4

LEMMA LeaseEndsKeeps ==
    ASSUME IInv, NEW w \in Workers, LeaseEnds(w)
    PROVE  IInv'
<1>. USE DEF IInv, Shape, vars, flagVars, epochVars, localVars, Agents
<1>1. Shape'
    BY ForestBoundsAssumption DEF LeaseEnds, Places
<1>2. Located'
    BY WorkersAssumption DEF LeaseEnds, Located, Loose, Regions
<1>3. Owners'
    <2>1. ReservesNone
        BY DEF LeaseEnds, ReservesNone, Regions
    <2>. QED BY <2>1, OwnerMoves DEF LeaseEnds, Owners, Owner, OwnerPlaces
<1>4. EpochsQuiet'
    BY WorkersAssumption, EpochRuns DEF LeaseEnds, EpochsQuiet, Quiet
<1>. QED BY <1>1, <1>2, <1>3, <1>4

LEMMA PopKeeps ==
    ASSUME IInv, NEW w \in Workers, Pop(w)
    PROVE  IInv'
<1>. USE DEF IInv, Shape, vars, flagVars, epochVars, localVars, Agents
<1>1. Shape'
    BY ForestBoundsAssumption DEF Pop, Places
<1>2. Located'
    BY WorkersAssumption DEF Pop, Located, Loose, Regions
<1>3. Owners'
    <2>1. ReservesNone
        BY DEF Pop, ReservesNone, Regions
    <2>. QED BY <2>1, OwnerMoves DEF Pop, Owners, Owner, OwnerPlaces
<1>4. EpochsQuiet'
    BY WorkersAssumption, EpochRuns DEF Pop, EpochsQuiet, Quiet
<1>. QED BY <1>1, <1>2, <1>3, <1>4

LEMMA UnmarkKeeps ==
    ASSUME IInv, NEW w \in Workers, Unmark(w)
    PROVE  IInv'
<1>. USE DEF IInv, Shape, vars, flagVars, epochVars, localVars, Agents
<1>1. Shape'
    BY ForestBoundsAssumption DEF Unmark, Places
<1>2. Located'
    BY WorkersAssumption DEF Unmark, Located, Loose, Regions
<1>3. Owners'
    <2>1. ReservesNone
        BY DEF Unmark, ReservesNone, Regions
    <2>. QED BY <2>1, OwnerMoves DEF Unmark, Owners, Owner, OwnerPlaces
<1>4. EpochsQuiet'
    BY WorkersAssumption, EpochRuns DEF Unmark, EpochsQuiet, Quiet
<1>. QED BY <1>1, <1>2, <1>3, <1>4

LEMMA ActivateKeeps ==
    ASSUME IInv, NEW w \in Workers, Activate(w)
    PROVE  IInv'
<1>. USE DEF IInv, Shape, vars, flagVars, epochVars, localVars, Agents
<1>0. at[w] \in RegionId
    BY DEF Activate, Located, Loose, CompareActive
<1>1. Shape'
    BY <1>0, ForestBoundsAssumption DEF Activate, Places, CompareActive
<1>2. Located'
    BY WorkersAssumption DEF Activate, Located, Loose, Regions, CompareActive
<1>3. Owners'
    <2>1. ReservesNone
        BY <1>0 DEF Activate, ReservesNone, Regions, CompareActive
    <2>. QED BY <2>1, OwnerMoves DEF Activate, Owners, Owner, OwnerPlaces, CompareActive
<1>4. EpochsQuiet'
    BY WorkersAssumption, EpochRuns DEF Activate, EpochsQuiet, Quiet, CompareActive
<1>. QED BY <1>1, <1>2, <1>3, <1>4

LEMMA ActivateFailsKeeps ==
    ASSUME IInv, NEW w \in Workers, ActivateFails(w)
    PROVE  IInv'
<1>. USE DEF IInv, Shape, vars, flagVars, epochVars, localVars, Agents
<1>0. at[w] \in RegionId
    BY DEF ActivateFails, Located, Loose
<1>1. Shape'
    BY <1>0, ForestBoundsAssumption DEF ActivateFails, Places
<1>2. Located'
    BY WorkersAssumption DEF ActivateFails, Located, Loose, Regions
<1>3. Owners'
    <2>1. ReservesNone
        BY <1>0 DEF ActivateFails, ReservesNone, Regions
    <2>. QED BY <2>1, OwnerMoves DEF ActivateFails, Owners, Owner, OwnerPlaces
<1>4. EpochsQuiet'
    BY WorkersAssumption, EpochRuns DEF ActivateFails, EpochsQuiet, Quiet
<1>. QED BY <1>1, <1>2, <1>3, <1>4

LEMMA RejectsKeeps ==
    ASSUME IInv, NEW w \in Workers, Rejects(w)
    PROVE  IInv'
<1>. USE DEF IInv, Shape, vars, flagVars, epochVars, localVars, Agents
<1>1. Shape'
    BY ForestBoundsAssumption DEF Rejects, Places, Reserved
<1>2. Located'
    BY WorkersAssumption DEF Rejects, Located, Loose, Regions, Reserved
<1>3. Owners'
    <2>1. ReservesNone
        BY DEF Rejects, ReservesNone, Regions, Reserved
    <2>. QED BY <2>1, OwnerMoves DEF Rejects, Owners, Owner, OwnerPlaces, Reserved
<1>4. EpochsQuiet'
    BY WorkersAssumption, EpochRuns DEF Rejects, EpochsQuiet, Quiet, Reserved
<1>. QED BY <1>1, <1>2, <1>3, <1>4

LEMMA ClaimsCreditKeeps ==
    ASSUME IInv, NEW w \in Workers, ClaimsCredit(w)
    PROVE  IInv'
<1>. USE DEF IInv, Shape, vars, flagVars, epochVars, localVars, Agents
<1>1. Shape'
    BY ForestBoundsAssumption DEF ClaimsCredit, Places, Accepted, Reserved
<1>2. Located'
    BY WorkersAssumption DEF ClaimsCredit, Located, Loose, Regions, Accepted, Reserved
<1>3. Owners'
    <2>1. ReservesNone
        BY DEF ClaimsCredit, ReservesNone, Regions, Accepted, Reserved
    <2>. QED BY <2>1, OwnerMoves DEF ClaimsCredit, Owners, Owner, OwnerPlaces, Accepted,
            Reserved
<1>4. EpochsQuiet'
    BY WorkersAssumption, EpochRuns DEF ClaimsCredit, EpochsQuiet, Quiet, Accepted, Reserved
<1>. QED BY <1>1, <1>2, <1>3, <1>4

LEMMA FindsNoCreditKeeps ==
    ASSUME IInv, NEW w \in Workers, FindsNoCredit(w)
    PROVE  IInv'
<1>. USE DEF IInv, Shape, vars, flagVars, epochVars, localVars, Agents
<1>0. at[w] \in RegionId
    BY DEF FindsNoCredit, Located, Loose, Accepted
<1>1. Shape'
    BY <1>0, ForestBoundsAssumption DEF FindsNoCredit, Places, Accepted
<1>2. Located'
    BY WorkersAssumption DEF FindsNoCredit, Located, Loose, Regions, Accepted
<1>3. Owners'
    <2>1. ReservesNone
        BY <1>0 DEF FindsNoCredit, ReservesNone, Regions, Accepted
    <2>. QED BY <2>1, OwnerMoves DEF FindsNoCredit, Owners, Owner, OwnerPlaces, Accepted
<1>4. EpochsQuiet'
    BY WorkersAssumption, EpochRuns DEF FindsNoCredit, EpochsQuiet, Quiet, Accepted
<1>. QED BY <1>1, <1>2, <1>3, <1>4

LEMMA ServeNothingKeeps ==
    ASSUME IInv, NEW w \in Workers, ServeNothing(w)
    PROVE  IInv'
<1>. USE DEF IInv, Shape, vars, flagVars, epochVars, localVars, Agents
<1>0. at[w] \in RegionId
    BY DEF ServeNothing, Located, Loose, Served
<1>1. Shape'
    <2>1. reg' \in [RegionId -> Regions]
        <3>1. [reg[at[w]] EXCEPT !.started = TRUE] \in Regions
            BY <1>0, UpdatesTyped
        <3>. QED BY <1>0, <3>1 DEF ServeNothing
    <2>2. reg[at[w]].status \in {"unresolved", "infeasible", "feasible"}
        BY <1>0 DEF Regions
    <2>. QED BY <1>0, <2>1, <2>2 DEF ServeNothing, Places, Served
<1>2. Located'
    <2>1. \A r \in RegionId : reg'[r].parent \in {reg[r].parent} \cup RegionId
        BY <1>0 DEF ServeNothing, Regions, Served
    <2>. QED BY <1>0, <2>1, WorkersAssumption DEF ServeNothing, Located, Loose, Served
<1>3. Owners'
    <2>1. ReservesNone
        BY <1>0 DEF ServeNothing, ReservesNone, Regions, Served
    <2>. QED BY <2>1, OwnerMoves DEF ServeNothing, Owners, Owner, OwnerPlaces, Served
<1>4. EpochsQuiet'
    BY WorkersAssumption, EpochRuns DEF ServeNothing, EpochsQuiet, Quiet, Served
<1>. QED BY <1>1, <1>2, <1>3, <1>4

LEMMA ServeFindsWitnessKeeps ==
    ASSUME IInv, NEW w \in Workers, ServeFindsWitness(w)
    PROVE  IInv'
<1>. USE DEF IInv, Shape, vars, flagVars, epochVars, localVars, Agents
<1>0. at[w] \in RegionId
    BY DEF ServeFindsWitness, Located, Loose, CanSearch, CreditReturned, Served
<1>1. Shape'
    <2>1. reg' \in [RegionId -> Regions]
        <3>1. [reg[at[w]] EXCEPT !.form = "session", !.started = TRUE, !.status = "feasible"] \in Regions
            BY <1>0, UpdatesTyped
        <3>. QED BY <1>0, <3>1 DEF ServeFindsWitness
    <2>. QED BY <1>0, <2>1, ForestBoundsAssumption DEF ServeFindsWitness, Places, Regions,
            CanSearch, CreditReturned, Served
<1>2. Located'
    BY WorkersAssumption DEF ServeFindsWitness, Located, Loose, Regions, CanSearch,
            CreditReturned, Served
<1>3. Owners'
    <2>1. ReservesNone
        BY <1>0 DEF ServeFindsWitness, ReservesNone, Regions, CanSearch, CreditReturned, Served
    <2>. QED BY <2>1, OwnerMoves DEF ServeFindsWitness, Owners, Owner, OwnerPlaces, CanSearch,
            CreditReturned, Served
<1>4. EpochsQuiet'
    BY WorkersAssumption, EpochRuns DEF ServeFindsWitness, EpochsQuiet, Quiet, CanSearch,
            CreditReturned, Served
<1>. QED BY <1>1, <1>2, <1>3, <1>4

LEMMA ServeCompletesKeeps ==
    ASSUME IInv, NEW w \in Workers, ServeCompletes(w)
    PROVE  IInv'
<1>. USE DEF IInv, Shape, vars, flagVars, epochVars, localVars, Agents
<1>0. at[w] \in RegionId
    BY DEF ServeCompletes, Located, Loose, CanSearch, CreditReturned, Served, Completes
<1>1. Shape'
    <2>1. reg' \in [RegionId -> Regions]
        BY <1>0, ServedTyped DEF ServeCompletes
    <2>2. reg'[at[w]].status \in {"unresolved", "infeasible", "feasible"}
        BY <1>0, <2>1 DEF Regions
    <2>3. /\ event' = [event EXCEPT ![w] = reg'[at[w]].status]
          /\ pc' = [pc EXCEPT ![w] = "settle"]
          /\ credit' \in {credit, credit + 1}
          /\ UNCHANGED <<nodes, queued, active, rerun, ready, answer, epochActive, live,
                         nextId, at, child, cursor, cpc>>
        BY DEF ServeCompletes, Served, CreditReturned
    <2>4. event' \in [Workers -> {"none", "replay", "unresolved", "infeasible", "feasible"}]
        BY <2>2, <2>3
    <2>5. pc' \in [Agents -> Places]
        BY <2>3 DEF Places
    <2>6. credit' \in Nat
        BY <2>3
    <2>. QED BY <2>1, <2>3, <2>4, <2>5, <2>6
<1>2. Located'
    BY WorkersAssumption DEF ServeCompletes, Located, Loose, Regions, CanSearch,
            CreditReturned, Served, Completes
<1>3. Owners'
    <2>1. ReservesNone
        BY <1>0 DEF ServeCompletes, ReservesNone, Regions, CanSearch, CreditReturned, Served,
                Completes
    <2>. QED BY <2>1, OwnerMoves DEF ServeCompletes, Owners, Owner, OwnerPlaces, CanSearch,
            CreditReturned, Served, Completes
<1>4. EpochsQuiet'
    BY WorkersAssumption, EpochRuns DEF ServeCompletes, EpochsQuiet, Quiet, CanSearch,
            CreditReturned, Served, Completes
<1>. QED BY <1>1, <1>2, <1>3, <1>4

LEMMA ServeYieldsKeeps ==
    ASSUME IInv, NEW w \in Workers, ServeYields(w)
    PROVE  IInv'
<1>. USE DEF IInv, Shape, vars, flagVars, epochVars, localVars, Agents
<1>0. at[w] \in RegionId
    BY DEF ServeYields, Located, Loose, CanSearch, CreditReturned, Served, Advances
<1>1. Shape'
    <2>1. reg' \in [RegionId -> Regions]
        BY <1>0, ServedTyped DEF ServeYields
    <2>. QED BY <1>0, <2>1, ForestBoundsAssumption DEF ServeYields, Places, Regions, CanSearch,
            CreditReturned, Served, Advances
<1>2. Located'
    BY WorkersAssumption DEF ServeYields, Located, Loose, Regions, CanSearch, CreditReturned,
            Served, Advances
<1>3. Owners'
    <2>1. ReservesNone
        BY <1>0 DEF ServeYields, ReservesNone, Regions, CanSearch, CreditReturned, Served,
                Advances
    <2>. QED BY <2>1, OwnerMoves DEF ServeYields, Owners, Owner, OwnerPlaces, CanSearch,
            CreditReturned, Served, Advances
<1>4. EpochsQuiet'
    BY WorkersAssumption, EpochRuns DEF ServeYields, EpochsQuiet, Quiet, CanSearch,
            CreditReturned, Served, Advances
<1>. QED BY <1>1, <1>2, <1>3, <1>4

LEMMA ServeDonatesKeeps ==
    ASSUME IInv, NEW w \in Workers, ServeDonates(w)
    PROVE  IInv'
<1>. USE DEF IInv, Shape, vars, flagVars, epochVars, localVars, Agents
<1>0. /\ at[w] \in RegionId /\ nextId \in RegionId
      /\ pc[w] = "serve" /\ pc' = [pc EXCEPT ![w] = "publish"] /\ UNCHANGED at
    <2>1. pc[w] = "serve" /\ pc' = [pc EXCEPT ![w] = "publish"] /\ UNCHANGED at
        BY DEF ServeDonates, CanSearch
    <2>2. at[w] \in RegionId
        BY <2>1 DEF Located, Loose
    <2>3. nextId \in RegionId
        BY ForestBoundsAssumption DEF ServeDonates, RegionId
    <2>. QED BY <2>1, <2>2, <2>3
<1>1. PICK E, D \in SUBSET Leaves :
        reg' = [reg EXCEPT ![at[w]] = Donates(Advances(at[w], E), D),
                           ![nextId] = Node(at[w], "session", D, 1)]
    <2>1. reg[at[w]].todo \in SUBSET Leaves
        BY <1>0 DEF Regions
    <2>. QED BY <2>1 DEF ServeDonates
<1>2. /\ Advances(at[w], E) \in Regions
      /\ Advances(at[w], E).parent = reg[at[w]].parent
      /\ Advances(at[w], E).reserved = reg[at[w]].reserved
    BY <1>0, ServedTyped
<1>3. /\ Donates(Advances(at[w], E), D) \in Regions
      /\ Donates(Advances(at[w], E), D).parent = reg[at[w]].parent
      /\ Donates(Advances(at[w], E), D).reserved = reg[at[w]].reserved
      /\ Node(at[w], "session", D, 1) \in Regions
      /\ Node(at[w], "session", D, 1).parent = at[w]
      /\ ~Node(at[w], "session", D, 1).reserved
    BY <1>0, <1>2, DonorTyped, ChildTyped
<1>4. reg' \in [RegionId -> Regions]
    BY <1>0, <1>1, <1>3
<1>5. Shape'
    <2>1. child' \in [Workers -> RegionId \cup {None}] /\ nextId' \in 1 .. MaxRegions + 1
        <3>1. nextId' = nextId + 1 /\ child' = [child EXCEPT ![w] = nextId]
            BY DEF ServeDonates
        <3>. QED BY <1>0, <3>1, ForestBoundsAssumption DEF RegionId
    <2>2. pc' \in [Agents -> Places] /\ credit' \in Nat /\ live' \in Int
        BY <1>0 DEF ServeDonates, Places, CreditReturned
    <2>. QED BY <1>4, <2>1, <2>2 DEF ServeDonates
<1>6. Located'
    <2>1. \A r \in RegionId : reg'[r].parent \in {reg[r].parent} \cup RegionId
        BY <1>0, <1>1, <1>3
    <2>2. UNCHANGED <<at, cursor>> /\ child' = [child EXCEPT ![w] = nextId]
        BY DEF ServeDonates
    <2>. QED BY <1>0, <2>1, <2>2, WorkersAssumption DEF Located, Loose
<1>7. Owners'
    <2>1. ReservesNone
        BY <1>0, <1>1, <1>3 DEF ReservesNone
    <2>2. at[w] \in active /\ ~reg'[at[w]].reserved
        BY <1>0, <2>1 DEF Owners, Owner, OwnerPlaces, ReservesNone
    <2>. QED BY <1>0, <2>1, <2>2, OwnerMoves DEF ServeDonates, Owner, OwnerPlaces
<1>8. EpochsQuiet'
    BY WorkersAssumption, EpochRuns DEF ServeDonates, CanSearch, EpochsQuiet, Quiet
<1>. QED BY <1>5, <1>6, <1>7, <1>8

LEMMA ServeRecursivelyKeeps ==
    ASSUME IInv, NEW w \in Workers, ServeRecursively(w)
    PROVE  IInv'
<1>. USE DEF IInv, Shape, vars, flagVars, epochVars, localVars, Agents
<1>0. at[w] \in RegionId
    BY DEF ServeRecursively, Located, Loose, CreditReturned, Served
<1>1. Shape'
    <2>1. reg' \in [RegionId -> Regions]
        <3>1. [reg[at[w]] EXCEPT !.form = "session"] \in Regions
            BY <1>0, UpdatesTyped
        <3>. QED BY <1>0, <3>1 DEF ServeRecursively
    <2>2. PICK e \in {"replay", "infeasible", "feasible"} : Served(w, e)
        BY DEF ServeRecursively
    <2>3. /\ pc' \in [Agents -> Places]
          /\ event' \in [Workers -> {"none", "replay", "unresolved", "infeasible", "feasible"}]
        BY <2>2 DEF Served, Places
    <2>4. credit' \in Nat
        BY DEF ServeRecursively, CreditReturned
    <2>. QED BY <2>1, <2>2, <2>3, <2>4 DEF ServeRecursively, Served
<1>2. Located'
    <2>1. \A r \in RegionId : reg'[r].parent \in {reg[r].parent} \cup RegionId
        BY <1>0 DEF ServeRecursively, Regions, CreditReturned, Served
    <2>. QED BY <1>0, <2>1, WorkersAssumption DEF ServeRecursively, Located, Loose,
            CreditReturned, Served
<1>3. Owners'
    <2>1. ReservesNone
        BY <1>0 DEF ServeRecursively, ReservesNone, Regions, CreditReturned, Served
    <2>2. \A v \in Workers \ {w} : pc'[v] = pc[v] /\ at'[v] = at[v]
        BY DEF ServeRecursively, CreditReturned, Served
    <2>3. pc'[w] \in OwnerPlaces /\ at' = at /\ active' = active /\ pc[w] \in OwnerPlaces
        BY DEF ServeRecursively, OwnerPlaces, CreditReturned, Served
    <2>4. at[w] \in active /\ ~reg'[at[w]].reserved
        BY <1>0, <2>1, <2>3 DEF Owners, Owner, ReservesNone
    <2>. QED BY <2>1, <2>2, <2>3, <2>4, OwnerMoves DEF Owner
<1>4. EpochsQuiet'
    BY WorkersAssumption, EpochRuns DEF ServeRecursively, EpochsQuiet, Quiet, CreditReturned,
            Served
<1>. QED BY <1>1, <1>2, <1>3, <1>4

LEMMA PublishKeeps ==
    ASSUME IInv, NEW w \in Workers, Publish(w)
    PROVE  IInv'
<1>. USE DEF IInv, Shape, vars, flagVars, epochVars, localVars, Agents
<1>1. Shape'
    <2>1. child[w] \in RegionId
        BY DEF Publish, Located
    <2>2. /\ queued' \in SUBSET RegionId /\ rerun' \in SUBSET RegionId
          /\ ready' \in Seq(RegionId)
        BY <2>1, EnqueueTyped DEF Publish
    <2>. QED BY <2>1, <2>2 DEF Publish, Places
<1>2. Located'
    BY WorkersAssumption DEF Publish, Located, Loose, Regions, Enqueue
<1>3. Owners'
    <2>1. ReservesNone
        BY DEF Publish, ReservesNone, Regions, Enqueue
    <2>. QED BY <2>1, OwnerMoves DEF Publish, Owners, Owner, OwnerPlaces, Enqueue
<1>4. EpochsQuiet'
    BY WorkersAssumption, EpochRuns DEF Publish, EpochsQuiet, Quiet, Enqueue
<1>. QED BY <1>1, <1>2, <1>3, <1>4

LEMMA GivesUpKeeps ==
    ASSUME IInv, NEW w \in Workers, GivesUp(w)
    PROVE  IInv'
<1>. USE DEF IInv, Shape, vars, flagVars, epochVars, localVars, Agents
<1>1. Shape'
    BY ForestBoundsAssumption DEF GivesUp, Places
<1>2. Located'
    BY WorkersAssumption DEF GivesUp, Located, Loose, Regions
<1>3. Owners'
    <2>1. ReservesNone
        BY DEF GivesUp, ReservesNone, Regions
    <2>. QED BY <2>1, OwnerMoves DEF GivesUp, Owners, Owner, OwnerPlaces
<1>4. EpochsQuiet'
    BY WorkersAssumption, EpochRuns DEF GivesUp, EpochsQuiet, Quiet
<1>. QED BY <1>1, <1>2, <1>3, <1>4

LEMMA RerunsKeeps ==
    ASSUME IInv, NEW w \in Workers, Reruns(w)
    PROVE  IInv'
<1>. USE DEF IInv, Shape, vars, flagVars, epochVars, localVars, Agents
<1>0. at[w] \in RegionId
    BY DEF Reruns, Located, Loose
<1>1. Shape'
    <2>1. queued' \in SUBSET RegionId /\ rerun' \in SUBSET RegionId
        BY <1>0 DEF Reruns
    <2>2. ready' = ready \/ ready' = Append(ready, at[w])
        BY DEF Reruns
    <2>3. ready' \in Seq(RegionId)
        BY <1>0, <2>2
    <2>. QED BY <2>1, <2>3 DEF Reruns, Places
<1>2. Located'
    BY WorkersAssumption DEF Reruns, Located, Loose, Regions
<1>3. Owners'
    <2>1. ReservesNone
        BY <1>0 DEF Reruns, ReservesNone, Regions
    <2>. QED BY <2>1, OwnerMoves DEF Reruns, Owners, Owner, OwnerPlaces
<1>4. EpochsQuiet'
    BY WorkersAssumption, EpochRuns DEF Reruns, EpochsQuiet, Quiet
<1>. QED BY <1>1, <1>2, <1>3, <1>4

LEMMA ClosesKeeps ==
    ASSUME IInv, NEW w \in Workers, Closes(w)
    PROVE  IInv'
<1>. USE DEF IInv, Shape, vars, flagVars, epochVars, localVars, Agents
<1>0. at[w] \in RegionId
    BY DEF Closes, Located, Loose
<1>1. Shape'
    <2>1. reg' \in [RegionId -> Regions]
        <3>1. [reg[at[w]] EXCEPT !.notified = TRUE, !.status = event[w],
                                 !.form = IF @ = "deferred" THEN "none" ELSE @] \in Regions
            BY <1>0, ClosingTyped DEF Closes
        <3>. QED BY <1>0, <3>1 DEF Closes
    <2>2. pc' \in [Agents -> Places] /\ cursor' \in [Agents -> RegionId \cup {None}]
        BY <1>0 DEF Closes, Places
    <2>. QED BY <2>1, <2>2 DEF Closes
<1>2. Located'
    <2>1. \A r \in RegionId : reg'[r].parent \in {reg[r].parent} \cup RegionId
        BY <1>0 DEF Closes, Regions
    <2>. QED BY <1>0, <2>1, WorkersAssumption DEF Closes, Located, Loose
<1>3. Owners'
    <2>1. ReservesNone
        BY <1>0 DEF Closes, ReservesNone, Regions
    <2>2. \A v \in Workers \ {w} : pc'[v] = pc[v] /\ at'[v] = at[v]
        BY DEF Closes
    <2>3. pc'[w] \in OwnerPlaces /\ at' = at /\ active' = active /\ pc[w] \in OwnerPlaces
        BY DEF Closes, OwnerPlaces
    <2>4. at[w] \in active /\ ~reg'[at[w]].reserved
        BY <1>0, <2>1, <2>3 DEF Owners, Owner, ReservesNone
    <2>. QED BY <2>1, <2>2, <2>3, <2>4, OwnerMoves DEF Owner
<1>4. EpochsQuiet'
    BY WorkersAssumption, EpochRuns DEF Closes, EpochsQuiet, Quiet
<1>. QED BY <1>1, <1>2, <1>3, <1>4

LEMMA AnnouncesKeeps ==
    ASSUME IInv, NEW w \in Workers, Announces(w)
    PROVE  IInv'
<1>. USE DEF IInv, Shape, vars, flagVars, epochVars, localVars, Agents
<1>1. Shape'
    BY ForestBoundsAssumption DEF Announces, Places
<1>2. Located'
    BY WorkersAssumption DEF Announces, Located, Loose, Regions
<1>3. Owners'
    <2>1. ReservesNone
        BY DEF Announces, ReservesNone, Regions
    <2>. QED BY <2>1, OwnerMoves DEF Announces, Owners, Owner, OwnerPlaces
<1>4. EpochsQuiet'
    BY WorkersAssumption, EpochRuns DEF Announces, EpochsQuiet, Quiet
<1>. QED BY <1>1, <1>2, <1>3, <1>4

LEMMA ReleasesKeeps ==
    ASSUME IInv, NEW w \in Workers, Releases(w)
    PROVE  IInv'
<1>. USE DEF IInv, Shape, vars, flagVars, epochVars, localVars, Agents
<1>1. Shape'
    BY ForestBoundsAssumption DEF Releases, Places
<1>2. Located'
    BY WorkersAssumption DEF Releases, Located, Loose, Regions
<1>3. Owners'
    <2>1. ReservesNone
        BY DEF Releases, ReservesNone, Regions
    <2>. QED BY <2>1, OwnerMoves DEF Releases, Owners, Owner, OwnerPlaces
<1>4. EpochsQuiet'
    BY WorkersAssumption, EpochRuns DEF Releases, EpochsQuiet, Quiet
<1>. QED BY <1>1, <1>2, <1>3, <1>4

-----------------------------------------------------------------------------
\* A failure climbs: the agent keeps the region it owns, and its cursor is a
\* region all the way.
LEMMA NotifyKeeps ==
    ASSUME IInv, NEW a \in Agents, Notify(a)
    PROVE  IInv'
<1>. DEFINE p == reg[cursor[a]].parent
<1>1. /\ Shape /\ Located /\ Owners /\ EpochsQuiet
      /\ pc \in [Agents -> Places] /\ cursor \in [Agents -> RegionId \cup {None}]
      /\ reg \in [RegionId -> Regions]
    BY DEF IInv, Shape
<1>2. /\ pc[a] \in {"notify", "parent"}
      /\ UNCHANGED <<nodes, active, epochVars, live, nextId, at, event, child, cpc>>
    BY DEF Notify, NotifyStops, NotifyRoot, NotifyClimbs, ParentIndifferent, ParentFails,
           ParentGoesOn, flagVars, localVars
<1>3. cursor[a] \in RegionId /\ (pc[a] = "parent" => p \in RegionId)
    BY <1>1, <1>2 DEF Located
<1>4. p \in RegionId \cup {None} /\ (p \in RegionId => reg[p] \in Regions)
    BY <1>1, <1>3 DEF Regions
<1>5. PICK x \in {"notify", "parent", "release", "out"} :
        /\ pc' = [pc EXCEPT ![a] = x]
        /\ x = "out" => a = Controller
        /\ x = "notify" => cursor' = [cursor EXCEPT ![a] = p] /\ p \in RegionId
        /\ x = "parent" => cursor' = cursor /\ p \in RegionId
        /\ x \in {"release", "out"} => cursor' = [cursor EXCEPT ![a] = None]
    <2>1. CASE NotifyStops(a)
        BY <2>1 DEF NotifyStops, EndOfChain
    <2>2. CASE NotifyRoot(a)
        BY <2>2 DEF NotifyRoot, EndOfChain
    <2>3. CASE NotifyClimbs(a)
        BY <2>3, <1>4 DEF NotifyClimbs, ParentOf, localVars
    <2>4. CASE ParentIndifferent(a)
        BY <2>4 DEF ParentIndifferent, EndOfChain
    <2>5. CASE ParentFails(a)
        BY <2>5, <1>3 DEF ParentFails
    <2>6. CASE ParentGoesOn(a)
        BY <2>6 DEF ParentGoesOn, EndOfChain
    <2>. QED BY <2>1, <2>2, <2>3, <2>4, <2>5, <2>6 DEF Notify
<1>6. \/ reg' = reg
      \/ p \in RegionId /\ reg' = [reg EXCEPT ![p] = [reg[p] EXCEPT !.unfinished = @ - 1]]
      \/ /\ p \in RegionId
         /\ reg' = [reg EXCEPT ![p] = [reg[p] EXCEPT !.unfinished = @ - 1,
                                            !.status = "infeasible", !.notified = TRUE]]
    <2>1. CASE ParentFails(a)
        BY <2>1, <1>3 DEF ParentFails
    <2>2. CASE ParentGoesOn(a)
        BY <2>2, <1>3 DEF ParentGoesOn
    <2>. QED BY <2>1, <2>2 DEF Notify, NotifyStops, NotifyRoot, NotifyClimbs, ParentIndifferent
<1>7. reg' \in [RegionId -> Regions]
    <2>1. CASE reg' = reg
        BY <2>1, <1>1
    <2>2. CASE p \in RegionId /\ reg' = [reg EXCEPT ![p] = [reg[p] EXCEPT !.unfinished = @ - 1]]
        <3>1. [reg[p] EXCEPT !.unfinished = @ - 1] \in Regions
            BY <2>2, <1>4, UpdatesTyped
        <3>. QED BY <2>2, <1>1, <3>1
    <2>3. CASE /\ p \in RegionId
               /\ reg' = [reg EXCEPT ![p] = [reg[p] EXCEPT !.unfinished = @ - 1,
                                                  !.status = "infeasible", !.notified = TRUE]]
        <3>1. [reg[p] EXCEPT !.unfinished = @ - 1, !.status = "infeasible",
                             !.notified = TRUE] \in Regions
            BY <2>3, <1>4, UpdatesTyped
        <3>. QED BY <2>3, <1>1, <3>1
    <2>. QED BY <1>6, <2>1, <2>2, <2>3
<1>8. \A r \in RegionId : reg'[r].parent = reg[r].parent /\ reg'[r].reserved = reg[r].reserved
    <2>1. p \in RegionId =>
            LET d == reg[p]
                e == [d EXCEPT !.unfinished = @ - 1]
                f == [d EXCEPT !.unfinished = @ - 1, !.status = "infeasible", !.notified = TRUE]
            IN  /\ e.parent = d.parent /\ e.reserved = d.reserved
                /\ f.parent = d.parent /\ f.reserved = d.reserved
        BY <1>4 DEF Regions
    <2>. QED BY <1>1, <1>6, <2>1
<1>9. /\ queued' \in SUBSET RegionId /\ rerun' \in SUBSET RegionId
      /\ ready' \in Seq(RegionId)
    <2>1. CASE UNCHANGED <<queued, rerun, ready>>
        BY <2>1, <1>1 DEF Shape
    <2>2. CASE pc[a] = "parent" /\ Enqueue(p, p \in active)
        BY <2>2, <1>1, <1>3, EnqueueTyped DEF Enqueue
    <2>. QED BY <2>1, <2>2 DEF Notify, NotifyStops, NotifyRoot, NotifyClimbs,
                ParentIndifferent, ParentFails, ParentGoesOn, flagVars
<1>10. answer' \in {"unresolved", "feasible", "infeasible", "cancelled"}
    <2>1. answer' \in {answer, "infeasible"}
        BY DEF Notify, NotifyStops, NotifyRoot, NotifyClimbs, ParentIndifferent, ParentFails,
               ParentGoesOn
    <2>. QED BY <2>1, <1>1 DEF Shape
<1>11. Shape'
    <2>1. pc' \in [Agents -> Places]
        BY <1>1, <1>5 DEF Places
    <2>2. cursor' \in [Agents -> RegionId \cup {None}]
        BY <1>1, <1>5
    <2>. QED BY <1>1, <1>2, <1>7, <1>9, <1>10, <2>1, <2>2 DEF Shape, epochVars
<1>12. Located'
    <2>1. \A w \in Workers : /\ pc'[w] \notin Loose => at'[w] \in RegionId
                             /\ pc'[w] = "publish" => child'[w] \in RegionId
        BY <1>1, <1>2, <1>5 DEF Located, Loose, Agents
    <2>2. \A b \in Agents \ {a} : pc'[b] = pc[b] /\ cursor'[b] = cursor[b]
        BY <1>1, <1>5
    <2>3. pc'[a] \in {"notify", "parent"} => cursor'[a] \in RegionId
        BY <1>1, <1>3, <1>5
    <2>4. pc'[a] = "parent" => cursor'[a] = cursor[a] /\ p \in RegionId
        BY <1>1, <1>5
    <2>. QED BY <1>1, <1>3, <1>8, <2>1, <2>2, <2>3, <2>4 DEF Located
<1>13. Owners'
    <2>1. ReservesNone
        BY <1>8 DEF ReservesNone
    <2>2. \A w \in Workers : pc'[w] = pc[w] \/ (pc[w] \in OwnerPlaces /\ pc'[w] \in OwnerPlaces)
        BY <1>1, <1>2, <1>5, WorkersAssumption DEF OwnerPlaces, Agents
    <2>. QED BY <1>1, <1>2, <2>1, <2>2, OwnersStay DEF Owner
<1>14. EpochsQuiet'
    <2>1. \A w \in Workers : pc[w] = "out" => pc'[w] = "out"
        BY <1>1, <1>2, <1>5 DEF Agents
    <2>. QED BY <1>1, <1>2, <2>1, EpochsStay DEF epochVars
<1>. QED BY <1>11, <1>12, <1>13, <1>14 DEF IInv

-----------------------------------------------------------------------------
\* The control operations: each leaves the workers where they are, and those
\* that touch regions, beside a failure that climbs, find none in a lease.
LEMMA EpochControlKeeps ==
    ASSUME IInv, BeginEpoch \/ Drain \/ FinishEpoch \/ Cancel
    PROVE  IInv'
<1>. USE DEF IInv, Shape, vars, flagVars, epochVars, localVars
<1>1. /\ UNCHANGED <<nodes, reg, flagVars, live, nextId, pc, localVars>>
      /\ cpc' \in {"ready", "drain", "reconcile", "stuck"} /\ credit' \in Nat
      /\ epochActive' \in BOOLEAN
      /\ answer' \in {"unresolved", "feasible", "infeasible", "cancelled"}
    BY ForestBoundsAssumption DEF BeginEpoch, Drain, FinishEpoch, Cancel
<1>2. Shape'
    BY <1>1
<1>3. Located'
    BY <1>1 DEF Located
<1>4. Owners'
    BY <1>1, OwnersStay DEF ReservesNone
<1>5. EpochsQuiet'
    BY DEF EpochsQuiet, Quiet, BeginEpoch, Drain, FinishEpoch, Cancel, ControlIdle
<1>. QED BY <1>2, <1>3, <1>4, <1>5

\* What the other control operations leave alone.
Undisturbed ==
    /\ Quiet
    /\ UNCHANGED <<answer, at, event, child>>
    /\ \A w \in Workers : pc'[w] = pc[w]

LEMMA UndisturbedKeeps ==
    ASSUME IInv, Undisturbed, Shape',
           pc'[Controller] \in {"notify", "parent"} => cursor'[Controller] \in RegionId,
           pc'[Controller] # "parent", cpc' = "reconcile" => ~epochActive'
    PROVE  IInv'
<1>1. \A w \in Workers : pc'[w] = "out"
    BY DEF Undisturbed, Quiet
<1>2. Located'
    BY <1>1 DEF Located, Loose, Agents
<1>3. Owners'
    BY <1>1, OwnersQuiet
<1>4. EpochsQuiet'
    BY <1>1 DEF EpochsQuiet, Quiet
<1>. QED BY <1>2, <1>3, <1>4 DEF IInv

LEMMA ReconcileEndsKeeps ==
    ASSUME IInv, ReconcileEnds
    PROVE  IInv'
<1>. USE DEF IInv, Shape, flagVars, epochVars, localVars
<1>1. Undisturbed /\ UNCHANGED <<epochVars, cursor, pc, nextId>> /\ pc[Controller] = "out"
    BY DEF ReconcileEnds, EpochsQuiet, Undisturbed
<1>2. cpc' \in {"ready", "stuck"}
    BY DEF ReconcileEnds
<1>3. Shape'
    <2>1. CASE answer # "unresolved"
        BY <2>1, <1>1, <1>2 DEF ReconcileEnds, Undisturbed
    <2>2. CASE answer = "unresolved"
        <3> DEFINE kept == {r \in nodes : Keeps(r)}
                   add  == ToQueue(kept) \ active
        <3>1. /\ nodes' = kept
              /\ reg' = [r \in RegionId |-> IF r \in nodes \ kept THEN Blank ELSE reg[r]]
              /\ live' = live - Cardinality(nodes \ kept)
              /\ rerun' = rerun \cup (ToQueue(kept) \cap active)
              /\ queued' = queued \cup add
              /\ \E q \in Orders(add \ queued) : ready' = ready \o q
              /\ active' = active
            BY <2>2 DEF ReconcileEnds
        <3>2. kept \in SUBSET RegionId /\ add \in SUBSET RegionId
            BY DEF ToQueue
        <3>3. Blank \in Regions
            BY BlankTyped
        <3>4. reg' \in [RegionId -> Regions]
            BY <3>1, <3>3
        <3>5. live' \in Int
            <4>1. IsFiniteSet(1 .. MaxRegions)
                BY FS_Interval, ForestBoundsAssumption
            <4>2. Cardinality(nodes \ kept) \in Nat
                <5>1. nodes \ kept \in SUBSET (1 .. MaxRegions)
                    BY DEF RegionId
                <5>2. IsFiniteSet(nodes \ kept)
                    BY ZenonT(60), <4>1, <5>1, FS_Subset
                <5>. QED BY <5>2, FS_CardinalityType
            <4>. QED BY <3>1, <4>2
        <3>6. ready' \in Seq(RegionId)
            <4>1. PICK q \in Orders(add \ queued) : ready' = ready \o q
                BY <3>1
            <4>2. q \in Seq(RegionId)
                BY <3>2, OrdersTyped
            <4>. QED BY <4>1, <4>2
        <3>7. queued' \in SUBSET RegionId /\ rerun' \in SUBSET RegionId /\ active' \in SUBSET RegionId
            BY <3>1, <3>2
        <3>8. nodes' \in SUBSET RegionId
            BY <3>1, <3>2
        <3>. HIDE DEF kept, add
        <3>. QED BY <1>1, <1>2, <3>4, <3>5, <3>6, <3>7, <3>8 DEF Undisturbed
    <2>. QED BY <2>1, <2>2
<1>. QED BY <1>1, <1>2, <1>3, UndisturbedKeeps

LEMMA ClaimFragmentKeeps ==
    ASSUME IInv, NEW r \in RegionId, ClaimFragment(r)
    PROVE  IInv'
<1>. USE DEF IInv, Shape, flagVars, epochVars, localVars
<1>1. /\ Undisturbed /\ cpc = "ready"
      /\ UNCHANGED <<nodes, flagVars, epochVars, live, nextId, pc, cursor, cpc>>
      /\ pc[Controller] = "out"
      /\ reg' = [reg EXCEPT ![r] = [reg[r] EXCEPT !.reserved = TRUE]]
    BY DEF ClaimFragment, ControlIdle, Undisturbed
<1>2. [reg[r] EXCEPT !.reserved = TRUE] \in Regions
    BY UpdatesTyped
<1>3. reg' \in [RegionId -> Regions]
    BY <1>1, <1>2
<1>4. Shape'
    BY <1>1, <1>3 DEF Undisturbed
<1>. QED BY <1>1, <1>4, UndisturbedKeeps

LEMMA DonateAndClaimKeeps ==
    ASSUME IInv, NEW r \in RegionId, DonateAndClaim(r)
    PROVE  IInv'
<1>. USE DEF IInv, Shape, flagVars, epochVars, localVars
<1>1. /\ Undisturbed /\ cpc = "ready"
      /\ UNCHANGED <<flagVars, epochVars, pc, cursor, cpc>>
      /\ pc[Controller] = "out"
      /\ nextId \in RegionId /\ nextId' = nextId + 1
      /\ nodes' = nodes \cup {nextId} /\ live' = live + 1
    BY ForestBoundsAssumption DEF DonateAndClaim, ControlIdle, Undisturbed, RegionId
<1>2. PICK D \in SUBSET Leaves :
        reg' = [reg EXCEPT ![r] = Donates(reg[r], D),
                           ![nextId] = [Node(r, "deferred", D, 1) EXCEPT !.reserved = TRUE]]
    <2>1. reg[r].todo \in SUBSET Leaves
        BY DEF Regions
    <2>. QED BY <2>1 DEF DonateAndClaim
<1>3. Donates(reg[r], D) \in Regions /\ [Node(r, "deferred", D, 1) EXCEPT !.reserved = TRUE] \in Regions
    BY DonorTyped, ChildTyped
<1>4. reg' \in [RegionId -> Regions]
    BY <1>1, <1>2, <1>3
<1>5. nextId' \in 1 .. MaxRegions + 1
    BY <1>1, ForestBoundsAssumption DEF RegionId
<1>6. Shape'
    BY <1>1, <1>4, <1>5 DEF Undisturbed
<1>. QED BY <1>1, <1>6, UndisturbedKeeps

LEMMA RetireFragmentKeeps ==
    ASSUME IInv, NEW r \in RegionId, RetireFragment(r)
    PROVE  IInv'
<1>. USE DEF IInv, Shape, flagVars, epochVars, localVars
<1>0. Quiet /\ UNCHANGED <<answer, at, event, child>>
      /\ pc' = [pc EXCEPT ![Controller] = "notify"]
    BY DEF RetireFragment, ClaimValid
<1>1. /\ cpc = "ready"
      /\ UNCHANGED <<nodes, flagVars, epochVars, live, nextId, cpc>>
      /\ pc' = [pc EXCEPT ![Controller] = "notify"]
      /\ cursor' = [cursor EXCEPT ![Controller] = r]
      /\ reg' = [reg EXCEPT ![r] = [reg[r] EXCEPT !.reserved = FALSE, !.form = "session",
                            !.status = "infeasible", !.todo = {}, !.notified = TRUE]]
    BY DEF RetireFragment, ClaimValid, ControlIdle
<1>2. [reg[r] EXCEPT !.reserved = FALSE, !.form = "session",
                     !.status = "infeasible", !.todo = {}, !.notified = TRUE] \in Regions
    BY UpdatesTyped
<1>3. reg' \in [RegionId -> Regions]
    BY <1>1, <1>2
<1>4. pc' \in [Agents -> Places] /\ cursor' \in [Agents -> RegionId \cup {None}]
    BY <1>1 DEF Places
<1>5. Shape'
    BY <1>0, <1>1, <1>3, <1>4
<1>6. pc'[Controller] = "notify" /\ cursor'[Controller] = r
    BY <1>1 DEF Agents
<1>7. Undisturbed
    BY <1>0, WorkersAssumption DEF Undisturbed, Agents
<1>. QED BY <1>1, <1>5, <1>6, <1>7, UndisturbedKeeps

LEMMA ReleaseFragmentKeeps ==
    ASSUME IInv, NEW r \in RegionId, ReleaseFragment(r)
    PROVE  IInv'
<1>. USE DEF IInv, Shape, epochVars, localVars
<1>1. /\ Undisturbed /\ cpc = "ready"
      /\ UNCHANGED <<nodes, active, epochVars, live, nextId, pc, cursor, cpc>>
      /\ pc[Controller] = "out"
      /\ reg' = [reg EXCEPT ![r] = [reg[r] EXCEPT !.reserved = FALSE]]
    BY DEF ReleaseFragment, ClaimValid, ControlIdle, Undisturbed
<1>2. [reg[r] EXCEPT !.reserved = FALSE] \in Regions
    BY UpdatesTyped
<1>3. reg' \in [RegionId -> Regions]
    BY <1>1, <1>2
<1>4. /\ queued' \in SUBSET RegionId /\ rerun' \in SUBSET RegionId
      /\ ready' \in Seq(RegionId)
    BY EnqueueTyped DEF ReleaseFragment
<1>5. Shape'
    BY <1>1, <1>3, <1>4 DEF Undisturbed
<1>. QED BY <1>1, <1>5, UndisturbedKeeps

LEMMA RestartKeeps ==
    ASSUME IInv, Restart
    PROVE  IInv'
<1>. USE DEF IInv, Shape, epochVars, localVars
<1>1. /\ Undisturbed /\ cpc = "ready"
      /\ UNCHANGED <<pc, cursor, cpc>> /\ pc[Controller] = "out"
      /\ nodes' = Saved /\ active' = {} /\ rerun' = {}
      /\ queued' = {r \in Saved : ~Waiting(r)}
      /\ credit' = 0 /\ epochActive' = FALSE
      /\ live' = Cardinality(Saved)
    BY DEF Restart, CanSnapshot, ControlIdle, Undisturbed
<1>2. Saved \in SUBSET RegionId /\ {r \in Saved : ~Waiting(r)} \in SUBSET RegionId
    BY DEF Saved
<1>3. reg' \in [RegionId -> Regions]
    <2>1. PICK defer \in SUBSET {r \in Saved : recursive /\ Whole(r)} :
            reg' = [r \in RegionId |->
                      IF r \in Saved
                      THEN [reg[r] EXCEPT !.parent = SavedParent(r), !.started = FALSE,
                                          !.form = IF r \in defer THEN "deferred" ELSE "session"]
                      ELSE Blank]
        BY DEF Restart
    <2>2. ASSUME NEW r \in RegionId, NEW f \in {"deferred", "session"}
          PROVE  [reg[r] EXCEPT !.parent = SavedParent(r), !.started = FALSE, !.form = f] \in Regions
        <3>1. reg[r] \in Regions /\ reg[r].parent \in RegionId \cup {None}
            BY DEF Regions
        <3>2. SavedParent(r) \in RegionId \cup {None}
            BY <3>1 DEF SavedParent
        <3>. QED BY <3>1, <3>2, RestoredTyped
    <2>3. ASSUME NEW r \in RegionId PROVE reg'[r] \in Regions
        <3>1. CASE r \in Saved /\ r \in defer
            <4>1. reg'[r] = [reg[r] EXCEPT !.parent = SavedParent(r), !.started = FALSE,
                                           !.form = "deferred"]
                BY <2>1, <3>1
            <4>2. [reg[r] EXCEPT !.parent = SavedParent(r), !.started = FALSE,
                                 !.form = "deferred"] \in Regions
                BY <2>2
            <4>. QED BY <4>1, <4>2
        <3>2. CASE r \in Saved /\ r \notin defer
            <4>1. reg'[r] = [reg[r] EXCEPT !.parent = SavedParent(r), !.started = FALSE,
                                           !.form = "session"]
                BY <2>1, <3>2
            <4>2. [reg[r] EXCEPT !.parent = SavedParent(r), !.started = FALSE,
                                 !.form = "session"] \in Regions
                BY <2>2
            <4>. QED BY <4>1, <4>2
        <3>3. CASE r \notin Saved
            BY <2>1, <3>3, BlankTyped
        <3>. QED BY <3>1, <3>2, <3>3
    <2>4. reg' = [r \in RegionId |-> reg'[r]]
        BY <2>1
    <2>. QED BY <2>3, <2>4
<1>4. ready' \in Seq(RegionId)
    BY <1>2, OrdersTyped DEF Restart
<1>5. live' \in Int
    <2>1. IsFiniteSet(1 .. MaxRegions)
        BY FS_Interval, ForestBoundsAssumption
    <2>2. Saved \in SUBSET (1 .. MaxRegions)
        BY <1>2 DEF RegionId
    <2>3. IsFiniteSet(Saved)
        BY <2>1, <2>2, FS_Subset
    <2>4. Cardinality(Saved) \in Nat
        BY <2>3, FS_CardinalityType
    <2>. QED BY <1>1, <2>4
<1>6. nextId' \in 1 .. MaxRegions + 1
    <2>1. PICK m \in Saved : nextId' = m + 1
        BY DEF Restart
    <2>2. m \in 1 .. MaxRegions
        BY <1>2 DEF RegionId
    <2>. QED BY <2>1, <2>2, ForestBoundsAssumption
<1>7. Shape'
    BY <1>1, <1>2, <1>3, <1>4, <1>5, <1>6 DEF Undisturbed
<1>. QED BY <1>1, <1>7, UndisturbedKeeps

-----------------------------------------------------------------------------
LEMMA InitIInv ==
    ASSUME Init
    PROVE  IInv
<1>1. /\ nodes \in SUBSET RegionId /\ reg \in [RegionId -> Regions]
      /\ ready \in Seq(RegionId)
      /\ live \in Int /\ nextId \in 1 .. MaxRegions + 1
    <2>1. CASE SingleRoot
        <3>1. Node(None, "session", Leaves, 1) \in Regions
            BY DEF Node, Regions
        <3>2. Root \in RegionId
            BY ForestBoundsAssumption DEF Root, RegionId
        <3>3. reg \in [RegionId -> Regions]
            BY <2>1, <3>1, BlankTyped DEF SingleRoot
        <3>4. live = 1
            BY <2>1, FS_Singleton DEF Init, SingleRoot
        <3>5. nextId \in 1 .. MaxRegions + 1
            BY <3>4, ForestBoundsAssumption DEF Init
        <3>. QED BY <2>1, <3>2, <3>3, <3>4, <3>5 DEF SingleRoot
    <2>2. ASSUME NEW n \in 1 .. MaxRegions - 1, NEW share \in [Leaves -> 2 .. n + 1],
                 Frontier(n, share)
          PROVE  /\ nodes \in SUBSET RegionId /\ reg \in [RegionId -> Regions]
                 /\ ready \in Seq(RegionId)
                 /\ live \in Int /\ nextId \in 1 .. MaxRegions + 1
        <3>1. n \in Nat /\ n + 1 \in Nat /\ n + 1 <= MaxRegions
            BY ForestBoundsAssumption
        <3>2. nodes = 1 .. n + 1 /\ nodes \in SUBSET RegionId
            BY <2>2, <3>1, ForestBoundsAssumption DEF Frontier, RegionId
        <3>3. live = n + 1
            <4>1. Cardinality(1 .. n + 1) = n + 1
                BY <3>1, FS_Interval
            <4>. QED BY <3>2, <4>1 DEF Init
        <3>4. nextId \in 1 .. MaxRegions + 1
            BY <3>1, <3>3, ForestBoundsAssumption DEF Init
        <3>5. ready \in Seq(RegionId)
            <4>1. ready = [i \in 1 .. n |-> i + 1]
                BY <2>2 DEF Frontier
            <4>2. \A i \in 1 .. n : i + 1 \in RegionId
                BY <3>1, ForestBoundsAssumption DEF RegionId
            <4>. QED BY <3>1, <4>1, <4>2
        <3>6. ASSUME NEW r \in RegionId PROVE reg[r] \in Regions
            <4>1. [Node(None, "session", {}, n) EXCEPT !.localDone = TRUE] \in Regions
                <5>1. Node(None, "session", {}, n) \in Regions
                    BY <3>1 DEF Node, Regions
                <5>. QED BY <5>1 DEF Regions
            <4>2. ASSUME NEW D \in SUBSET Leaves PROVE Node(Root, "deferred", D, 1) \in Regions
                BY ForestBoundsAssumption DEF Node, Regions, Root, RegionId
            <4>. QED BY <2>2, <4>1, <4>2, BlankTyped DEF Frontier
        <3>7. reg = [r \in RegionId |-> reg[r]]
            BY <2>2 DEF Frontier
        <3>. QED BY <3>2, <3>3, <3>4, <3>5, <3>6, <3>7
    <2>. QED BY <2>1, <2>2 DEF Init
<1>2. Shape
    <2>1. queued \in SUBSET RegionId
        <3>1. ToSet(ready) = {ready[i] : i \in DOMAIN ready}
            BY DEF Init, ToSet
        <3>. QED BY <1>1, <3>1 DEF Init
    <2>2. pc \in [Agents -> Places] /\ at \in [Workers -> RegionId \cup {None}]
          /\ child \in [Workers -> RegionId \cup {None}]
          /\ cursor \in [Agents -> RegionId \cup {None}]
        BY DEF Init, Places
    <2>. QED BY <1>1, <2>1, <2>2 DEF Init, Shape
<1>3. (\A a \in Agents : pc[a] = "out") /\ cpc = "ready"
    BY DEF Init
<1>4. Located /\ Owners /\ EpochsQuiet
    BY <1>3 DEF Located, Loose, Owners, Owner, OwnerPlaces, EpochsQuiet, Quiet, Agents
<1>. QED BY <1>2, <1>4 DEF IInv

LEMMA NextIInv ==
    ASSUME IInv, [Next]_vars
    PROVE  IInv'
<1>1. CASE UNCHANGED vars
    BY <1>1 DEF vars, flagVars, epochVars, localVars, IInv, Shape, Located, Owners,
                EpochsQuiet, Quiet
<1>2. ASSUME NEW w \in Workers, LeaseBegins(w) \/ Work(w)
      PROVE  IInv'
    <2>1. CASE Serve(w)
        BY <2>1, ServeNothingKeeps, ServeFindsWitnessKeeps, ServeCompletesKeeps, ServeYieldsKeeps,
           ServeDonatesKeeps, ServeRecursivelyKeeps DEF Serve
    <2>2. CASE Notify(w)
        BY <2>2, NotifyKeeps DEF Agents
    <2>. QED BY <1>2, <2>1, <2>2, LeaseBeginsKeeps, LeaseEndsKeeps, PopKeeps, UnmarkKeeps,
                ActivateKeeps, ActivateFailsKeeps, RejectsKeeps, ClaimsCreditKeeps,
                FindsNoCreditKeeps, PublishKeeps, GivesUpKeeps, RerunsKeeps, ClosesKeeps,
                AnnouncesKeeps, ReleasesKeeps DEF Work
<1>3. CASE Reconcile
    <2>1. Controller \in Agents
        BY DEF Agents
    <2>. QED BY <1>3, <2>1, ReconcileEndsKeeps, NotifyKeeps DEF Reconcile
<1>4. CASE Control
    BY <1>4, EpochControlKeeps, RestartKeeps, ClaimFragmentKeeps, DonateAndClaimKeeps,
       RetireFragmentKeeps, ReleaseFragmentKeeps DEF Control
<1>. QED BY <1>1, <1>2, <1>3, <1>4 DEF Next

\* Every number of workers, whatever the orders of the steps and the claims and
\* restarts between epochs: at any time at most one worker serves, settles or
\* publishes a region, and none does that to a region a claimant has reserved.
THEOREM Exclusive == Spec => []RegionsExclusive
<1>1. Init => IInv
    BY InitIInv
<1>2. IInv /\ [Next /\ UNCHANGED choice]_<<vars, choice>> => IInv'
    BY NextIInv
<1>3. IInv => RegionsExclusive
    BY DEF IInv, Owners, Owner, RegionsExclusive
<1>. QED BY <1>1, <1>2, <1>3, PTL DEF Spec


-----------------------------------------------------------------------------
\* The inductive invariant.

\* An agent keeps a cursor while it propagates a failure, and a child until it is
\* published.
Hands ==
    /\ \A a \in Agents : cursor[a] # None => pc[a] \in {"notify", "parent"}
    /\ \A w \in Workers : child[w] # None => pc[w] = "publish"
    /\ pc[Controller] \in {"out", "notify", "parent"}

\* The children of r whose failure has not reached it.
Open(r) == {c \in Forest : reg[c].parent = r /\ ~Propagated(c)}
Own(d)  == IF d.localDone THEN 0 ELSE 1

\* A region's record, with F the feasible subproblems ...
Sane(d, F) ==
    /\ d.unfinished \in Nat
    /\ d.form = "deferred" => d.status = "unresolved" /\ d.unfinished = 1 /\ ~d.localDone
    /\ d.form = "none" => d.notified
    /\ d.notified => d.status # "unresolved"
    /\ d.status = "unresolved" => d.unfinished > 0
    /\ d.status = "infeasible" \/ d.localDone => d.todo \cap F = {}
    /\ d.status = "feasible" => F # {}
\* ... and with S its open children. A decided search counts no failure any more.
Counts(d, S) ==
    /\ d.status = "unresolved" => d.unfinished >= Own(d) + Cardinality(S)
    /\ d.status = "infeasible" => S = {}
Exact(d, S) == d.status = "unresolved" => d.unfinished = Own(d) + Cardinality(S)

Tree ==
    /\ Root \in nodes /\ reg[Root].parent = None
    /\ \A r \in Forest : r < nextId
    /\ \A r \in Forest \ {Root} : reg[r].parent \in RegionId /\ reg[r].parent < r
    /\ \A r \in Forest \ {Root} : ~Propagated(r) => reg[r].parent \in Forest
    /\ \A r \in RegionId \ Forest : reg[r] = Blank
    /\ live = Cardinality(Forest)

Records == \A r \in Forest : Sane(reg[r], feasible) /\ Counts(reg[r], Open(r))

\* The failures under way are those of different closed regions.
Failures ==
    /\ \A a \in Agents : cursor[a] # None =>
            /\ cursor[a] \in Forest
            /\ reg[cursor[a]].notified /\ reg[cursor[a]].status = "infeasible"
    /\ \A a, b \in Agents : cursor[a] = cursor[b] /\ cursor[a] # None => a = b

Apart == \A r, q \in Forest : r # q => reg[r].todo \cap reg[q].todo \cap feasible = {}

Undecided ==
    answer = "unresolved" =>
        /\ ~Propagated(Root)
        /\ \A r \in Forest : Exact(reg[r], Open(r))
        /\ \A l \in feasible : \E r \in Forest : l \in reg[r].todo /\ reg[r].status # "infeasible"

Books == Tree /\ Records /\ Failures /\ Apart /\ Undecided

\* Worker w is to publish that region r has failed, or that a witness is in it.
Failing(w, r) == at[w] = r /\ pc[w] = "settle" /\ event[w] = "infeasible"
Winning(w, r) ==
    at[w] = r /\ \/ pc[w] = "settle" /\ event[w] = "feasible"
                 \/ pc[w] = "announce"

InFlight(w) ==
    /\ pc[w] \in OwnerPlaces => at[w] \in Forest
    /\ pc[w] = "settle" /\ event[w] = "infeasible" =>
            /\ reg[at[w]].status = "infeasible" \/ reg[at[w]].form = "deferred"
            /\ reg[at[w]].todo \cap feasible = {}
    /\ pc[w] = "settle" /\ event[w] = "feasible" =>
            /\ reg[at[w]].status = "feasible" \/ reg[at[w]].form = "deferred"
            /\ feasible # {}
            /\ answer = "unresolved" => ~reg[at[w]].notified
    /\ pc[w] = "announce" => feasible # {}
    /\ pc[w] = "publish" => event[w] = "unresolved"

Flight ==
    /\ \A w \in Workers : InFlight(w)
    /\ \A r \in Forest : reg[r].status = "infeasible" /\ ~reg[r].notified =>
            \E w \in Workers : Failing(w, r)
    /\ answer = "unresolved" =>
            \A r \in Forest : reg[r].status = "feasible" => \E w \in Workers : Winning(w, r)

Queues ==
    /\ \A r \in active : \E w \in Workers : pc[w] \in Owner /\ at[w] = r
    /\ cpc # "stuck"
    /\ cpc = "ready" /\ ~epochActive /\ answer = "unresolved" =>
            \A r \in nodes : Runnable(r) /\ ~reg[r].notified => Reserved(r) \/ r \in queued

Accounts == Hands /\ Books /\ Flight /\ AnswerSound /\ Queues

-----------------------------------------------------------------------------
\* Sets of numbers and of regions.

LEMMA Least ==
    ASSUME NEW S \in SUBSET Nat, S # {}
    PROVE  \E m \in S : \A k \in S : m <= k
<1>. DEFINE R == StrictSubsetOrdering(Nat)
            T == {0 .. k : k \in S}
<1>1. IsWellFoundedOn(R, FiniteSubsetsOf(Nat))
    BY FS_StrictSubsetOrderingWellFounded
<1>2. T \subseteq FiniteSubsetsOf(Nat)
    <2>1. \A k \in S : IsFiniteSet(0 .. k)
        BY FS_Interval
    <2>. QED BY <2>1 DEF FiniteSubsetsOf
<1>3. PICK x \in T : \A y \in T : <<y, x>> \notin R
    <2>1. T # {}
        OBVIOUS
    <2>. HIDE DEF R, T
    <2>. QED BY <1>1, <1>2, <2>1, WFMin
<1>4. PICK m \in S : x = 0 .. m
    OBVIOUS
<1>5. ASSUME NEW k \in S, k < m PROVE FALSE
    <2>1. (0 .. k) \subseteq (0 .. m) /\ 0 .. k # 0 .. m /\ 0 .. k \in T
        <3>1. m \in 0 .. m /\ m \notin 0 .. k
            BY <1>5
        <3>. QED BY <1>5, <3>1
    <2>2. <<0 .. k, x>> \in R
        BY <1>4, <2>1 DEF StrictSubsetOrdering
    <2>. QED BY <1>3, <2>1, <2>2
<1>. QED BY <1>5

LEMMA Greatest ==
    ASSUME NEW S \in SUBSET RegionId, S # {}
    PROVE  \E m \in S : \A k \in S : k <= m
<1>. DEFINE T == {MaxRegions - k : k \in S}
<1>0. MaxRegions \in Nat /\ \A k \in S : k \in Nat /\ MaxRegions - k \in Nat
    BY ForestBoundsAssumption DEF RegionId
<1>1. T \in SUBSET Nat /\ T # {}
    BY <1>0
<1>2. PICK n \in T : \A k \in T : n <= k
    <2>. HIDE DEF T
    <2>. QED BY <1>1, Least
<1>3. PICK m \in S : n = MaxRegions - m
    OBVIOUS
<1>4. \A k \in S : MaxRegions - m <= MaxRegions - k
    BY <1>2, <1>3
<1>. QED BY <1>0, <1>4

LEMMA OneMore ==
    ASSUME NEW S, NEW x, IsFiniteSet(S), x \notin S
    PROVE  IsFiniteSet(S \cup {x}) /\ Cardinality(S \cup {x}) = Cardinality(S) + 1
BY FS_AddElement

LEMMA OneLess ==
    ASSUME NEW S, NEW x, IsFiniteSet(S), x \in S
    PROVE  IsFiniteSet(S \ {x}) /\ Cardinality(S \ {x}) = Cardinality(S) - 1
BY FS_RemoveElement

LEMMA ForestTyped ==
    ASSUME Shape
    PROVE  /\ Forest \in SUBSET RegionId /\ nodes \subseteq Forest
           /\ Forest \subseteq Alive
           /\ IsFiniteSet(Forest) /\ Cardinality(Forest) \in Nat
           /\ \A r : IsFiniteSet(Open(r)) /\ Cardinality(Open(r)) \in Nat
<1>1. Forest \in SUBSET RegionId /\ nodes \subseteq Forest
    BY DEF Shape, Forest
<1>2. Forest \subseteq Alive
    BY DEF Forest, Alive
<1>3. IsFiniteSet(RegionId)
    BY FS_Interval, ForestBoundsAssumption DEF RegionId
<1>4. IsFiniteSet(Forest)
    BY <1>1, <1>3, FS_Subset
<1>5. \A r : IsFiniteSet(Open(r))
    <2>1. \A r : Open(r) \in SUBSET Forest
        BY DEF Open
    <2>. QED BY <1>4, <2>1, FS_Subset
<1>. QED BY <1>1, <1>2, <1>4, <1>5, FS_CardinalityType

\* A search that is decided stays decided.
StaysDecided == answer' = "unresolved" => answer = "unresolved"

LEMMA ForestStays ==
    ASSUME UNCHANGED <<nodes, child>>
    PROVE  Forest' = Forest
BY DEF Forest

\* The books of a step that changes no region and moves no cursor.
LEMMA BooksStay ==
    ASSUME Books, StaysDecided, UNCHANGED <<feasible, reg, cursor, nextId, live>>,
           Forest' = Forest, nodes \subseteq nodes'
    PROVE  Books'
<1>1. Forest' = Forest
    OBVIOUS
<1>2. \A r : Propagated(r)' <=> Propagated(r)
    BY DEF Propagated
<1>3. \A r : Open(r)' = Open(r)
    BY <1>1, <1>2 DEF Open
<1>4. Tree'
    BY <1>1, <1>2 DEF Books, Tree
<1>5. Records'
    BY <1>1, <1>3 DEF Books, Records
<1>6. Failures' /\ Apart'
    BY <1>1 DEF Books, Failures, Apart
<1>7. Undecided'
    BY <1>1, <1>2, <1>3 DEF Books, Undecided, StaysDecided
<1>. QED BY <1>4, <1>5, <1>6, <1>7 DEF Books

\* The books when one region's record changes and no failure reaches a parent.
LEMMA BooksRegion ==
    ASSUME Shape, Books, StaysDecided, UNCHANGED <<feasible, nextId, live>>,
           Forest' = Forest, nodes \subseteq nodes',
           NEW r \in Forest, NEW d \in Regions, reg' = [reg EXCEPT ![r] = d],
           d.parent = reg[r].parent,
           \A c \in Forest : Propagated(c)' <=> Propagated(c),
           Failures',
           Sane(d, feasible), Counts(d, Open(r)), Exact(reg[r], Open(r)) => Exact(d, Open(r)),
           d.todo \subseteq reg[r].todo,
           d.todo \cap feasible = reg[r].todo \cap feasible,
           d.status = "infeasible" => reg[r].todo \cap feasible = {}
    PROVE  Books'
<1>1. r \in RegionId /\ reg'[r] = d /\ \A q \in RegionId \ {r} : reg'[q] = reg[q]
    BY ForestTyped DEF Shape
<1>2. \A q \in RegionId : reg'[q].parent = reg[q].parent
    BY <1>1
<1>3. \A q : Open(q)' = Open(q)
    BY <1>2, ForestTyped DEF Open
<1>4. Tree'
    <2>1. Root \in RegionId
        BY ForestBoundsAssumption DEF RegionId, Root
    <2>2. \A q \in RegionId \ Forest : reg'[q] = Blank
        BY <1>1 DEF Books, Tree
    <2>. QED BY <1>2, <2>1, <2>2, ForestTyped DEF Books, Tree
<1>5. Records'
    BY <1>1, <1>3, ForestTyped DEF Books, Records
<1>6. Apart'
    BY <1>1, ForestTyped DEF Books, Apart
<1>7. Undecided'
    <2>. SUFFICES ASSUME answer' = "unresolved" PROVE Undecided'
        BY DEF Undecided
    <2>1. answer = "unresolved"
        BY DEF StaysDecided
    <2>2. ~Propagated(Root)'
        BY <2>1, ForestTyped DEF Books, Undecided, Tree
    <2>3. \A q \in Forest : Exact(reg'[q], Open(q))
        BY <1>1, <2>1, ForestTyped DEF Books, Undecided
    <2>4. ASSUME NEW l \in feasible
          PROVE  \E q \in Forest : l \in reg'[q].todo /\ reg'[q].status # "infeasible"
        <3>1. PICK q \in Forest : l \in reg[q].todo /\ reg[q].status # "infeasible"
            BY <2>1 DEF Books, Undecided
        <3>2. CASE q = r
            BY <1>1, <3>1, <3>2
        <3>3. CASE q # r
            BY <1>1, <3>1, <3>3, ForestTyped
        <3>. QED BY <3>2, <3>3
    <2>. QED BY <1>3, <2>2, <2>3, <2>4 DEF Undecided
<1>. QED BY <1>4, <1>5, <1>6, <1>7 DEF Books

\* A record changes, but not whether or how the region was closed.
LEMMA StillClosed ==
    ASSUME Shape, Books, Forest' = Forest, cursor' = cursor,
           NEW r \in Forest, NEW d \in Regions, reg' = [reg EXCEPT ![r] = d],
           d.notified = reg[r].notified, reg[r].notified => d.status = reg[r].status
    PROVE  Failures' /\ \A c \in Forest : Propagated(c)' <=> Propagated(c)
<1>1. r \in RegionId /\ reg'[r] = d /\ \A q \in RegionId \ {r} : reg'[q] = reg[q]
    BY ForestTyped DEF Shape
<1>2. \A c \in Forest : /\ reg'[c].notified = reg[c].notified
                        /\ reg[c].notified => reg'[c].status = reg[c].status
    BY <1>1, ForestTyped
<1>3. Failures'
    BY <1>2 DEF Books, Failures
<1>4. \A c \in Forest : Propagated(c)' <=> Propagated(c)
    BY <1>2 DEF Propagated
<1>. QED BY <1>3, <1>4

\* What an agent may do to the record of a region that another agent is in.
Mild(d, e) ==
    /\ d.status = "infeasible" => e.status = "infeasible"
    /\ d.status = "feasible" => e.status = "feasible"
    /\ d.form = "deferred" => e.form = "deferred"
    /\ e.todo \subseteq d.todo
    /\ e.notified => d.notified \/ (d.form = "session" /\ d.status = "unresolved")

LEMMA FlightMoves ==
    ASSUME Shape, Records, Flight, StaysDecided, feasible' = feasible,
           NEW w,
           \A v \in Workers \ {w} : pc'[v] = pc[v] /\ at'[v] = at[v] /\ event'[v] = event[v],
           w \in Workers => InFlight(w)',
           \A v \in Workers \ {w} : pc[v] \in OwnerPlaces =>
                at[v] \in Forest' /\ Mild(reg[at[v]], reg'[at[v]]),
           \A r \in Forest' : reg'[r].status = "infeasible" /\ ~reg'[r].notified =>
                \/ /\ r \in Forest /\ reg[r].status = "infeasible" /\ ~reg[r].notified
                   /\ ~Failing(w, r)
                \/ w \in Workers /\ Failing(w, r)',
           answer' = "unresolved" => \A r \in Forest' : reg'[r].status = "feasible" =>
                \/ r \in Forest /\ reg[r].status = "feasible" /\ ~Winning(w, r)
                \/ w \in Workers /\ Winning(w, r)'
    PROVE  Flight'
<1>1. ASSUME NEW v \in Workers \ {w} PROVE InFlight(v)'
    <2>1. InFlight(v)
        BY DEF Flight
    <2>2. pc[v] \in OwnerPlaces => at[v] \in Forest
        BY <2>1 DEF InFlight
    <2>3. pc[v] = "settle" => pc[v] \in OwnerPlaces
        BY DEF OwnerPlaces
    <2>4. pc'[v] = "settle" /\ event'[v] = "infeasible" =>
            /\ reg'[at'[v]].status = "infeasible" \/ reg'[at'[v]].form = "deferred"
            /\ reg'[at'[v]].todo \cap feasible' = {}
        BY <2>1, <2>3 DEF InFlight, Mild
    <2>5. pc'[v] = "settle" /\ event'[v] = "feasible" =>
            /\ reg'[at'[v]].status = "feasible" \/ reg'[at'[v]].form = "deferred"
            /\ feasible' # {}
            /\ answer' = "unresolved" => ~reg'[at'[v]].notified
        <3>. SUFFICES ASSUME pc[v] = "settle", event[v] = "feasible"
                      PROVE  /\ reg'[at[v]].status = "feasible" \/ reg'[at[v]].form = "deferred"
                             /\ feasible # {}
                             /\ answer' = "unresolved" => ~reg'[at[v]].notified
            OBVIOUS
        <3>1. /\ reg[at[v]].status = "feasible" \/ reg[at[v]].form = "deferred"
              /\ feasible # {}
              /\ answer = "unresolved" => ~reg[at[v]].notified
            BY <2>1 DEF InFlight
        <3>2. Mild(reg[at[v]], reg'[at[v]])
            BY <2>3
        <3>. QED BY <3>1, <3>2 DEF Mild, StaysDecided
    <2>6. (pc'[v] = "announce" => feasible' # {}) /\ (pc'[v] = "publish" => event'[v] = "unresolved")
        BY <2>1 DEF InFlight
    <2>7. pc'[v] \in OwnerPlaces => at'[v] \in Forest'
        OBVIOUS
    <2>. QED BY <2>4, <2>5, <2>6, <2>7 DEF InFlight
<1>2. \A v \in Workers : InFlight(v)'
    BY <1>1
<1>3. ASSUME NEW r \in Forest', reg'[r].status = "infeasible", ~reg'[r].notified
      PROVE  \E v \in Workers : Failing(v, r)'
    <2>1. CASE w \in Workers /\ Failing(w, r)'
        BY <2>1
    <2>2. CASE /\ r \in Forest /\ reg[r].status = "infeasible" /\ ~reg[r].notified
               /\ ~Failing(w, r)
        <3>1. PICK v \in Workers : Failing(v, r)
            BY <2>2 DEF Flight
        <3>. QED BY <2>2, <3>1 DEF Failing
    <2>. QED BY <1>3, <2>1, <2>2
<1>4. ASSUME answer' = "unresolved", NEW r \in Forest', reg'[r].status = "feasible"
      PROVE  \E v \in Workers : Winning(v, r)'
    <2>1. CASE w \in Workers /\ Winning(w, r)'
        BY <2>1
    <2>2. CASE r \in Forest /\ reg[r].status = "feasible" /\ ~Winning(w, r)
        <3>1. PICK v \in Workers : Winning(v, r)
            BY <1>4, <2>2 DEF Flight, StaysDecided
        <3>. QED BY <2>2, <3>1 DEF Winning
    <2>. QED BY <1>4, <2>1, <2>2
<1>. QED BY <1>2, <1>3, <1>4 DEF Flight

\* The same when no record changes and w was not to publish anything.
LEMMA FlightPasses ==
    ASSUME Shape, Records, Flight, StaysDecided, UNCHANGED <<feasible, reg>>, Forest' = Forest,
           NEW w,
           \A v \in Workers \ {w} : pc'[v] = pc[v] /\ at'[v] = at[v] /\ event'[v] = event[v],
           w \in Workers => InFlight(w)',
           \A r : ~Failing(w, r),
           answer' = "unresolved" => \A r : ~Winning(w, r)
    PROVE  Flight'
<1>1. \A v \in Workers \ {w} : pc[v] \in OwnerPlaces =>
            at[v] \in Forest' /\ Mild(reg[at[v]], reg'[at[v]])
    BY DEF Flight, InFlight, Mild
<1>. QED BY <1>1, FlightMoves

\* The same when w serves the region it is in: nobody else is there.
LEMMA FlightServes ==
    ASSUME Shape, Records, Owners, Flight, StaysDecided, feasible' = feasible,
           NEW w \in Workers, pc[w] = "serve", pc'[w] \in {"settle", "publish"}, at' = at,
           \A v \in Workers \ {w} : pc'[v] = pc[v] /\ event'[v] = event[v],
           Forest \subseteq Forest',
           \A q \in Forest : q # at[w] => reg'[q] = reg[q],
           \A q \in Forest' \ Forest : reg'[q].status = "unresolved",
           InFlight(w)',
           reg'[at[w]].status = "infeasible" /\ ~reg'[at[w]].notified => Failing(w, at[w])',
           reg'[at[w]].status = "feasible" =>
                \/ Winning(w, at[w])'
                \/ reg[at[w]].status = "feasible"
    PROVE  Flight'
<1>1. \A v \in Workers \ {w} : pc[v] \in OwnerPlaces =>
            at[v] \in Forest' /\ Mild(reg[at[v]], reg'[at[v]])
    <2>. SUFFICES ASSUME NEW v \in Workers \ {w}, pc[v] \in OwnerPlaces
                  PROVE  at[v] \in Forest' /\ Mild(reg[at[v]], reg'[at[v]])
        OBVIOUS
    <2>1. at[v] \in Forest
        BY DEF Flight, InFlight
    <2>2. at[v] # at[w]
        BY DEF Owners, Owner, OwnerPlaces
    <2>. QED BY <2>1, <2>2 DEF Mild
<1>2. \A q : ~Failing(w, q) /\ ~Winning(w, q)
    BY DEF Failing, Winning
<1>. QED BY <1>1, <1>2, FlightMoves

\* The queues of a step of a worker.
LEMMA QueuesRun ==
    ASSUME Queues, EpochsQuiet, UNCHANGED <<epochActive, cpc>>,
           NEW w \in Workers, pc[w] # "out" \/ epochActive,
           \A v \in Workers \ {w} : pc'[v] = pc[v] /\ at'[v] = at[v],
           \A r \in active' : \/ r \in active /\ ~(pc[w] \in Owner /\ at[w] = r)
                              \/ pc'[w] \in Owner /\ at'[w] = r
    PROVE  Queues'
<1>1. epochActive
    BY DEF EpochsQuiet, Quiet
<1>2. \A r \in active' : \E v \in Workers : pc'[v] \in Owner /\ at'[v] = r
    BY DEF Queues
<1>. QED BY <1>1, <1>2 DEF Queues

-----------------------------------------------------------------------------
\* The steps of a worker between two services.

LEMMA WorkerPasses ==
    ASSUME IInv, Accounts, NEW w \in Workers, pc[w] # "out" \/ epochActive,
           UNCHANGED <<feasible, nodes, reg, child, cursor, nextId, live, answer, epochActive, cpc>>,
           \A a \in Agents \ {w} : pc'[a] = pc[a],
           \A v \in Workers \ {w} : at'[v] = at[v] /\ event'[v] = event[v],
           pc[w] \notin {"publish", "notify", "parent", "announce"},
           pc[w] = "settle" => event[w] \in {"unresolved", "replay"},
           pc'[w] \notin OwnerPlaces \/ (pc'[w] = "serve" /\ at'[w] \in Forest),
           \A r \in active' : \/ r \in active /\ ~(pc[w] \in Owner /\ at[w] = r)
                              \/ pc'[w] \in Owner /\ at'[w] = r
    PROVE  Accounts'
<1>0. w # Controller /\ w \in Agents /\ Controller \in Agents /\ Workers \subseteq Agents
    BY WorkersAssumption DEF Agents
<1>1. Hands'
    <2>1. cursor[w] = None /\ child[w] = None
        BY <1>0 DEF Accounts, Hands
    <2>. QED BY <1>0, <2>1 DEF Accounts, Hands
<1>2. Books'
    BY ForestStays, BooksStay DEF Accounts, StaysDecided
<1>3. Flight'
    <2>1. InFlight(w)'
        BY ForestStays DEF InFlight, OwnerPlaces
    <2>2. \A r : ~Failing(w, r) /\ ~Winning(w, r)
        BY DEF Failing, Winning
    <2>. QED BY <1>0, <2>1, <2>2, ForestStays, FlightPasses DEF Accounts, Books, IInv, StaysDecided
<1>4. AnswerSound'
    BY DEF Accounts, AnswerSound
<1>5. Queues'
    BY <1>0, QueuesRun DEF Accounts, IInv
<1>. QED BY <1>1, <1>2, <1>3, <1>4, <1>5 DEF Accounts

\* A region that is accepted is in the forest: the others have blank records.
LEMMA AcceptedKnown ==
    ASSUME IInv, Accounts, NEW w \in Workers, Accepted(w)
    PROVE  at[w] \in Forest
<1>1. at[w] \in RegionId
    BY DEF IInv, Located, Loose, Accepted
<1>2. Blank.notified
    BY DEF Blank, Node
<1>. QED BY <1>1, <1>2 DEF Accepted, Accounts, Books, Tree

LEMMA PassesKeep ==
    ASSUME IInv, Accounts, UNCHANGED choice, NEW w \in Workers,
           \/ LeaseBegins(w) \/ LeaseEnds(w) \/ Pop(w) \/ Unmark(w)
           \/ Activate(w) \/ ActivateFails(w) \/ Rejects(w)
           \/ ClaimsCredit(w) \/ FindsNoCredit(w)
           \/ GivesUp(w) \/ Reruns(w) \/ Releases(w)
    PROVE  Accounts'
<1>. USE DEF IInv, Shape, flagVars, epochVars, localVars, choice, Agents
<1>1. CASE LeaseBegins(w)
    <2>. USE <1>1 DEF LeaseBegins
    <2>. QED BY WorkerPasses DEF OwnerPlaces, Owner
<1>2. CASE LeaseEnds(w)
    <2>. USE <1>2 DEF LeaseEnds
    <2>. QED BY WorkerPasses DEF OwnerPlaces, Owner
<1>3. CASE Pop(w)
    <2>. USE <1>3 DEF Pop
    <2>. QED BY WorkerPasses DEF OwnerPlaces, Owner
<1>4. CASE Unmark(w)
    <2>. USE <1>4 DEF Unmark
    <2>. QED BY WorkerPasses DEF OwnerPlaces, Owner
<1>5. CASE Activate(w)
    <2>. USE <1>5 DEF Activate
    <2>. QED BY WorkerPasses DEF OwnerPlaces, Owner
<1>6. CASE ActivateFails(w)
    <2>. USE <1>6 DEF ActivateFails
    <2>. QED BY WorkerPasses DEF OwnerPlaces, Owner
<1>7. CASE Rejects(w)
    <2>. USE <1>7 DEF Rejects
    <2>. QED BY WorkerPasses DEF OwnerPlaces, Owner
<1>8. CASE ClaimsCredit(w)
    <2>1. at[w] \in Forest
        BY <1>8, AcceptedKnown DEF ClaimsCredit
    <2>. USE <1>8 DEF ClaimsCredit, Accepted
    <2>. QED BY <2>1, WorkerPasses DEF OwnerPlaces, Owner
<1>9. CASE FindsNoCredit(w)
    <2>. USE <1>9 DEF FindsNoCredit, Accepted
    <2>. QED BY WorkerPasses DEF OwnerPlaces, Owner
<1>10. CASE GivesUp(w)
    <2>. USE <1>10 DEF GivesUp
    <2>. QED BY WorkerPasses DEF OwnerPlaces, Owner
<1>11. CASE Reruns(w)
    <2>. USE <1>11 DEF Reruns
    <2>. QED BY WorkerPasses DEF OwnerPlaces, Owner
<1>12. CASE Releases(w)
    <2>. USE <1>12 DEF Releases
    <2>. QED BY WorkerPasses DEF OwnerPlaces, Owner
<1>. QED BY <1>1, <1>2, <1>3, <1>4, <1>5, <1>6, <1>7, <1>8, <1>9, <1>10, <1>11, <1>12

-----------------------------------------------------------------------------
\* The service of a region.

LEMMA ServesKeep ==
    ASSUME IInv, Accounts, NEW w \in Workers, pc[w] = "serve", pc'[w] = "settle",
           UNCHANGED <<feasible, nodes, active, child, cursor, nextId, live, answer,
                       epochActive, cpc, at>>,
           \A a \in Agents \ {w} : pc'[a] = pc[a],
           \A v \in Workers \ {w} : event'[v] = event[v],
           NEW d \in Regions, reg' = [reg EXCEPT ![at[w]] = d],
           d.parent = reg[at[w]].parent,
           d.notified = reg[at[w]].notified,
           reg[at[w]].notified => d.status = reg[at[w]].status,
           Sane(d, feasible), Counts(d, Open(at[w])),
           Exact(reg[at[w]], Open(at[w])) => Exact(d, Open(at[w])),
           d.todo \subseteq reg[at[w]].todo,
           d.todo \cap feasible = reg[at[w]].todo \cap feasible,
           d.status = "infeasible" /\ ~d.notified => event'[w] = "infeasible",
           d.status = "feasible" => event'[w] = "feasible" \/ reg[at[w]].status = "feasible",
           event'[w] = "infeasible" =>
                /\ d.status = "infeasible" \/ d.form = "deferred"
                /\ d.todo \cap feasible = {},
           event'[w] = "feasible" =>
                /\ d.status = "feasible" \/ d.form = "deferred"
                /\ feasible # {}
                /\ answer = "unresolved" => ~d.notified
    PROVE  Accounts'
<1>0. w # Controller /\ w \in Agents /\ Controller \in Agents /\ Workers \subseteq Agents
    BY WorkersAssumption DEF Agents
<1>1. at[w] \in Forest /\ at[w] \in RegionId
    <2>1. at[w] \in Forest
        BY DEF Accounts, Flight, InFlight, OwnerPlaces
    <2>. QED BY <2>1, ForestTyped DEF IInv
<1>2. Forest' = Forest
    BY DEF Forest
<1>3. reg'[at[w]] = d /\ \A q \in RegionId \ {at[w]} : reg'[q] = reg[q]
    BY <1>1 DEF IInv, Shape
<1>4. Hands'
    <2>1. cursor[w] = None /\ child[w] = None
        BY <1>0 DEF Accounts, Hands
    <2>. QED BY <1>0, <2>1 DEF Accounts, Hands
<1>5. Books'
    <2>1. Failures' /\ \A c \in Forest : Propagated(c)' <=> Propagated(c)
        BY <1>1, <1>2, StillClosed DEF Accounts, IInv
    <2>2. d.status = "infeasible" => reg[at[w]].todo \cap feasible = {}
        BY DEF Sane
    <2>. QED BY <1>1, <1>2, <2>1, <2>2, BooksRegion DEF Accounts, IInv, StaysDecided
<1>6. Flight'
    <2>1. InFlight(w)'
        BY <1>1, <1>2, <1>3 DEF InFlight
    <2>2. reg'[at[w]].status = "infeasible" /\ ~reg'[at[w]].notified => Failing(w, at[w])'
        BY <1>3 DEF Failing
    <2>3. reg'[at[w]].status = "feasible" =>
                Winning(w, at[w])' \/ reg[at[w]].status = "feasible"
        BY <1>3 DEF Winning
    <2>4. \A q \in Forest : q # at[w] => reg'[q] = reg[q]
        BY <1>3, ForestTyped DEF IInv
    <2>5. \A v \in Workers \ {w} : pc'[v] = pc[v] /\ event'[v] = event[v]
        BY <1>0
    <2>6. Forest \subseteq Forest' /\ \A q \in Forest' \ Forest : reg'[q].status = "unresolved"
        BY <1>2
    <2>. QED BY <2>1, <2>2, <2>3, <2>4, <2>5, <2>6, FlightServes
            DEF Accounts, Books, IInv, StaysDecided
<1>7. AnswerSound'
    BY DEF Accounts, AnswerSound
<1>8. Queues'
    BY <1>0, QueuesRun DEF Accounts, IInv, Owner, OwnerPlaces
<1>. QED BY <1>4, <1>5, <1>6, <1>7, <1>8 DEF Accounts

\* What is known of the region a worker is about to serve.
LEMMA Serving ==
    ASSUME IInv, Accounts, NEW w \in Workers, pc[w] = "serve"
    PROVE  /\ at[w] \in Forest /\ at[w] \in RegionId /\ reg[at[w]] \in Regions
           /\ Sane(reg[at[w]], feasible) /\ Counts(reg[at[w]], Open(at[w]))
           /\ IsFiniteSet(Open(at[w])) /\ Cardinality(Open(at[w])) \in Nat
           /\ reg[at[w]].status = "feasible" => answer # "unresolved"
<1>1. at[w] \in Forest
    BY DEF Accounts, Flight, InFlight, OwnerPlaces
<1>2. at[w] \in RegionId /\ reg[at[w]] \in Regions
    BY <1>1, ForestTyped DEF IInv, Shape
<1>3. Sane(reg[at[w]], feasible) /\ Counts(reg[at[w]], Open(at[w]))
    BY <1>1 DEF Accounts, Books, Records
<1>4. reg[at[w]].status = "feasible" => answer # "unresolved"
    <2>. SUFFICES ASSUME reg[at[w]].status = "feasible", answer = "unresolved" PROVE FALSE
        OBVIOUS
    <2>1. PICK v \in Workers : Winning(v, at[w])
        BY <1>1 DEF Accounts, Flight
    <2>2. v # w /\ pc[v] \in Owner /\ pc[w] \in Owner /\ at[v] = at[w]
        BY <2>1 DEF Winning, Owner, OwnerPlaces
    <2>. QED BY <2>2 DEF IInv, Owners
<1>5. IsFiniteSet(Open(at[w])) /\ Cardinality(Open(at[w])) \in Nat
    BY ForestTyped DEF IInv
<1>. QED BY <1>1, <1>2, <1>3, <1>4, <1>5

\* A region that can be searched is open, and its own search is not over.
LEMMA Searchable ==
    ASSUME NEW r \in RegionId, reg[r] \in Regions, Sane(reg[r], feasible), Runnable(r)
    PROVE  /\ reg[r].status = "unresolved" /\ ~reg[r].notified /\ ~reg[r].localDone
           /\ reg[r].unfinished \in Nat /\ reg[r].unfinished > 0
           /\ reg[r].todo \in SUBSET Leaves
BY DEF Runnable, Unresolved, Waiting, Sane, Regions

LEMMA ServeNothingCounts ==
    ASSUME IInv, Accounts, UNCHANGED choice, NEW w \in Workers, ServeNothing(w)
    PROVE  Accounts'
<1>. DEFINE r == at[w]
            d == [reg[r] EXCEPT !.started = TRUE]
<1>0. pc[w] = "serve" /\ reg' = [reg EXCEPT ![r] = d]
    BY DEF ServeNothing
<1>1. reg[r] \in Regions /\ d \in Regions
    BY <1>0, Serving, UpdatesTyped
<1>2. /\ d.parent = reg[r].parent /\ d.notified = reg[r].notified /\ d.status = reg[r].status
      /\ d.form = reg[r].form /\ d.unfinished = reg[r].unfinished
      /\ d.localDone = reg[r].localDone /\ d.todo = reg[r].todo
    BY <1>1 DEF Regions
<1>3. Sane(d, feasible) /\ Counts(d, Open(r)) /\ (Exact(reg[r], Open(r)) => Exact(d, Open(r)))
    BY <1>0, <1>2, Serving DEF Sane, Counts, Exact, Own
<1>4. event'[w] = reg[r].status /\ pc'[w] = "settle"
      /\ (\A a \in Agents \ {w} : pc'[a] = pc[a])
      /\ \A v \in Workers \ {w} : event'[v] = event[v]
    BY DEF ServeNothing, Served, IInv, Shape, Agents
<1>5. UNCHANGED <<feasible, nodes, active, child, cursor, nextId, live, answer,
                  epochActive, cpc, at>>
    BY DEF ServeNothing, Served, choice, flagVars
<1>6. event'[w] = "infeasible" => d.status = "infeasible" /\ d.todo \cap feasible = {}
    BY <1>2, <1>3, <1>4 DEF Sane
<1>7. event'[w] = "feasible" =>
            d.status = "feasible" /\ feasible # {} /\ (answer = "unresolved" => ~d.notified)
    BY <1>0, <1>2, <1>3, <1>4, Serving DEF Sane
<1>. HIDE DEF d
<1>. QED BY <1>0, <1>1, <1>2, <1>3, <1>4, <1>5, <1>6, <1>7, ServesKeep

LEMMA ServeFindsWitnessCounts ==
    ASSUME IInv, Accounts, UNCHANGED choice, NEW w \in Workers, ServeFindsWitness(w)
    PROVE  Accounts'
<1>. DEFINE r == at[w]
            d == [reg[r] EXCEPT !.form = "session", !.started = TRUE, !.status = "feasible"]
<1>0. pc[w] = "serve" /\ Runnable(r) /\ reg' = [reg EXCEPT ![r] = d] /\ feasible # {}
    BY DEF ServeFindsWitness, CanSearch
<1>1. r \in RegionId /\ reg[r] \in Regions /\ d \in Regions
    BY <1>0, Serving, UpdatesTyped
<1>2. /\ d.parent = reg[r].parent /\ d.notified = reg[r].notified /\ d.status = "feasible"
      /\ d.form = "session" /\ d.unfinished = reg[r].unfinished
      /\ d.localDone = reg[r].localDone /\ d.todo = reg[r].todo
    BY <1>1 DEF Regions
<1>3. reg[r].status = "unresolved" /\ ~reg[r].notified /\ ~reg[r].localDone
    BY <1>0, <1>1, Serving, Searchable
<1>4. Sane(d, feasible) /\ Counts(d, Open(r)) /\ Exact(d, Open(r))
    BY <1>0, <1>2, <1>3, Serving DEF Sane, Counts, Exact
<1>5. event'[w] = "feasible" /\ pc'[w] = "settle"
      /\ (\A a \in Agents \ {w} : pc'[a] = pc[a])
      /\ \A v \in Workers \ {w} : event'[v] = event[v]
    BY DEF ServeFindsWitness, Served, IInv, Shape, Agents
<1>6. UNCHANGED <<feasible, nodes, active, child, cursor, nextId, live, answer,
                  epochActive, cpc, at>>
    BY DEF ServeFindsWitness, Served, choice, flagVars
<1>. HIDE DEF d
<1>. QED BY <1>0, <1>1, <1>2, <1>3, <1>4, <1>5, <1>6, ServesKeep

LEMMA ServeCompletesCounts ==
    ASSUME IInv, Accounts, UNCHANGED choice, NEW w \in Workers, ServeCompletes(w)
    PROVE  Accounts'
<1>. DEFINE r == at[w]
            d == Completes(r, reg[r].todo)
<1>0. /\ pc[w] = "serve" /\ Runnable(r) /\ reg' = [reg EXCEPT ![r] = d]
      /\ reg[r].todo \cap feasible = {}
    BY DEF ServeCompletes, CanSearch
<1>1. r \in RegionId /\ reg[r] \in Regions /\ d \in Regions
    BY <1>0, Serving, ServedTyped DEF IInv
<1>2. /\ reg[r].status = "unresolved" /\ ~reg[r].notified /\ ~reg[r].localDone
      /\ reg[r].unfinished \in Nat /\ reg[r].unfinished > 0
    BY <1>0, <1>1, Serving, Searchable
<1>3. /\ d.parent = reg[r].parent /\ d.notified = reg[r].notified
      /\ d.form = "session" /\ d.unfinished = reg[r].unfinished - 1 /\ d.todo = {}
      /\ d.localDone <=> reg[r].unfinished # 1
      /\ d.status = IF reg[r].unfinished = 1 THEN "infeasible" ELSE reg[r].status
    BY ZenonT(60), <1>1 DEF Completes, Regions
<1>. HIDE DEF d
<1>4. /\ d.unfinished \in Nat
      /\ reg[r].unfinished = 1 => d.status = "infeasible"
      /\ reg[r].unfinished # 1 => d.localDone /\ d.status = "unresolved" /\ d.unfinished > 0
    BY <1>2, <1>3
<1>5. Sane(d, feasible)
    BY <1>2, <1>3, <1>4 DEF Sane
<1>6. Counts(d, Open(r)) /\ (Exact(reg[r], Open(r)) => Exact(d, Open(r)))
    <2>1. reg[r].unfinished >= 1 + Cardinality(Open(r))
        BY <1>0, <1>2, Serving DEF Counts, Own
    <2>2. CASE reg[r].unfinished = 1
        <3>1. Open(r) = {}
            BY <1>0, <2>1, <2>2, Serving, FS_EmptySet
        <3>. QED BY <1>3, <2>2, <3>1 DEF Counts, Exact
    <2>3. CASE reg[r].unfinished # 1
        <3>1. Own(d) = 0 /\ Own(reg[r]) = 1
            BY <1>2, <1>4, <2>3 DEF Own
        <3>2. Cardinality(Open(r)) \in Nat
            BY <1>0, Serving
        <3>. QED BY <1>2, <1>3, <1>4, <2>1, <2>3, <3>1, <3>2 DEF Counts, Exact
    <2>. QED BY <2>2, <2>3
<1>7. event'[w] = d.status /\ pc'[w] = "settle"
      /\ (\A a \in Agents \ {w} : pc'[a] = pc[a])
      /\ \A v \in Workers \ {w} : event'[v] = event[v]
    BY <1>0, <1>1 DEF ServeCompletes, Served, IInv, Shape, Agents
<1>8. UNCHANGED <<feasible, nodes, active, child, cursor, nextId, live, answer,
                  epochActive, cpc, at>>
    BY DEF ServeCompletes, Served, choice, flagVars
<1>9. d.status # "feasible"
    BY <1>2, <1>3
<1>. QED BY <1>0, <1>1, <1>2, <1>3, <1>5, <1>6, <1>7, <1>8, <1>9, ServesKeep

LEMMA ServeYieldsCounts ==
    ASSUME IInv, Accounts, UNCHANGED choice, NEW w \in Workers, ServeYields(w)
    PROVE  Accounts'
<1>. DEFINE r == at[w]
<1>0. pc[w] = "serve" /\ Runnable(r)
    BY DEF ServeYields, CanSearch
<1>1. PICK E \in SUBSET (reg[r].todo \ feasible) : reg' = [reg EXCEPT ![r] = Advances(r, E)]
    BY DEF ServeYields
<1>. DEFINE d == Advances(r, E)
<1>2. r \in RegionId /\ reg[r] \in Regions /\ d \in Regions
    BY <1>0, Serving, ServedTyped DEF IInv
<1>3. /\ reg[r].status = "unresolved" /\ ~reg[r].notified /\ ~reg[r].localDone
      /\ reg[r].unfinished \in Nat /\ reg[r].unfinished > 0
    BY <1>0, <1>2, Serving, Searchable
<1>4. /\ d.parent = reg[r].parent /\ d.notified = reg[r].notified /\ d.status = reg[r].status
      /\ d.form = "session" /\ d.unfinished = reg[r].unfinished /\ d.todo = reg[r].todo \ E
      /\ d.localDone = reg[r].localDone
    BY <1>2 DEF Advances, Regions
<1>5. /\ Sane(d, feasible) /\ Counts(d, Open(r))
      /\ Exact(reg[r], Open(r)) => Exact(d, Open(r))
    BY <1>0, <1>3, <1>4, Serving DEF Sane, Counts, Exact, Own
<1>6. event'[w] = "unresolved" /\ pc'[w] = "settle"
      /\ (\A a \in Agents \ {w} : pc'[a] = pc[a])
      /\ \A v \in Workers \ {w} : event'[v] = event[v]
    BY DEF ServeYields, Served, IInv, Shape, Agents
<1>7. UNCHANGED <<feasible, nodes, active, child, cursor, nextId, live, answer,
                  epochActive, cpc, at>>
    BY DEF ServeYields, Served, choice, flagVars
<1>8. d.todo \subseteq reg[r].todo /\ d.todo \cap feasible = reg[r].todo \cap feasible
    BY <1>4
<1>. HIDE DEF d
<1>. QED BY <1>0, <1>1, <1>2, <1>3, <1>4, <1>5, <1>6, <1>7, <1>8, ServesKeep DEF d

LEMMA ServeRecursivelyCounts ==
    ASSUME IInv, Accounts, UNCHANGED choice, NEW w \in Workers, ServeRecursively(w)
    PROVE  Accounts'
<1>. DEFINE r == at[w]
<1>0. pc[w] = "serve" /\ reg[r].form = "deferred"
    BY DEF ServeRecursively
<1>1. r \in RegionId /\ reg[r] \in Regions
    BY <1>0, Serving
<1>2. reg[r].status = "unresolved" /\ ~reg[r].notified
    BY <1>0, Serving DEF Sane
<1>3. reg = [reg EXCEPT ![r] = reg[r]]
    BY <1>1 DEF IInv, Shape
<1>4. [reg EXCEPT ![r].form = "session"] = [reg EXCEPT ![r] = [reg[r] EXCEPT !.form = "session"]]
    OBVIOUS
<1>5. PICK d \in {reg[r], [reg[r] EXCEPT !.form = "session"]} :
        /\ reg' = [reg EXCEPT ![r] = d]
        /\ \/ event'[w] = "feasible" /\ feasible # {} /\ d = reg[r]
           \/ event'[w] = "infeasible" /\ reg[r].todo \cap feasible = {} /\ d = reg[r]
           \/ event'[w] = "replay"
    BY <1>3, <1>4 DEF ServeRecursively, Served, IInv, Shape
<1>6. d \in Regions
    BY <1>1, UpdatesTyped
<1>7. /\ d.parent = reg[r].parent /\ d.notified = reg[r].notified /\ d.status = reg[r].status
      /\ d.unfinished = reg[r].unfinished /\ d.todo = reg[r].todo
      /\ d.localDone = reg[r].localDone /\ d.form \in {"deferred", "session"}
    BY <1>0, <1>1 DEF Regions
<1>8. /\ Sane(d, feasible) /\ Counts(d, Open(r))
      /\ Exact(reg[r], Open(r)) => Exact(d, Open(r))
    BY <1>0, <1>7, Serving DEF Sane, Counts, Exact, Own
<1>9. pc'[w] = "settle"
      /\ (\A a \in Agents \ {w} : pc'[a] = pc[a])
      /\ \A v \in Workers \ {w} : event'[v] = event[v]
    BY DEF ServeRecursively, Served, IInv, Shape, Agents
<1>10. UNCHANGED <<feasible, nodes, active, child, cursor, nextId, live, answer,
                   epochActive, cpc, at>>
    BY DEF ServeRecursively, Served, choice, flagVars
<1>. QED BY <1>0, <1>1, <1>2, <1>5, <1>6, <1>7, <1>8, <1>9, <1>10, ServesKeep

\* The books when region r donates subproblems to a new region.
LEMMA BooksDonate ==
    ASSUME Shape, Books, StaysDecided, UNCHANGED <<feasible, cursor>>,
           NEW n \in RegionId, n = nextId, nextId' = n + 1, live' = live + 1,
           Forest' = Forest \cup {n}, nodes \subseteq nodes',
           NEW r \in Forest, NEW d \in Regions, NEW e \in Regions,
           reg'[r] = d, reg'[n] = e, \A q \in RegionId \ {r, n} : reg'[q] = reg[q],
           reg[r].status = "unresolved", ~reg[r].notified, ~reg[r].localDone,
           d.parent = reg[r].parent, d.status = "unresolved", ~d.notified, ~d.localDone,
           d.form = "session", d.unfinished = reg[r].unfinished + 1,
           e.parent = r, e.status = "unresolved", ~e.notified, ~e.localDone,
           e.form \in {"session", "deferred"}, e.unfinished = 1,
           d.todo \cup e.todo \subseteq reg[r].todo,
           reg[r].todo \cap feasible \subseteq d.todo \cup e.todo,
           d.todo \cap e.todo = {}
    PROVE  Books'
<1>1. n \in RegionId /\ n \notin Forest /\ r # n /\ r \in RegionId /\ n \in Nat
    BY ForestTyped DEF Shape, Books, Tree, RegionId
<1>2. reg'[r] = d /\ reg'[n] = e /\ \A q \in RegionId \ {r, n} : reg'[q] = reg[q]
    OBVIOUS
<1>3. Forest' = Forest \cup {n} /\ Forest \in SUBSET RegionId
    BY ForestTyped
<1>4. reg'[r] = d /\ reg'[n] = e /\ \A q \in Forest \ {r} : reg'[q] = reg[q]
    BY <1>1, <1>2, <1>3
<1>41. ~Propagated(n)' /\ ~Propagated(r)' /\ ~Propagated(r)
    BY <1>4 DEF Propagated
<1>42. \A q \in Forest \ {r} : Propagated(q)' <=> Propagated(q)
    BY <1>4 DEF Propagated
<1>43. \A q \in Forest : Propagated(q)' <=> Propagated(q)
    BY <1>41, <1>42
<1>5. \A c \in Forest : reg'[c].parent = reg[c].parent
    BY <1>4
<1>6. Open(r)' = Open(r) \cup {n}
    BY <1>1, <1>3, <1>4, <1>41, <1>43, <1>5 DEF Open
<1>7. Open(n)' = {}
    <2>1. ASSUME NEW c \in Forest, reg[c].parent = n PROVE FALSE
        <3>1. CASE c = Root
            BY <1>1, <2>1, <3>1 DEF Books, Tree, RegionId, None
        <3>2. CASE c # Root
            <4>1. c \in RegionId
                BY <1>3
            <4>2. n < c /\ c < n /\ c \in Nat
                BY <2>1, <3>2, <4>1 DEF Books, Tree, RegionId
            <4>. QED BY <1>1, <4>2
        <3>. QED BY <3>1, <3>2
    <2>2. ASSUME NEW c \in Open(n)' PROVE FALSE
        <3>1. c \in Forest' /\ reg'[c].parent = n
            BY <2>2 DEF Open
        <3>2. c # n
            BY <1>1, <1>4, <3>1
        <3>. QED BY <1>3, <1>5, <2>1, <3>1, <3>2
    <2>. QED BY <2>2
<1>8. ASSUME NEW q \in Forest \ {r} PROVE Open(q)' = Open(q)
    <2>1. q # r
        OBVIOUS
    <2>2. \A c \in Forest : c \in Open(q)' <=> c \in Open(q)
        BY <1>3, <1>43, <1>5 DEF Open
    <2>3. n \notin Open(q)'
        BY <1>4, <2>1 DEF Open
    <2>4. Open(q)' \subseteq Forest \cup {n} /\ Open(q) \subseteq Forest
        BY <1>3 DEF Open
    <2>5. \A c : c \in Open(q)' => c \in Forest
        BY <2>3, <2>4
    <2>. QED BY <2>2, <2>4, <2>5
<1>9. Cardinality(Open(r)') = Cardinality(Open(r)) + 1
    <2>1. n \notin Open(r)
        BY <1>1 DEF Open
    <2>2. Cardinality(Open(r) \cup {n}) = Cardinality(Open(r)) + 1
        BY ZenonT(60), <2>1, ForestTyped, OneMore
    <2>. QED BY <1>6, <2>2
<1>10. Cardinality({}) = 0
    BY FS_EmptySet
<1>11. Tree'
    <2>1. Root \in nodes' /\ reg'[Root].parent = None
        <3>1. Root \in Forest
            BY ForestTyped DEF Books, Tree
        <3>. QED BY <1>5, <3>1 DEF Books, Tree
    <2>2. \A q \in Forest' : q < nextId'
        BY <1>1, <1>3 DEF Books, Tree, RegionId
    <2>3. \A q \in Forest' \ {Root} : reg'[q].parent \in RegionId /\ reg'[q].parent < q
        <3>1. r < n
            BY DEF Books, Tree
        <3>. QED BY <1>1, <1>2, <1>3, <1>5, <3>1 DEF Books, Tree
    <2>4. \A q \in Forest' \ {Root} : ~Propagated(q)' => reg'[q].parent \in Forest'
        BY <1>1, <1>3, <1>4, <1>43, <1>5 DEF Books, Tree
    <2>5. \A q \in RegionId \ Forest' : reg'[q] = Blank
        BY <1>1, <1>2, <1>3 DEF Books, Tree
    <2>6. live' = Cardinality(Forest')
        <3>1. Cardinality(Forest \cup {n}) = Cardinality(Forest) + 1
            BY <1>1, ForestTyped, OneMore
        <3>. QED BY <1>3, <3>1 DEF Books, Tree
    <2>. QED BY <2>1, <2>2, <2>3, <2>4, <2>5, <2>6 DEF Tree
<1>12. \A q \in Forest' : Sane(reg'[q], feasible') /\ Counts(reg'[q], Open(q)')
    <2>1. Sane(d, feasible) /\ Sane(e, feasible)
        BY DEF Books, Records, Sane
    <2>2. Counts(d, Open(r)')
        <3>1. reg[r].unfinished >= Own(reg[r]) + Cardinality(Open(r)) /\ reg[r].unfinished \in Nat
            BY DEF Books, Records, Counts, Sane
        <3>2. Own(d) = 1 /\ Own(reg[r]) = 1
            BY DEF Own
        <3>. QED BY <1>9, <3>1, <3>2, ForestTyped DEF Counts
    <2>3. Counts(e, Open(n)')
        BY <1>7, <1>10 DEF Counts, Own
    <2>4. \A q \in Forest \ {r} : Sane(reg'[q], feasible) /\ Counts(reg'[q], Open(q)')
        BY <1>4, <1>8 DEF Books, Records
    <2>. QED BY <1>3, <1>4, <2>1, <2>2, <2>3, <2>4
<1>13. Failures'
    BY <1>1, <1>2, <1>3 DEF Books, Failures
<1>14. Apart'
    <2>1. \A q \in Forest \ {r} :
            reg'[q] = reg[q] /\ reg[q].todo \cap reg[r].todo \cap feasible = {}
        BY <1>1, <1>2, <1>3 DEF Books, Apart
    <2>2. \A q \in Forest \ {r} : /\ reg'[q].todo \cap d.todo \cap feasible = {}
                                  /\ reg'[q].todo \cap e.todo \cap feasible = {}
        BY <2>1
    <2>3. ASSUME NEW p \in Forest', NEW q \in Forest', p # q
          PROVE  reg'[p].todo \cap reg'[q].todo \cap feasible = {}
        <3>1. CASE p \in Forest \ {r} /\ q \in Forest \ {r}
            BY <2>1, <2>3, <3>1 DEF Books, Apart
        <3>2. CASE p \in {r, n} /\ q \in {r, n}
            BY <1>2, <2>3, <3>2
        <3>3. CASE p \in Forest \ {r} /\ q \in {r, n}
            BY <1>2, <2>2, <3>3
        <3>4. CASE q \in Forest \ {r} /\ p \in {r, n}
            BY <1>2, <2>2, <3>4
        <3>. QED BY <1>3, <3>1, <3>2, <3>3, <3>4
    <2>. QED BY <2>3 DEF Apart
<1>15. Undecided'
    <2>. SUFFICES ASSUME answer' = "unresolved" PROVE Undecided'
        BY DEF Undecided
    <2>0. answer = "unresolved" /\ Root \in Forest
        BY ForestTyped DEF StaysDecided, Books, Tree
    <2>1. ~Propagated(Root)'
        BY <1>43, <2>0 DEF Books, Undecided
    <2>2. \A q \in Forest' : Exact(reg'[q], Open(q)')
        <3>1. Exact(d, Open(r)')
            <4>1. reg[r].unfinished = Own(reg[r]) + Cardinality(Open(r)) /\ Own(reg[r]) = 1
                BY <2>0 DEF Books, Undecided, Exact, Own
            <4>2. Own(d) = 1
                BY DEF Own
            <4>. QED BY <1>9, <4>1, <4>2, ForestTyped DEF Exact
        <3>2. Exact(e, Open(n)')
            BY <1>7, <1>10 DEF Exact, Own
        <3>3. \A q \in Forest \ {r} : Exact(reg'[q], Open(q)')
            BY <1>4, <1>8, <2>0 DEF Books, Undecided
        <3>. QED BY <1>3, <1>4, <3>1, <3>2, <3>3
    <2>3. ASSUME NEW l \in feasible
          PROVE  \E q \in Forest' : l \in reg'[q].todo /\ reg'[q].status # "infeasible"
        <3>1. PICK q \in Forest : l \in reg[q].todo /\ reg[q].status # "infeasible"
            BY <2>0 DEF Books, Undecided
        <3>2. CASE q # r
            BY <1>3, <1>4, <3>1, <3>2
        <3>3. CASE q = r
            BY <1>3, <1>4, <3>1, <3>3
        <3>. QED BY <3>2, <3>3
    <2>. QED BY <2>1, <2>2, <2>3 DEF Undecided
<1>. QED BY <1>11, <1>12, <1>13, <1>14, <1>15 DEF Books, Records

LEMMA ServeDonatesCounts ==
    ASSUME IInv, Accounts, UNCHANGED choice, NEW w \in Workers, ServeDonates(w)
    PROVE  Accounts'
<1>. DEFINE r == at[w]
<1>0. /\ pc[w] = "serve" /\ Runnable(r) /\ nextId <= MaxRegions
      /\ nextId' = nextId + 1 /\ live' = live + 1
    BY DEF ServeDonates, CanSearch
<1>1. PICK E \in SUBSET (reg[r].todo \ feasible) :
        \E D \in (SUBSET (reg[r].todo \ E)) \ {{}} : reg' = [reg EXCEPT
            ![r] = Donates(Advances(r, E), D), ![nextId] = Node(r, "session", D, 1)]
    BY DEF ServeDonates
<1>01. PICK D \in (SUBSET (reg[r].todo \ E)) \ {{}} :
        reg' = [reg EXCEPT ![r] = Donates(Advances(r, E), D), ![nextId] = Node(r, "session", D, 1)]
    BY <1>1
<1>2. PICK m \in RegionId : m = nextId
    BY <1>0 DEF IInv, Shape, RegionId
<1>3. PICK d : d = Donates(Advances(r, E), D)
    OBVIOUS
<1>4. PICK e : e = Node(r, "session", D, 1)
    OBVIOUS
<1>5. r \in Forest /\ r \in RegionId /\ reg[r] \in Regions
    BY <1>0, Serving
<1>6. /\ reg[r].status = "unresolved" /\ ~reg[r].notified /\ ~reg[r].localDone
      /\ reg[r].todo \in SUBSET Leaves
    BY <1>0, <1>5, Serving, Searchable
<1>7. D \in SUBSET Leaves
    BY <1>6
<1>8. d \in Regions /\ e \in Regions
    BY <1>3, <1>4, <1>5, <1>7, ServedTyped, DonorTyped, ChildTyped DEF IInv
<1>9. /\ d.parent = reg[r].parent /\ d.status = reg[r].status /\ d.notified = reg[r].notified
      /\ d.localDone = reg[r].localDone /\ d.form = "session"
      /\ d.unfinished = reg[r].unfinished + 1 /\ d.todo = (reg[r].todo \ E) \ D
    <2>1. Advances(r, E) \in Regions
        BY <1>5, ServedTyped DEF IInv
    <2>. QED BY <1>3, <1>5, <2>1 DEF Donates, Advances, Regions
<1>10. /\ e.parent = r /\ e.status = "unresolved" /\ ~e.notified /\ ~e.localDone
       /\ e.form = "session" /\ e.unfinished = 1 /\ e.todo = D
    BY <1>4 DEF Node
<1>11. r # m /\ m \notin Forest
    BY <1>2, <1>5 DEF Accounts, Books, Tree, RegionId
<1>12. reg'[r] = d /\ reg'[m] = e /\ \A q \in RegionId \ {r, m} : reg'[q] = reg[q]
    BY <1>01, <1>2, <1>3, <1>4, <1>5, <1>11 DEF IInv, Shape
<1>13. nodes' = nodes /\ child' = [child EXCEPT ![w] = m] /\ child[w] = None
       /\ UNCHANGED <<feasible, cursor, answer, active, epochActive, cpc, at>>
       /\ event' = [event EXCEPT ![w] = "unresolved"] /\ pc' = [pc EXCEPT ![w] = "publish"]
    BY <1>0, <1>2 DEF ServeDonates, Accounts, Hands, choice, flagVars
<1>14. Forest' = Forest \cup {m}
    BY <1>13 DEF Forest, IInv, Shape, RegionId, None
<1>15. w # Controller /\ w \in Agents /\ Controller \in Agents /\ Workers \subseteq Agents
    BY WorkersAssumption DEF Agents
<1>16. Hands'
    BY <1>0, <1>13, <1>15 DEF Accounts, Hands, IInv, Shape
<1>17. Books'
    <2>1. d.todo \cup e.todo \subseteq reg[r].todo /\ d.todo \cap e.todo = {}
          /\ reg[r].todo \cap feasible \subseteq d.todo \cup e.todo
        BY <1>9, <1>10
    <2>2. nextId' = m + 1 /\ live' = live + 1 /\ StaysDecided /\ nodes \subseteq nodes'
        BY <1>0, <1>2, <1>13 DEF StaysDecided
    <2>. QED BY <1>2, <1>5, <1>6, <1>8, <1>9, <1>10, <1>12, <1>13, <1>14, <2>1, <2>2, BooksDonate
            DEF Accounts, IInv
<1>18. Flight'
    <2>1. InFlight(w)'
        BY <1>5, <1>13, <1>14 DEF InFlight, IInv, Shape, Agents
    <2>2. \A v \in Workers \ {w} : pc'[v] = pc[v] /\ event'[v] = event[v]
        BY <1>13, <1>15 DEF IInv, Shape
    <2>3. pc'[w] = "publish"
        BY <1>13, <1>15 DEF IInv, Shape
    <2>4. \A q \in Forest : q # r => reg'[q] = reg[q]
        BY <1>11, <1>12, ForestTyped DEF IInv
    <2>5. reg'[r].status = "unresolved" /\ \A q \in Forest' \ Forest : reg'[q].status = "unresolved"
        BY <1>6, <1>9, <1>10, <1>12, <1>14
    <2>. QED BY <1>0, <1>13, <1>14, <2>1, <2>2, <2>3, <2>4, <2>5, FlightServes
            DEF Accounts, Books, IInv, StaysDecided
<1>19. AnswerSound'
    BY <1>13 DEF Accounts, AnswerSound
<1>20. Queues'
    BY <1>0, <1>13, <1>15, QueuesRun DEF Accounts, IInv, Shape, Owner, OwnerPlaces
<1>. QED BY <1>16, <1>17, <1>18, <1>19, <1>20 DEF Accounts

LEMMA PublishCounts ==
    ASSUME IInv, Accounts, UNCHANGED choice, NEW w \in Workers, Publish(w)
    PROVE  Accounts'
<1>. USE DEF IInv, Shape
<1>1. /\ pc[w] = "publish" /\ child[w] # None /\ nodes' = nodes \cup {child[w]}
      /\ child' = [child EXCEPT ![w] = None] /\ pc' = [pc EXCEPT ![w] = "settle"]
      /\ UNCHANGED <<feasible, reg, active, answer, epochActive, live, nextId, at, event,
                     cursor, cpc>>
    BY DEF Publish, Located, choice, epochVars, RegionId, None
<1>2. Forest' = Forest
    BY <1>1 DEF Forest
<1>3. w # Controller /\ w \in Agents /\ Controller \in Agents /\ Workers \subseteq Agents
    BY WorkersAssumption DEF Agents
<1>4. Hands'
    BY <1>1, <1>3 DEF Accounts, Hands
<1>5. Books'
    BY <1>1, <1>2, BooksStay DEF Accounts, StaysDecided
<1>6. Flight'
    <2>1. event[w] = "unresolved" /\ at[w] \in Forest
        BY <1>1 DEF Accounts, Flight, InFlight, OwnerPlaces
    <2>2. InFlight(w)'
        BY <1>1, <1>2, <1>3, <2>1 DEF InFlight
    <2>3. \A q : ~Failing(w, q) /\ ~Winning(w, q)
        BY <1>1 DEF Failing, Winning
    <2>. QED BY <1>1, <1>2, <1>3, <2>2, <2>3, FlightPasses DEF Accounts, Books, StaysDecided
<1>7. AnswerSound'
    BY <1>1 DEF Accounts, AnswerSound
<1>8. Queues'
    BY <1>1, <1>3, QueuesRun DEF Accounts, Owner, OwnerPlaces
<1>. QED BY <1>4, <1>5, <1>6, <1>7, <1>8 DEF Accounts

LEMMA AnnouncesCounts ==
    ASSUME IInv, Accounts, UNCHANGED choice, NEW w \in Workers, Announces(w)
    PROVE  Accounts'
<1>. USE DEF IInv, Shape
<1>1. /\ pc[w] = "announce" /\ answer' # "unresolved"
      /\ answer' = (IF answer = "unresolved" THEN "feasible" ELSE answer)
      /\ pc' = [pc EXCEPT ![w] = "release"]
      /\ UNCHANGED <<feasible, nodes, reg, active, epochActive, live, nextId, at, event,
                     child, cursor, cpc>>
    BY DEF Announces, choice, flagVars, epochVars, localVars
<1>2. Forest' = Forest
    BY <1>1, ForestStays
<1>3. w # Controller /\ w \in Agents /\ Controller \in Agents /\ Workers \subseteq Agents
    BY WorkersAssumption DEF Agents
<1>4. Hands'
    BY <1>1, <1>3 DEF Accounts, Hands
<1>5. Books'
    BY <1>1, <1>2, BooksStay DEF Accounts, StaysDecided
<1>6. feasible # {} /\ at[w] \in Forest
    BY <1>1 DEF Accounts, Flight, InFlight, OwnerPlaces
<1>7. Flight'
    <2>1. InFlight(w)'
        BY <1>1, <1>2, <1>3, <1>6 DEF InFlight
    <2>2. \A q : ~Failing(w, q)
        BY <1>1 DEF Failing
    <2>. QED BY <1>1, <1>2, <1>3, <2>1, <2>2, FlightPasses DEF Accounts, Books, StaysDecided
<1>8. AnswerSound'
    BY <1>1, <1>6 DEF Accounts, AnswerSound
<1>9. Queues'
    BY <1>1, <1>3, QueuesRun DEF Accounts, Owner, OwnerPlaces
<1>. QED BY <1>4, <1>5, <1>7, <1>8, <1>9 DEF Accounts

-----------------------------------------------------------------------------
\* A closed region is published, and its failure climbs.

LEMMA ClosesCounts ==
    ASSUME IInv, Accounts, UNCHANGED choice, NEW w \in Workers, Closes(w)
    PROVE  Accounts'
<1>0. PICK r : r = at[w]
    OBVIOUS
<1>. USE <1>0
<1>1. /\ pc[w] = "settle" /\ event[w] \in {"feasible", "infeasible"}
      /\ UNCHANGED <<feasible, nodes, active, answer, epochActive, live, nextId, at, event,
                     child, cpc>>
    BY DEF Closes, choice, epochVars
<1>2. w # Controller /\ w \in Agents /\ Controller \in Agents /\ Workers \subseteq Agents
    BY WorkersAssumption DEF Agents
<1>3. r \in Forest /\ r \in RegionId /\ reg[r] \in Regions
    <2>1. r \in Forest
        BY <1>1 DEF Accounts, Flight, InFlight, OwnerPlaces
    <2>. QED BY <2>1, ForestTyped DEF IInv, Shape
<1>4. PICK d : d = [reg[r] EXCEPT !.notified = TRUE, !.status = event[w],
                                 !.form = IF @ = "deferred" THEN "none" ELSE @]
    OBVIOUS
<1>5. d \in Regions
    BY <1>1, <1>3, <1>4, ClosingTyped
<1>6. /\ d.parent = reg[r].parent /\ d.notified /\ d.status = event[w]
      /\ d.form = IF reg[r].form = "deferred" THEN "none" ELSE reg[r].form
      /\ d.unfinished = reg[r].unfinished /\ d.localDone = reg[r].localDone
      /\ d.todo = reg[r].todo
    BY <1>3, <1>4 DEF Regions
<1>7. reg' = [reg EXCEPT ![r] = d]
    BY <1>3, <1>4 DEF Closes, IInv, Shape
<1>8. reg'[r] = d /\ \A q \in RegionId \ {r} : reg'[q] = reg[q]
    BY <1>3, <1>7 DEF IInv, Shape
<1>9. Forest' = Forest
    BY <1>1, ForestStays
<1>10. Sane(reg[r], feasible) /\ Counts(reg[r], Open(r))
    BY <1>3 DEF Accounts, Books, Records
<1>11. /\ reg[r].status = event[w] \/ reg[r].form = "deferred"
       /\ event[w] = "infeasible" => reg[r].todo \cap feasible = {}
       /\ event[w] = "feasible" => feasible # {} /\ (answer = "unresolved" => ~reg[r].notified)
    BY <1>1 DEF Accounts, Flight, InFlight
<1>12. event[w] = "infeasible" => Open(r) = {}
    <2>1. CASE reg[r].form = "deferred"
        <3>1. reg[r].unfinished = 1 /\ Own(reg[r]) = 1 /\ reg[r].status = "unresolved"
            BY <1>10, <2>1 DEF Sane, Own
        <3>2. Cardinality(Open(r)) = 0
            BY <1>10, <3>1, ForestTyped DEF Counts, IInv
        <3>. QED BY <3>2, ForestTyped, FS_EmptySet DEF IInv
    <2>. QED BY <1>10, <1>11, <2>1 DEF Counts
<1>13. Sane(d, feasible) /\ Counts(d, Open(r)) /\ Exact(d, Open(r))
    BY <1>1, <1>6, <1>10, <1>11, <1>12 DEF Sane, Counts, Exact
<1>14. cursor[w] = None
    BY <1>1, <1>2 DEF Accounts, Hands
<1>15. \/ reg[r].notified /\ pc' = [pc EXCEPT ![w] = "release"] /\ cursor' = cursor
       \/ /\ ~reg[r].notified /\ event[w] = "feasible"
          /\ pc' = [pc EXCEPT ![w] = "announce"] /\ cursor' = cursor
       \/ /\ ~reg[r].notified /\ event[w] = "infeasible"
          /\ pc' = [pc EXCEPT ![w] = "notify"] /\ cursor' = [cursor EXCEPT ![w] = r]
    BY <1>1 DEF Closes
<1>16. reg[r].notified => reg[r].status = event[w]
    BY <1>10, <1>11 DEF Sane
<1>17. Failures' /\ \A c \in Forest : Propagated(c)' <=> Propagated(c)
    <2>1. CASE cursor' = cursor
        <3>1. \A c \in Forest \ {r} : reg'[c] = reg[c]
            BY <1>8, ForestTyped DEF IInv
        <3>2. Failures'
            BY <1>6, <1>8, <1>9, <1>16, <2>1, <3>1 DEF Accounts, Books, Failures
        <3>3. Propagated(r)' <=> Propagated(r)
            <4>1. CASE reg[r].notified
                BY <1>6, <1>8, <1>16, <2>1, <4>1 DEF Propagated
            <4>2. CASE ~reg[r].notified
                <5>1. CASE event[w] = "feasible"
                    BY <1>6, <1>8, <4>2, <5>1 DEF Propagated
                <5>2. CASE cursor' = [cursor EXCEPT ![w] = r]
                    <6>1. cursor'[w] = r
                        BY <1>2, <5>2 DEF IInv, Shape
                    <6>. QED BY <1>2, <4>2, <6>1 DEF Propagated
                <5>. QED BY <1>15, <4>2, <5>1, <5>2
            <4>. QED BY <4>1, <4>2
        <3>4. \A c \in Forest \ {r} : Propagated(c)' <=> Propagated(c)
            BY <2>1, <3>1 DEF Propagated
        <3>. QED BY <3>2, <3>3, <3>4
    <2>2. CASE ~reg[r].notified /\ event[w] = "infeasible" /\ cursor' = [cursor EXCEPT ![w] = r]
        <3>1. \A c \in Forest \ {r} : reg'[c] = reg[c]
            BY <1>8, ForestTyped DEF IInv
        <3>2. cursor'[w] = r /\ \A b \in Agents \ {w} : cursor'[b] = cursor[b]
            BY <1>2, <2>2 DEF IInv, Shape
        <3>3. \A b \in Agents : cursor[b] # r
            BY <1>3, <2>2 DEF Accounts, Books, Failures, RegionId, None
        <3>4. Failures'
            <4>1. ASSUME NEW b \in Agents, cursor'[b] # None
                  PROVE  /\ cursor'[b] \in Forest'
                         /\ reg'[cursor'[b]].notified /\ reg'[cursor'[b]].status = "infeasible"
                <5>1. CASE b = w
                    BY <1>3, <1>6, <1>8, <1>9, <2>2, <3>2, <5>1
                <5>2. CASE b # w
                    BY <1>9, <3>1, <3>2, <3>3, <4>1, <5>2 DEF Accounts, Books, Failures
                <5>. QED BY <5>1, <5>2
            <4>2. \A b, c \in Agents : cursor'[b] = cursor'[c] /\ cursor'[b] # None => b = c
                BY <3>2, <3>3 DEF Accounts, Books, Failures
            <4>. QED BY <4>1, <4>2 DEF Failures
        <3>5. ~Propagated(r)' /\ ~Propagated(r)
            BY <1>2, <2>2, <3>2 DEF Propagated
        <3>6. \A c \in Forest \ {r} : Propagated(c)' <=> Propagated(c)
            <4>1. \A c \in Forest \ {r} : c # None
                BY ForestTyped DEF IInv, RegionId, None
            <4>. QED BY <1>2, <1>14, <3>1, <3>2, <4>1 DEF Propagated
        <3>. QED BY <3>4, <3>5, <3>6
    <2>. QED BY <1>15, <2>1, <2>2
<1>18. Books'
    <2>1. d.status = "infeasible" => reg[r].todo \cap feasible = {}
        BY <1>6, <1>11
    <2>. QED BY <1>1, <1>3, <1>5, <1>6, <1>7, <1>9, <1>13, <1>17, <2>1, BooksRegion
            DEF Accounts, IInv, StaysDecided
<1>19. Hands'
    BY <1>1, <1>2, <1>15 DEF Accounts, Hands, IInv, Shape
<1>20. Flight'
    <2>1. pc'[w] \in {"release", "announce", "notify"} /\ \A a \in Agents \ {w} : pc'[a] = pc[a]
        BY <1>2, <1>15 DEF IInv, Shape
    <2>2. pc'[w] = "announce" => feasible # {}
        BY <1>2, <1>11, <1>15 DEF IInv, Shape
    <2>3. InFlight(w)'
        BY <1>1, <1>3, <1>9, <2>1, <2>2 DEF InFlight
    <2>4. \A v \in Workers \ {w} : pc[v] \in OwnerPlaces =>
                at[v] \in Forest' /\ Mild(reg[at[v]], reg'[at[v]])
        <3>. SUFFICES ASSUME NEW v \in Workers \ {w}, pc[v] \in OwnerPlaces
                      PROVE  at[v] \in Forest' /\ Mild(reg[at[v]], reg'[at[v]])
            OBVIOUS
        <3>1. at[v] \in Forest
            BY DEF Accounts, Flight, InFlight
        <3>2. at[v] # r
            BY <1>1 DEF IInv, Owners, Owner, OwnerPlaces
        <3>3. reg'[at[v]] = reg[at[v]]
            BY <1>8, <3>1, <3>2, ForestTyped DEF IInv
        <3>. QED BY <1>9, <3>1, <3>3 DEF Mild
    <2>5. \A q \in Forest' : reg'[q].status = "infeasible" /\ ~reg'[q].notified =>
                /\ q \in Forest /\ reg[q].status = "infeasible" /\ ~reg[q].notified
                /\ ~Failing(w, q)
        <3>1. \A q \in Forest \ {r} : reg'[q] = reg[q] /\ ~Failing(w, q)
            BY <1>8, ForestTyped DEF IInv, Failing
        <3>. QED BY <1>6, <1>8, <1>9, <3>1
    <2>6. answer' = "unresolved" => \A q \in Forest' : reg'[q].status = "feasible" =>
                \/ q \in Forest /\ reg[q].status = "feasible" /\ ~Winning(w, q)
                \/ Winning(w, q)'
        <3>1. \A q \in Forest \ {r} : reg'[q] = reg[q] /\ ~Winning(w, q)
            BY <1>8, ForestTyped DEF IInv, Winning
        <3>2. answer' = "unresolved" /\ reg'[r].status = "feasible" => Winning(w, r)'
            BY <1>1, <1>2, <1>6, <1>8, <1>11, <1>15 DEF Winning, IInv, Shape
        <3>. QED BY <1>9, <3>1, <3>2
    <2>. QED BY <1>1, <1>2, <2>1, <2>3, <2>4, <2>5, <2>6, FlightMoves
            DEF Accounts, Books, IInv, StaysDecided
<1>21. AnswerSound'
    BY <1>1 DEF Accounts, AnswerSound
<1>22. Queues'
    BY <1>1, <1>2, <1>15, QueuesRun DEF Accounts, IInv, Shape, Owner, OwnerPlaces
<1>. QED BY <1>18, <1>19, <1>20, <1>21, <1>22 DEF Accounts

\* A failure under way finds the parent open, with the region counted.
LEMMA FailureFinds ==
    ASSUME IInv, Accounts, NEW a \in Agents, pc[a] = "parent",
           NEW c, c = cursor[a], NEW p, p = reg[c].parent
    PROVE  /\ c \in Forest /\ c # Root /\ p \in Forest /\ p < c /\ c \in Open(p)
           /\ Cardinality(Open(p)) > 0
           /\ Sane(reg[p], feasible) /\ Counts(reg[p], Open(p))
           /\ reg[p].status # "infeasible"
           /\ reg[p].form # "session" => reg[p].status = "feasible"
           /\ reg[p].status # "feasible" =>
                /\ reg[p].status = "unresolved" /\ ~reg[p].notified
                /\ reg[p].unfinished > 0
                /\ reg[p].unfinished = 1 => reg[p].localDone
<1>1. c \in RegionId /\ p \in RegionId /\ c # None
    BY DEF IInv, Located, RegionId, None
<1>2. c \in Forest
    BY <1>1 DEF Accounts, Books, Failures
<1>3. c # Root
    BY <1>1 DEF Accounts, Books, Tree, RegionId, None
<1>4. ~Propagated(c)
    BY DEF Propagated
<1>5. p \in Forest /\ p < c
    BY <1>2, <1>3, <1>4 DEF Accounts, Books, Tree
<1>6. c \in Open(p)
    BY <1>2, <1>4 DEF Open
<1>7. Cardinality(Open(p)) > 0
    BY <1>6, ForestTyped, FS_EmptySet DEF IInv
<1>8. Sane(reg[p], feasible) /\ Counts(reg[p], Open(p))
    BY <1>5 DEF Accounts, Books, Records
<1>9. reg[p] \in Regions
    BY <1>1 DEF IInv, Shape
<1>10. reg[p].status # "infeasible"
    BY <1>6, <1>8 DEF Counts
<1>11. Cardinality(Open(p)) \in Nat
    BY ForestTyped DEF IInv
<1>12. reg[p].status = "unresolved" => reg[p].unfinished >= 1 /\ reg[p].unfinished \in Nat
            /\ (~reg[p].localDone => reg[p].unfinished >= 2)
    BY <1>7, <1>8, <1>11 DEF Counts, Sane, Own
<1>13. reg[p].status = "unresolved" => ~reg[p].notified /\ reg[p].form = "session"
    BY <1>8, <1>9, <1>12 DEF Sane, Regions
<1>14. reg[p].status \in {"unresolved", "feasible"}
    BY <1>9, <1>10 DEF Regions
<1>. QED BY SMTT(30), <1>2, <1>3, <1>5, <1>6, <1>7, <1>8, <1>10, <1>12, <1>13, <1>14

\* Nothing is feasible once the failure of the root is under way: a region that has
\* not failed, with the least number, would be an open child of a failed one.
LEMMA RootFails ==
    ASSUME IInv, Accounts, answer = "unresolved", reg[Root].status = "infeasible"
    PROVE  feasible = {}
<1>. DEFINE S == {r \in Forest : reg[r].status # "infeasible"}
<1>. SUFFICES ASSUME NEW l \in feasible PROVE FALSE
    OBVIOUS
<1>1. S \in SUBSET Nat /\ S # {}
    BY ForestTyped DEF Accounts, Books, Undecided, IInv, RegionId
<1>2. PICK m \in S : \A k \in S : m <= k
    <2>. HIDE DEF S
    <2>. QED BY <1>1, Least
<1>3. m \in Forest /\ m # Root /\ ~Propagated(m)
    BY DEF Propagated
<1>4. PICK p : p = reg[m].parent
    OBVIOUS
<1>5. p \in Forest /\ p < m /\ m \in Open(p)
    BY <1>3, <1>4 DEF Accounts, Books, Tree, Open
<1>6. reg[p].status = "infeasible"
    <2>1. p \in Nat /\ m \in Nat
        BY <1>3, <1>5, ForestTyped DEF IInv, RegionId
    <2>. QED BY <1>2, <1>5, <2>1
<1>. QED BY <1>5, <1>6 DEF Accounts, Books, Records, Counts

\* The books when the failure of c reaches its parent p, whose record becomes d;
\* the agent goes on with k, which is p if that fails in its turn.
LEMMA BooksArrive ==
    ASSUME IInv, Accounts, StaysDecided, UNCHANGED <<feasible, nextId, live>>,
           Forest' = Forest, nodes \subseteq nodes',
           NEW a \in Agents, pc[a] = "parent",
           NEW c, c = cursor[a], NEW p, p = reg[c].parent,
           NEW d \in Regions, reg' = [reg EXCEPT ![p] = d],
           NEW k \in {None, p}, cursor' = [cursor EXCEPT ![a] = k],
           d.parent = reg[p].parent, d.todo = reg[p].todo,
           Sane(d, feasible), Counts(d, Open(p) \ {c}),
           Exact(reg[p], Open(p)) => Exact(d, Open(p) \ {c}),
           k = p => d.notified /\ d.status = "infeasible",
           k = None => d.notified = reg[p].notified /\ d.status = reg[p].status
    PROVE  Books'
<1>1. /\ c \in Forest /\ c # Root /\ p \in Forest /\ p < c /\ c \in Open(p)
      /\ reg[p].status # "infeasible"
    BY FailureFinds
<1>2. Forest \in SUBSET RegionId /\ c \in RegionId /\ p \in RegionId
    BY <1>1, ForestTyped DEF IInv
<1>3. c # p /\ None \notin Forest
    BY <1>1, <1>2 DEF RegionId, None
<1>4. reg'[p] = d /\ \A q \in Forest \ {p} : reg'[q] = reg[q]
    BY <1>2 DEF IInv, Shape
<1>5. cursor'[a] = k /\ \A b \in Agents \ {a} : cursor'[b] = cursor[b]
    BY DEF IInv, Shape
<1>6. \A b \in Agents \ {a} : cursor[b] # c
    BY <1>1, <1>3 DEF Accounts, Books, Failures
<1>7. \A b \in Agents : cursor[b] # p
    BY <1>1, <1>3 DEF Accounts, Books, Failures
<1>8. \A q \in Forest \ {c, p} : Propagated(q)' <=> Propagated(q)
    <2>. SUFFICES ASSUME NEW q \in Forest \ {c, p} PROVE Propagated(q)' <=> Propagated(q)
        OBVIOUS
    <2>1. (\A b \in Agents : cursor'[b] # q) <=> (\A b \in Agents : cursor[b] # q)
        BY <1>3, <1>5
    <2>. QED BY <1>4, <2>1 DEF Propagated
<1>9. Propagated(c)'
    <2>1. reg'[c].notified /\ reg'[c].status = "infeasible"
        BY <1>1, <1>3, <1>4 DEF Accounts, Books, Failures
    <2>2. \A b \in Agents : cursor'[b] # c
        BY <1>3, <1>1, <1>5, <1>6
    <2>. QED BY <2>1, <2>2 DEF Propagated
<1>10. ~Propagated(c) /\ ~Propagated(p)
    BY <1>1 DEF Propagated
<1>11. ~Propagated(p)'
    BY <1>1, <1>4, <1>5 DEF Propagated
<1>12. \A q \in Forest : reg'[q].parent = reg[q].parent
    BY <1>4
<1>13. Open(p)' = Open(p) \ {c}
    <2>1. \A q \in Forest : q \in Open(p)' <=> q \in Open(p) /\ q # c
        BY <1>8, <1>9, <1>10, <1>11, <1>12 DEF Open
    <2>2. Open(p)' \subseteq Forest /\ Open(p) \subseteq Forest
        BY DEF Open
    <2>. QED BY <2>1, <2>2
<1>14. ASSUME NEW q \in Forest \ {p} PROVE Open(q)' = Open(q)
    <2>1. \A r \in Forest : r \in Open(q)' <=> r \in Open(q)
        BY <1>1, <1>8, <1>9, <1>10, <1>11, <1>12 DEF Open
    <2>2. Open(q)' \subseteq Forest /\ Open(q) \subseteq Forest
        BY DEF Open
    <2>. QED BY <2>1, <2>2
<1>15. Root \in Forest /\ Root \in RegionId
    BY <1>2, ForestTyped DEF Accounts, Books, Tree, IInv
<1>16. Tree'
    <2>1. \A q \in RegionId \ Forest : reg'[q] = Blank
        BY <1>1 DEF Accounts, Books, Tree, IInv, Shape
    <2>2. \A q \in Forest \ {Root} : ~Propagated(q)' => reg[q].parent \in Forest
        BY <1>8, <1>9, <1>10, <1>11 DEF Accounts, Books, Tree
    <2>. QED BY <1>12, <1>15, <2>1, <2>2 DEF Accounts, Books, Tree
<1>17. Records'
    <2>1. \A q \in Forest \ {p} : Sane(reg'[q], feasible) /\ Counts(reg'[q], Open(q)')
        BY <1>4, <1>14 DEF Accounts, Books, Records
    <2>2. Sane(reg'[p], feasible) /\ Counts(reg'[p], Open(p)')
        BY <1>4, <1>13
    <2>. QED BY <2>1, <2>2 DEF Records
<1>18. Failures'
    <2>1. ASSUME NEW b \in Agents, cursor'[b] # None
          PROVE  /\ cursor'[b] \in Forest
                 /\ reg'[cursor'[b]].notified /\ reg'[cursor'[b]].status = "infeasible"
        <3>1. CASE b = a
            BY <1>1, <1>4, <1>5, <2>1, <3>1
        <3>2. CASE b # a
            BY <1>4, <1>5, <1>7, <2>1, <3>2 DEF Accounts, Books, Failures
        <3>. QED BY <3>1, <3>2
    <2>2. \A b, e \in Agents : cursor'[b] = cursor'[e] /\ cursor'[b] # None => b = e
        BY <1>5, <1>7 DEF Accounts, Books, Failures
    <2>. QED BY <2>1, <2>2 DEF Failures
<1>19. Apart'
    <2>1. \A q \in Forest : reg'[q].todo = reg[q].todo
        BY <1>4
    <2>. QED BY <2>1 DEF Accounts, Books, Apart
<1>20. Undecided'
    <2>. SUFFICES ASSUME answer' = "unresolved" PROVE Undecided'
        BY DEF Undecided
    <2>1. answer = "unresolved"
        BY DEF StaysDecided
    <2>2. ~Propagated(Root)'
        <3>1. ~Propagated(Root)
            BY <2>1 DEF Accounts, Books, Undecided
        <3>. QED BY <1>1, <1>8, <1>11, <1>15, <3>1
    <2>3. \A q \in Forest : Exact(reg'[q], Open(q)')
        <3>1. \A q \in Forest \ {p} : Exact(reg'[q], Open(q)')
            BY <1>4, <1>14, <2>1 DEF Accounts, Books, Undecided
        <3>2. Exact(reg'[p], Open(p)')
            BY <1>1, <1>4, <1>13, <2>1 DEF Accounts, Books, Undecided
        <3>. QED BY <3>1, <3>2
    <2>4. ASSUME NEW l \in feasible
          PROVE  \E q \in Forest : l \in reg'[q].todo /\ reg'[q].status # "infeasible"
        <3>1. PICK q \in Forest : l \in reg[q].todo /\ reg[q].status # "infeasible"
            BY <2>1 DEF Accounts, Books, Undecided
        <3>2. d.status = "infeasible" => d.todo \cap feasible = {}
            BY DEF Sane
        <3>3. CASE q = p
            BY <1>4, <3>1, <3>2, <3>3
        <3>4. CASE q # p
            BY <1>4, <3>1, <3>4
        <3>. QED BY <3>3, <3>4
    <2>. QED BY <2>2, <2>3, <2>4 DEF Undecided
<1>. QED BY <1>16, <1>17, <1>18, <1>19, <1>20 DEF Books

\* The books when the search is decided and a failure goes no further.
LEMMA BooksStop ==
    ASSUME IInv, Accounts, answer' # "unresolved", UNCHANGED <<feasible, nodes, child, reg, nextId, live>>,
           NEW a \in Agents, cursor' = [cursor EXCEPT ![a] = None]
    PROVE  Books'
<1>1. Forest' = Forest
    BY ForestStays
<1>2. cursor'[a] = None /\ \A b \in Agents \ {a} : cursor'[b] = cursor[b]
    BY DEF IInv, Shape
<1>3. \A q \in Forest : q # None
    BY ForestTyped DEF IInv, RegionId, None
<1>4. \A q \in Forest : Propagated(q) => Propagated(q)'
    BY <1>2, <1>3 DEF Propagated
<1>5. \A q : Open(q)' \in SUBSET Open(q)
    BY <1>1, <1>4 DEF Open
<1>6. ASSUME NEW q
      PROVE  /\ Cardinality(Open(q)') \in Nat /\ Cardinality(Open(q)) \in Nat
             /\ Cardinality(Open(q)') <= Cardinality(Open(q))
    <2>1. IsFiniteSet(Open(q)) /\ Cardinality(Open(q)) \in Nat
        BY ForestTyped DEF IInv
    <2>2. IsFiniteSet(Open(q)') /\ Cardinality(Open(q)') <= Cardinality(Open(q))
        BY <1>5, <2>1, FS_Subset
    <2>. QED BY <2>1, <2>2, FS_CardinalityType
<1>7. Tree'
    BY <1>1, <1>4 DEF Accounts, Books, Tree
<1>8. Records'
    <2>. SUFFICES ASSUME NEW q \in Forest
                  PROVE  Sane(reg[q], feasible) /\ Counts(reg[q], Open(q)')
        BY <1>1 DEF Records
    <2>1. Sane(reg[q], feasible) /\ Counts(reg[q], Open(q))
        BY DEF Accounts, Books, Records
    <2>2. reg[q].status = "unresolved" => reg[q].unfinished >= Own(reg[q]) + Cardinality(Open(q)')
        BY <1>6, <2>1 DEF Counts, Sane, Own
    <2>3. reg[q].status = "infeasible" => Open(q)' = {}
        BY <1>5, <2>1 DEF Counts
    <2>. QED BY <2>1, <2>2, <2>3 DEF Counts
<1>9. Failures'
    BY <1>1, <1>2 DEF Accounts, Books, Failures
<1>10. Apart'
    BY <1>1 DEF Accounts, Books, Apart
<1>. QED BY <1>7, <1>8, <1>9, <1>10 DEF Books, Undecided

\* The hands, the flights and the queues of an agent that propagates a failure.
LEMMA AgentMoves ==
    ASSUME IInv, Accounts, StaysDecided,
           UNCHANGED <<feasible, nodes, child, active, epochActive, cpc, at, event>>,
           NEW a \in Agents, pc[a] \in {"notify", "parent"},
           NEW k, pc' = [pc EXCEPT ![a] = k], NEW n, cursor' = [cursor EXCEPT ![a] = n],
           k \in {EndOfChain(a), "notify", "parent"},
           k = EndOfChain(a) => n = None,
           queued \subseteq queued',
           \A q \in Forest : Mild(reg[q], reg'[q]),
           \A q \in Forest : reg'[q].status = "infeasible" /\ ~reg'[q].notified =>
                reg[q].status = "infeasible" /\ ~reg[q].notified,
           \A q \in Forest : reg'[q].status = "feasible" => reg[q].status = "feasible",
           \A q \in nodes : Runnable(q)' /\ ~reg'[q].notified =>
                Runnable(q) /\ ~reg[q].notified /\ reg'[q].reserved = reg[q].reserved
    PROVE  Hands' /\ Flight' /\ Queues'
<1>1. pc'[a] = k /\ cursor'[a] = n
      /\ \A b \in Agents \ {a} : pc'[b] = pc[b] /\ cursor'[b] = cursor[b]
    BY DEF IInv, Shape
<1>2. Controller \notin Workers /\ Controller \in Agents /\ Workers \subseteq Agents
    BY WorkersAssumption DEF Agents
<1>3. k \in {"out", "release", "notify", "parent"} /\ (a # Controller => k # "out")
      /\ (a = Controller => k # "release")
    BY DEF EndOfChain
<1>4. Hands'
    BY <1>1, <1>2, <1>3 DEF Accounts, Hands, EndOfChain
<1>5. Forest' = Forest
    BY ForestStays
<1>6. Flight'
    <2>1. a \in Workers => InFlight(a)'
        BY <1>1, <1>2, <1>3, <1>5 DEF Accounts, Flight, InFlight, OwnerPlaces
    <2>2. \A q : ~Failing(a, q) /\ ~Winning(a, q)
        BY DEF Failing, Winning
    <2>3. \A v \in Workers \ {a} : pc'[v] = pc[v] /\ at'[v] = at[v] /\ event'[v] = event[v]
        BY <1>1, <1>2
    <2>4. \A v \in Workers \ {a} : pc[v] \in OwnerPlaces =>
                at[v] \in Forest' /\ Mild(reg[at[v]], reg'[at[v]])
        BY <1>5 DEF Accounts, Flight, InFlight
    <2>. QED BY <1>5, <2>1, <2>2, <2>3, <2>4, FlightMoves DEF Accounts, Books, IInv
<1>7. Queues'
    <2>1. \A r \in active : \E w \in Workers : pc'[w] \in Owner /\ at[w] = r
        <3>. SUFFICES ASSUME NEW r \in active PROVE \E w \in Workers : pc'[w] \in Owner /\ at[w] = r
            OBVIOUS
        <3>1. PICK w \in Workers : pc[w] \in Owner /\ at[w] = r
            BY DEF Accounts, Queues
        <3>2. pc'[w] \in Owner
            BY <1>1, <1>2, <1>3, <3>1 DEF Owner, OwnerPlaces
        <3>. QED BY <3>1, <3>2
    <2>2. cpc = "ready" /\ ~epochActive /\ answer' = "unresolved" =>
            \A r \in nodes : Runnable(r)' /\ ~reg'[r].notified => Reserved(r)' \/ r \in queued'
        BY DEF Accounts, Queues, Reserved, StaysDecided
    <2>. QED BY <2>1, <2>2 DEF Accounts, Queues
<1>. QED BY <1>4, <1>6, <1>7

LEMMA NotifyStopsCounts ==
    ASSUME IInv, Accounts, UNCHANGED choice, NEW a \in Agents, NotifyStops(a) \/ NotifyRoot(a)
    PROVE  Accounts'
<1>1. /\ pc[a] = "notify" /\ pc' = [pc EXCEPT ![a] = EndOfChain(a)]
      /\ cursor' = [cursor EXCEPT ![a] = None] /\ answer' # "unresolved"
      /\ UNCHANGED <<feasible, nodes, reg, flagVars, epochActive, live, nextId, at, event, child, cpc>>
    BY DEF NotifyStops, NotifyRoot, choice, epochVars
<1>2. Books'
    BY <1>1, BooksStop
<1>3. Hands' /\ Flight' /\ Queues'
    <2>1. StaysDecided
        BY <1>1 DEF StaysDecided
    <2>2. \A q \in Forest : Mild(reg[q], reg'[q])
        BY <1>1 DEF Mild
    <2>3. \A q : Runnable(q)' => Runnable(q)
        BY <1>1 DEF Runnable, Unresolved, Waiting
    <2>. QED BY <1>1, <2>1, <2>2, <2>3, AgentMoves DEF flagVars
<1>4. AnswerSound'
    <2>1. CASE NotifyStops(a)
        BY <1>1, <2>1 DEF NotifyStops, Accounts, AnswerSound
    <2>2. CASE NotifyRoot(a)
        <3>1. answer = "unresolved" /\ answer' = "infeasible" /\ ParentOf(cursor[a]) = None
            BY <2>2 DEF NotifyRoot
        <3>2. cursor[a] \in Forest /\ reg[cursor[a]].status = "infeasible" /\ ~Propagated(cursor[a])
            <4>1. cursor[a] # None
                BY <1>1 DEF IInv, Located, RegionId, None
            <4>. QED BY <4>1 DEF Accounts, Books, Failures, Propagated
        <3>3. cursor[a] = Root
            <4>. SUFFICES ASSUME cursor[a] # Root PROVE FALSE
                OBVIOUS
            <4>1. reg[cursor[a]].parent \in Forest /\ reg[cursor[a]].parent \in RegionId
                BY <3>2 DEF Accounts, Books, Tree
            <4>2. ParentOf(cursor[a]) = reg[cursor[a]].parent
                BY <4>1, ForestTyped DEF ParentOf, IInv
            <4>. QED BY <3>1, <4>1, <4>2 DEF RegionId, None
        <3>4. feasible = {}
            BY <3>1, <3>2, <3>3, RootFails
        <3>. QED BY <1>1, <3>1, <3>4 DEF AnswerSound
    <2>. QED BY <2>1, <2>2
<1>. QED BY <1>2, <1>3, <1>4 DEF Accounts

LEMMA NotifyClimbsCounts ==
    ASSUME IInv, Accounts, UNCHANGED choice, NEW a \in Agents, NotifyClimbs(a)
    PROVE  Accounts'
<1>1. /\ pc[a] = "notify" /\ pc' = [pc EXCEPT ![a] = "parent"]
      /\ cursor' = [cursor EXCEPT ![a] = cursor[a]] /\ cursor' = cursor
      /\ UNCHANGED <<feasible, nodes, reg, flagVars, answer, epochActive, live, nextId, at, event,
                     child, cpc>>
    BY DEF NotifyClimbs, choice, epochVars, localVars, IInv, Shape
<1>2. Books'
    BY <1>1, ForestStays, BooksStay DEF Accounts, StaysDecided
<1>3. Hands' /\ Flight' /\ Queues'
    <2>1. StaysDecided
        BY <1>1 DEF StaysDecided
    <2>2. \A q \in Forest : Mild(reg[q], reg'[q])
        BY <1>1 DEF Mild
    <2>3. \A q : Runnable(q)' => Runnable(q)
        BY <1>1 DEF Runnable, Unresolved, Waiting
    <2>4. "parent" # EndOfChain(a)
        BY DEF EndOfChain
    <2>5. \A q \in nodes : reg'[q].reserved = reg[q].reserved
        BY <1>1
    <2>6. queued' = queued /\ active' = active
        BY <1>1 DEF flagVars
    <2>. QED BY <1>1, <2>1, <2>2, <2>3, <2>4, <2>5, <2>6, AgentMoves
<1>4. AnswerSound'
    BY <1>1 DEF Accounts, AnswerSound
<1>. QED BY <1>2, <1>3, <1>4 DEF Accounts

LEMMA ParentCounts ==
    ASSUME IInv, Accounts, UNCHANGED choice, NEW a \in Agents,
           ParentIndifferent(a) \/ ParentFails(a) \/ ParentGoesOn(a)
    PROVE  Accounts'
<1>0. PICK c : c = cursor[a]
    OBVIOUS
<1>1. PICK p : p = reg[c].parent
    OBVIOUS
<1>. USE <1>0, <1>1
<1>2. /\ pc[a] = "parent"
      /\ UNCHANGED <<feasible, nodes, active, answer, epochActive, live, nextId, at, event,
                     child, cpc>>
    BY DEF ParentIndifferent, ParentFails, ParentGoesOn, choice, flagVars, epochVars
<1>3. /\ c \in Forest /\ p \in Forest /\ c \in Open(p) /\ Cardinality(Open(p)) > 0
      /\ Sane(reg[p], feasible) /\ Counts(reg[p], Open(p))
      /\ reg[p].form # "session" => reg[p].status = "feasible"
      /\ reg[p].status # "feasible" =>
            /\ reg[p].status = "unresolved" /\ ~reg[p].notified
            /\ reg[p].unfinished > 0
            /\ reg[p].unfinished = 1 => reg[p].localDone
    BY <1>2, FailureFinds
<1>4. p \in RegionId /\ reg[p] \in Regions /\ p # None
    BY SMTT(30), <1>3, ForestTyped DEF IInv, Shape, RegionId, None
<1>5. /\ IsFiniteSet(Open(p) \ {c}) /\ Cardinality(Open(p)) \in Nat
      /\ Cardinality(Open(p) \ {c}) = Cardinality(Open(p)) - 1
    BY <1>3, ForestTyped, OneLess DEF IInv
<1>6. \/ /\ reg[p].status = "feasible" /\ reg' = reg /\ queued' = queued
         /\ pc' = [pc EXCEPT ![a] = EndOfChain(a)] /\ cursor' = [cursor EXCEPT ![a] = None]
      \/ /\ reg[p].form = "session" /\ reg[p].status = "unresolved" /\ reg[p].unfinished = 1
         /\ reg' = [reg EXCEPT ![p] = [reg[p] EXCEPT !.unfinished = @ - 1,
                                            !.status = "infeasible", !.notified = TRUE]]
         /\ queued' = queued
         /\ pc' = [pc EXCEPT ![a] = "notify"] /\ cursor' = [cursor EXCEPT ![a] = p]
      \/ /\ reg[p].form = "session" /\ reg[p].status = "unresolved" /\ reg[p].unfinished # 1
         /\ reg' = [reg EXCEPT ![p] = [reg[p] EXCEPT !.unfinished = @ - 1]]
         /\ queued \subseteq queued'
         /\ pc' = [pc EXCEPT ![a] = EndOfChain(a)] /\ cursor' = [cursor EXCEPT ![a] = None]
    <2>1. CASE ParentIndifferent(a)
        BY <1>3, <2>1 DEF ParentIndifferent, flagVars
    <2>2. CASE ParentFails(a)
        BY <1>3, <2>2 DEF ParentFails, LastRegion, flagVars
    <2>3. CASE ParentGoesOn(a)
        BY <1>3, <2>3 DEF ParentGoesOn, LastRegion, Enqueue
    <2>. QED BY <2>1, <2>2, <2>3
<1>7. \E d \in Regions : \E k \in {None, p} :
        /\ reg' = [reg EXCEPT ![p] = d] /\ cursor' = [cursor EXCEPT ![a] = k]
        /\ pc' = [pc EXCEPT ![a] = IF k = p THEN "notify" ELSE EndOfChain(a)]
        /\ d.parent = reg[p].parent /\ d.todo = reg[p].todo /\ d.form = reg[p].form
        /\ d.localDone = reg[p].localDone /\ d.reserved = reg[p].reserved
        /\ Sane(d, feasible) /\ Counts(d, Open(p) \ {c})
        /\ Exact(reg[p], Open(p)) => Exact(d, Open(p) \ {c})
        /\ k = p => /\ d.notified /\ d.status = "infeasible"
                    /\ reg[p].form = "session" /\ reg[p].status = "unresolved"
        /\ k = None => d.notified = reg[p].notified /\ d.status = reg[p].status
        /\ queued \subseteq queued'
    <2>1. CASE reg[p].status = "feasible" /\ reg' = reg /\ queued' = queued
               /\ pc' = [pc EXCEPT ![a] = EndOfChain(a)] /\ cursor' = [cursor EXCEPT ![a] = None]
        <3>1. reg' = [reg EXCEPT ![p] = reg[p]]
            BY <1>4, <2>1 DEF IInv, Shape
        <3>2. Counts(reg[p], Open(p) \ {c}) /\ Exact(reg[p], Open(p) \ {c})
            BY <2>1 DEF Counts, Exact
        <3>. QED BY <1>3, <1>4, <2>1, <3>1, <3>2
    <2>2. CASE /\ reg[p].form = "session" /\ reg[p].status = "unresolved" /\ reg[p].unfinished = 1
               /\ reg' = [reg EXCEPT ![p] = [reg[p] EXCEPT !.unfinished = @ - 1,
                                                  !.status = "infeasible", !.notified = TRUE]]
               /\ queued' = queued
               /\ pc' = [pc EXCEPT ![a] = "notify"] /\ cursor' = [cursor EXCEPT ![a] = p]
        <3>1. PICK d : d = [reg[p] EXCEPT !.unfinished = @ - 1, !.status = "infeasible",
                                          !.notified = TRUE]
            OBVIOUS
        <3>2. d \in Regions
            BY <1>4, <3>1, UpdatesTyped
        <3>3. /\ d.parent = reg[p].parent /\ d.todo = reg[p].todo /\ d.form = reg[p].form
              /\ d.localDone = reg[p].localDone /\ d.reserved = reg[p].reserved
              /\ d.notified /\ d.status = "infeasible" /\ d.unfinished = 0
            BY <1>4, <2>2, <3>1 DEF Regions
        <3>4. Open(p) \ {c} = {}
            <4>1. Cardinality(Open(p)) <= 1
                BY <1>3, <1>5, <2>2 DEF Counts, Own
            <4>. QED BY <1>3, <1>5, <4>1, FS_EmptySet
        <3>5. Sane(d, feasible)
            BY SMTT(30), <1>3, <2>2, <3>3 DEF Sane
        <3>6. Counts(d, Open(p) \ {c}) /\ Exact(d, Open(p) \ {c})
            BY <3>3, <3>4 DEF Counts, Exact
        <3>. QED BY <1>4, <2>2, <3>1, <3>2, <3>3, <3>5, <3>6
    <2>3. CASE /\ reg[p].form = "session" /\ reg[p].status = "unresolved" /\ reg[p].unfinished # 1
               /\ reg' = [reg EXCEPT ![p] = [reg[p] EXCEPT !.unfinished = @ - 1]]
               /\ queued \subseteq queued'
               /\ pc' = [pc EXCEPT ![a] = EndOfChain(a)] /\ cursor' = [cursor EXCEPT ![a] = None]
        <3>1. PICK d : d = [reg[p] EXCEPT !.unfinished = @ - 1]
            OBVIOUS
        <3>2. d \in Regions
            BY <1>4, <3>1, UpdatesTyped
        <3>3. /\ d.parent = reg[p].parent /\ d.todo = reg[p].todo /\ d.form = reg[p].form
              /\ d.localDone = reg[p].localDone /\ d.reserved = reg[p].reserved
              /\ d.notified = reg[p].notified /\ d.status = "unresolved"
              /\ d.unfinished = reg[p].unfinished - 1
            BY <1>4, <2>3, <3>1 DEF Regions
        <3>4. reg[p].unfinished \in Nat /\ reg[p].unfinished > 1
            BY SMTT(30), <1>3, <2>3 DEF Sane
        <3>5. Sane(d, feasible)
            BY SMTT(30), <1>3, <2>3, <3>3, <3>4 DEF Sane
        <3>6. Own(d) = Own(reg[p]) /\ Own(d) \in Nat
            BY <3>3 DEF Own
        <3>7. Counts(d, Open(p) \ {c}) /\ (Exact(reg[p], Open(p)) => Exact(d, Open(p) \ {c}))
            BY SMTT(30), <1>3, <1>5, <2>3, <3>3, <3>4, <3>6 DEF Counts, Exact
        <3>. QED BY <1>4, <2>3, <3>1, <3>2, <3>3, <3>5, <3>7
    <2>. QED BY <1>6, <2>1, <2>2, <2>3
<1>8. PICK d \in Regions : \E k \in {None, p} :
        /\ reg' = [reg EXCEPT ![p] = d] /\ cursor' = [cursor EXCEPT ![a] = k]
        /\ pc' = [pc EXCEPT ![a] = IF k = p THEN "notify" ELSE EndOfChain(a)]
        /\ d.parent = reg[p].parent /\ d.todo = reg[p].todo /\ d.form = reg[p].form
        /\ d.localDone = reg[p].localDone /\ d.reserved = reg[p].reserved
        /\ Sane(d, feasible) /\ Counts(d, Open(p) \ {c})
        /\ Exact(reg[p], Open(p)) => Exact(d, Open(p) \ {c})
        /\ k = p => /\ d.notified /\ d.status = "infeasible"
                    /\ reg[p].form = "session" /\ reg[p].status = "unresolved"
        /\ k = None => d.notified = reg[p].notified /\ d.status = reg[p].status
        /\ queued \subseteq queued'
    BY <1>7
<1>9. PICK k \in {None, p} :
        /\ reg' = [reg EXCEPT ![p] = d] /\ cursor' = [cursor EXCEPT ![a] = k]
        /\ pc' = [pc EXCEPT ![a] = IF k = p THEN "notify" ELSE EndOfChain(a)]
        /\ d.parent = reg[p].parent /\ d.todo = reg[p].todo /\ d.form = reg[p].form
        /\ d.localDone = reg[p].localDone /\ d.reserved = reg[p].reserved
        /\ Sane(d, feasible) /\ Counts(d, Open(p) \ {c})
        /\ Exact(reg[p], Open(p)) => Exact(d, Open(p) \ {c})
        /\ k = p => /\ d.notified /\ d.status = "infeasible"
                    /\ reg[p].form = "session" /\ reg[p].status = "unresolved"
        /\ k = None => d.notified = reg[p].notified /\ d.status = reg[p].status
        /\ queued \subseteq queued'
    BY <1>8
<1>10. StaysDecided
    BY <1>2 DEF StaysDecided
<1>11. Forest' = Forest /\ nodes \subseteq nodes'
    BY <1>2, ForestStays
<1>12. Books'
    BY <1>2, <1>9, <1>10, <1>11, BooksArrive
<1>13. reg'[p] = d /\ \A q \in Forest \ {p} : reg'[q] = reg[q]
    BY <1>4, <1>9, ForestTyped DEF IInv, Shape
<1>14. Hands' /\ Flight' /\ Queues'
    <2>1. \A q \in Forest : Mild(reg[q], reg'[q])
        <3>1. Mild(reg[p], d)
            BY <1>3, <1>4, <1>9 DEF Mild
        <3>2. \A q \in Forest \ {p} : Mild(reg[q], reg'[q])
            BY <1>13 DEF Mild
        <3>. QED BY <1>13, <3>1, <3>2
    <2>2. \A q \in Forest : reg'[q].status = "infeasible" /\ ~reg'[q].notified =>
                reg[q].status = "infeasible" /\ ~reg[q].notified
        BY <1>9, <1>13
    <2>3. \A q \in Forest : reg'[q].status = "feasible" => reg[q].status = "feasible"
        BY <1>9, <1>13
    <2>4. \A q \in nodes : Runnable(q)' /\ ~reg'[q].notified =>
                Runnable(q) /\ ~reg[q].notified /\ reg'[q].reserved = reg[q].reserved
        <3>1. ASSUME NEW q \in nodes, q # p, Runnable(q)', ~reg'[q].notified
              PROVE  Runnable(q) /\ ~reg[q].notified /\ reg'[q].reserved = reg[q].reserved
            <4>1. reg'[q] = reg[q]
                BY <1>13, <3>1, ForestTyped DEF IInv
            <4>. QED BY <3>1, <4>1 DEF Runnable, Unresolved, Waiting
        <3>2. ASSUME p \in nodes, Runnable(p)', ~reg'[p].notified
              PROVE  Runnable(p) /\ ~reg[p].notified /\ reg'[p].reserved = reg[p].reserved
            <4>1. k = None
                BY <1>9, <1>13, <3>2
            <4>. QED BY SMTT(30), <1>9, <1>13, <3>2, <4>1 DEF Runnable, Unresolved, Waiting
        <3>. QED BY <3>1, <3>2
    <2>5. PICK j : j = IF k = p THEN "notify" ELSE EndOfChain(a)
        OBVIOUS
    <2>6. j = EndOfChain(a) => k = None
        BY <1>9, <2>5 DEF EndOfChain
    <2>7. /\ pc' = [pc EXCEPT ![a] = j] /\ cursor' = [cursor EXCEPT ![a] = k]
          /\ queued \subseteq queued'
        BY <1>9, <2>5
    <2>8. j \in {EndOfChain(a), "notify", "parent"} /\ pc[a] \in {"notify", "parent"}
        BY <1>2, <2>5
    <2>9. UNCHANGED <<feasible, nodes, child, active, epochActive, cpc, at, event>>
        BY <1>2
    <2>. QED BY <1>10, <2>1, <2>2, <2>3, <2>4, <2>6, <2>7, <2>8, <2>9, AgentMoves
<1>15. AnswerSound'
    BY <1>2 DEF Accounts, AnswerSound
<1>. QED BY <1>12, <1>14, <1>15 DEF Accounts

-----------------------------------------------------------------------------
\* The forest between two epochs.

LEMMA AtRest ==
    ASSUME IInv, Accounts, Quiet, pc[Controller] = "out"
    PROVE  /\ \A a \in Agents : cursor[a] = None
           /\ \A w \in Workers : child[w] = None
           /\ Forest = nodes
           /\ active = {}
           /\ \A r \in nodes : Propagated(r) <=> reg[r].notified /\ reg[r].status = "infeasible"
           /\ \A r \in nodes : reg[r].status = "infeasible" => reg[r].notified
           /\ answer = "unresolved" => \A r \in nodes : reg[r].status # "feasible"
<1>1. Controller \notin Workers /\ Agents = Workers \cup {Controller}
    BY WorkersAssumption DEF Agents
<1>2. \A w \in Workers : pc[w] = "out"
    BY DEF Quiet
<1>3. \A a \in Agents : pc[a] = "out"
    BY <1>1, <1>2
<1>4. \A a \in Agents : cursor[a] = None
    BY <1>3 DEF Accounts, Hands
<1>5. \A w \in Workers : child[w] = None
    BY <1>2 DEF Accounts, Hands
<1>6. Forest = nodes
    BY <1>5 DEF Forest
<1>7. active = {}
    BY <1>2 DEF Accounts, Queues, Owner, OwnerPlaces
<1>8. \A r \in nodes : Propagated(r) <=> reg[r].notified /\ reg[r].status = "infeasible"
    BY <1>4, <1>6, ForestTyped DEF Propagated, IInv, RegionId, None
<1>9. \A r \in nodes : reg[r].status = "infeasible" => reg[r].notified
    BY <1>2, <1>6 DEF Accounts, Flight, Failing
<1>10. answer = "unresolved" => \A r \in nodes : reg[r].status # "feasible"
    BY <1>2, <1>6 DEF Accounts, Flight, Winning
<1>. QED BY <1>4, <1>5, <1>6, <1>7, <1>8, <1>9, <1>10

\* A region of an undecided forest at rest is open or has failed for good; an
\* open region's parent is open; and one that waits for nobody is open.
LEMMA OpenAtRest ==
    ASSUME IInv, Accounts, Quiet, pc[Controller] = "out", answer = "unresolved"
    PROVE  /\ \A r \in nodes : /\ Unresolved(r) <=> ~Propagated(r)
                               /\ Unresolved(r) <=> reg[r].status = "unresolved"
                               /\ Unresolved(r) <=> ~reg[r].notified
           /\ Unresolved(Root)
           /\ \A r \in nodes \ {Root} : Unresolved(r) =>
                    reg[r].parent \in nodes /\ Unresolved(reg[r].parent)
           /\ \A r \in nodes : Unresolved(r) =>
                    reg[r].unfinished = Own(reg[r]) + Cardinality(Open(r))
           /\ \E r \in nodes : Runnable(r)
<1>1. /\ Forest = nodes
      /\ \A r \in nodes : Propagated(r) <=> reg[r].notified /\ reg[r].status = "infeasible"
      /\ \A r \in nodes : reg[r].status = "infeasible" => reg[r].notified
      /\ \A r \in nodes : reg[r].status # "feasible"
    BY AtRest
<1>2. \A r \in nodes : r \in RegionId /\ reg[r] \in Regions
                      /\ Sane(reg[r], feasible) /\ Counts(reg[r], Open(r))
    BY <1>1 DEF IInv, Shape, Accounts, Books, Records
<1>3. ASSUME NEW r \in nodes
      PROVE  /\ Unresolved(r) <=> ~Propagated(r)
             /\ Unresolved(r) <=> reg[r].status = "unresolved"
             /\ Unresolved(r) <=> ~reg[r].notified
    <2>1. CASE reg[r].status = "infeasible"
        BY <1>1, <1>2, <2>1 DEF Unresolved, Sane
    <2>2. CASE reg[r].status = "unresolved"
        BY <1>1, <1>2, <2>2 DEF Unresolved, Sane, Regions
    <2>. QED BY <1>1, <1>2, <2>1, <2>2 DEF Regions
<1>4. Root \in nodes /\ Unresolved(Root)
    BY <1>3 DEF Accounts, Books, Tree, Undecided
<1>5. ASSUME NEW r \in nodes \ {Root}, Unresolved(r)
      PROVE  reg[r].parent \in nodes /\ Unresolved(reg[r].parent)
    <2>1. PICK p : p = reg[r].parent
        OBVIOUS
    <2>2. p \in nodes /\ r \in Open(p)
        BY <1>1, <1>3, <1>5, <2>1 DEF Accounts, Books, Tree, Open
    <2>3. reg[p].status # "infeasible"
        BY <1>2, <2>2 DEF Counts
    <2>. QED BY <1>1, <1>2, <1>3, <2>1, <2>2, <2>3 DEF Regions
<1>6. ASSUME NEW r \in nodes, Unresolved(r)
      PROVE  reg[r].unfinished = Own(reg[r]) + Cardinality(Open(r))
    BY <1>1, <1>3, <1>6 DEF Accounts, Books, Undecided, Exact
<1>7. PICK m \in {r \in nodes : Unresolved(r)} : \A k \in {r \in nodes : Unresolved(r)} : k <= m
    <2>1. {r \in nodes : Unresolved(r)} \in SUBSET RegionId
        BY <1>2
    <2>2. {r \in nodes : Unresolved(r)} # {}
        BY <1>4
    <2>. QED BY <2>1, <2>2, Greatest
<1>8. Open(m) = {}
    <2>. SUFFICES ASSUME NEW c \in Open(m) PROVE FALSE
        OBVIOUS
    <2>1. c \in nodes /\ reg[c].parent = m /\ ~Propagated(c)
        BY <1>1 DEF Open
    <2>2. c # Root
        BY <1>2, <2>1 DEF Accounts, Books, Tree, RegionId, None
    <2>3. m < c /\ c \in Int /\ m \in Int
        BY <1>1, <1>2, <2>1, <2>2 DEF Accounts, Books, Tree, RegionId
    <2>. QED BY <1>3, <1>7, <2>1, <2>3
<1>9. reg[m].unfinished = Own(reg[m])
    <2>1. Cardinality(Open(m)) = 0
        BY <1>8, FS_EmptySet
    <2>. QED BY <1>6, <2>1 DEF Own
<1>10. ~reg[m].localDone
    BY <1>2, <1>3, <1>9 DEF Own, Sane
<1>11. Runnable(m)
    BY <1>7, <1>10 DEF Runnable, Waiting
<1>. QED BY <1>3, <1>4, <1>5, <1>6, <1>11

LEMMA OpenSnapshot ==
    ASSUME IInv, Accounts, Quiet, pc[Controller] = "out", answer = "unresolved"
    PROVE  /\ Saved \subseteq nodes /\ Root \in Saved /\ SavedParent(Root) = None
           /\ \A r \in Saved \ {Root} : SavedParent(r) = reg[r].parent /\ reg[r].parent \in Saved
           /\ \A r \in Saved : Open(r) = {c \in Saved : SavedParent(c) = r}
           /\ Acceptable
<1>1. Forest = nodes /\ nodes \subseteq RegionId /\ \A r : Open(r) \subseteq nodes
    BY AtRest DEF Open, IInv, Shape
<1>2. Saved \subseteq nodes /\ Root \in Saved
    BY OpenAtRest DEF Saved, Accounts, Books, Tree
<1>3. SavedParent(Root) = None
    BY DEF SavedParent, ParentOf, Accounts, Books, Tree
<1>4. ASSUME NEW r \in Saved \ {Root}
      PROVE  SavedParent(r) = reg[r].parent /\ reg[r].parent \in Saved /\ reg[r].parent # None
    <2>1. r \in nodes /\ Unresolved(r)
        BY DEF Saved
    <2>2. reg[r].parent \in nodes /\ Unresolved(reg[r].parent)
        BY <2>1, OpenAtRest
    <2>3. reg[r].parent \in Alive /\ reg[r].parent # None
        BY <1>1, <2>2 DEF Alive, RegionId, None
    <2>. QED BY <2>2, <2>3 DEF SavedParent, ParentOf, Saved
<1>5. ASSUME NEW r \in Saved PROVE Open(r) = {c \in Saved : SavedParent(c) = r}
    <2>1. r # None
        BY <1>1, <1>2 DEF RegionId, None
    <2>2. ASSUME NEW c \in nodes PROVE c \in Open(r) <=> c \in Saved /\ SavedParent(c) = r
        <3>1. CASE c = Root
            BY <1>3, <2>1, <3>1 DEF Open, Accounts, Books, Tree
        <3>2. CASE c # Root
            BY <1>1, <1>4, <3>2, OpenAtRest DEF Open, Saved
        <3>. QED BY <3>1, <3>2
    <2>. QED BY <1>1, <1>2, <2>2
<1>6. {r \in Saved : SavedParent(r) = None} = {Root}
    BY <1>2, <1>3, <1>4
<1>7. Cardinality({r \in Saved : SavedParent(r) = None}) = 1
    BY <1>6, FS_Singleton
<1>8. \A r \in Saved : SavedParent(r) \in Saved \cup {None}
    BY <1>3, <1>4
<1>9. ASSUME NEW r \in Saved
      PROVE  ExternalRegions(r) = Cardinality({c \in Saved : SavedParent(c) = r})
    <2>1. r \in nodes /\ Unresolved(r) /\ Sane(reg[r], feasible)
        BY <1>1 DEF Saved, Accounts, Books, Records
    <2>2. reg[r].unfinished = Own(reg[r]) + Cardinality(Open(r))
        BY <2>1, OpenAtRest
    <2>3. Own(reg[r]) = IF Waiting(r) THEN 0 ELSE 1
        BY <2>1 DEF Own, Waiting, Unresolved, Sane
    <2>4. Cardinality(Open(r)) \in Nat
        BY ForestTyped DEF IInv
    <2>5. ExternalRegions(r) = Cardinality(Open(r))
        BY <2>2, <2>3, <2>4 DEF ExternalRegions, Own
    <2>. QED BY <1>5, <2>5
<1>10. Acceptable
    BY <1>7, <1>8, <1>9 DEF Acceptable
<1>. QED BY <1>2, <1>3, <1>4, <1>5, <1>10

-----------------------------------------------------------------------------
\* The control operations.

LEMMA QuietFlight ==
    ASSUME \A w \in Workers : pc'[w] = "out",
           \A r \in Forest' : reg'[r].status = "infeasible" => reg'[r].notified,
           answer' = "unresolved" => \A r \in Forest' : reg'[r].status # "feasible"
    PROVE  Flight'
BY DEF Flight, InFlight, OwnerPlaces

LEMMA EpochControlCounts ==
    ASSUME IInv, Accounts, UNCHANGED choice, BeginEpoch \/ Drain \/ FinishEpoch \/ Cancel
    PROVE  Accounts'
<1>1. /\ UNCHANGED <<feasible, nodes, reg, queued, active, live, nextId, pc, at, event, child, cursor>>
      /\ answer' # answer => answer' = "cancelled"
      /\ \/ cpc' = "ready" /\ (epochActive' \/ answer' # "unresolved" \/ UNCHANGED <<cpc, epochActive>>)
         \/ cpc' \in {"drain", "reconcile"}
         \/ cpc' = cpc /\ epochActive' = epochActive /\ answer' = "cancelled"
    BY DEF BeginEpoch, Drain, FinishEpoch, Cancel, choice, flagVars, epochVars, localVars, ControlIdle
<1>2. StaysDecided
    BY <1>1 DEF StaysDecided
<1>3. Forest' = Forest
    BY <1>1, ForestStays
<1>4. Hands'
    BY <1>1 DEF Accounts, Hands
<1>5. Books'
    BY <1>1, <1>2, <1>3, BooksStay DEF Accounts
<1>6. Flight'
    <2>1. Controller \notin Workers /\ pc[Controller] \in {"out", "notify", "parent"}
        BY WorkersAssumption DEF Accounts, Hands
    <2>2. \A q : ~Failing(Controller, q) /\ ~Winning(Controller, q)
        BY <2>1 DEF Failing, Winning
    <2>. QED BY <1>1, <1>2, <1>3, <2>1, <2>2, FlightPasses DEF Accounts, Books, IInv
<1>7. AnswerSound'
    BY <1>1 DEF Accounts, AnswerSound
<1>8. Queues'
    BY <1>1 DEF Accounts, Queues, Runnable, Unresolved, Waiting, Reserved
<1>. QED BY <1>4, <1>5, <1>6, <1>7, <1>8 DEF Accounts

\* A claim taken or given back.
LEMMA ReserveCounts ==
    ASSUME IInv, Accounts, Quiet, pc[Controller] = "out",
           UNCHANGED <<feasible, nodes, active, answer, epochActive, live, nextId, pc, at, event,
                       child, cursor, cpc>>,
           NEW r \in nodes, NEW b \in BOOLEAN,
           reg' = [reg EXCEPT ![r] = [reg[r] EXCEPT !.reserved = b]],
           queued \subseteq queued', b \/ r \in queued'
    PROVE  Accounts'
<1>1. Forest = nodes /\ Forest' = nodes /\ r \in RegionId /\ reg[r] \in Regions
    BY AtRest, ForestStays DEF IInv, Shape
<1>2. PICK d : d = [reg[r] EXCEPT !.reserved = b]
    OBVIOUS
<1>3. d \in Regions
    BY <1>1, <1>2, UpdatesTyped
<1>4. /\ d.parent = reg[r].parent /\ d.form = reg[r].form /\ d.status = reg[r].status
      /\ d.todo = reg[r].todo /\ d.unfinished = reg[r].unfinished /\ d.localDone = reg[r].localDone
      /\ d.notified = reg[r].notified /\ d.reserved = b
    BY <1>1, <1>2 DEF Regions
<1>5. reg' = [reg EXCEPT ![r] = d]
    BY <1>2
<1>6. reg'[r] = d /\ \A q \in nodes \ {r} : reg'[q] = reg[q]
    BY <1>1, <1>5 DEF IInv, Shape
<1>7. Sane(reg[r], feasible) /\ Counts(reg[r], Open(r))
    BY <1>1 DEF Accounts, Books, Records
<1>8. Sane(d, feasible) /\ Counts(d, Open(r)) /\ (Exact(reg[r], Open(r)) => Exact(d, Open(r)))
    BY <1>4, <1>7 DEF Sane, Counts, Exact, Own
<1>9. Failures' /\ \A c \in Forest : Propagated(c)' <=> Propagated(c)
    BY <1>1, <1>3, <1>4, <1>5, StillClosed DEF Accounts, IInv
<1>10. d.status = "infeasible" => reg[r].todo \cap feasible = {}
    BY <1>4, <1>7 DEF Sane
<1>11. Books'
    BY <1>1, <1>3, <1>4, <1>5, <1>8, <1>9, <1>10, BooksRegion DEF Accounts, IInv, StaysDecided
<1>12. Flight'
    <2>1. \A w \in Workers : pc'[w] = "out"
        BY DEF Quiet
    <2>2. \A q \in nodes : reg[q].status = "infeasible" => reg[q].notified
        BY AtRest
    <2>3. answer = "unresolved" => \A q \in nodes : reg[q].status # "feasible"
        BY AtRest
    <2>4. \A q \in nodes : reg'[q].status = reg[q].status /\ reg'[q].notified = reg[q].notified
        BY <1>4, <1>6
    <2>. QED BY <1>1, <2>1, <2>2, <2>3, <2>4, QuietFlight
<1>13. Hands'
    BY DEF Accounts, Hands
<1>14. AnswerSound'
    BY DEF Accounts, AnswerSound
<1>15. Queues'
    <2>1. ASSUME cpc = "ready", ~epochActive, answer = "unresolved", NEW q \in nodes,
                 Runnable(q)', ~reg'[q].notified
          PROVE  reg'[q].reserved \/ q \in queued'
        <3>1. CASE q = r
            BY <1>4, <1>6, <3>1
        <3>2. CASE q # r
            <4>1. reg'[q] = reg[q]
                BY <1>6, <3>2
            <4>2. Runnable(q) /\ ~reg[q].notified
                BY <2>1, <4>1 DEF Runnable, Unresolved, Waiting
            <4>. QED BY <2>1, <4>1, <4>2 DEF Accounts, Queues, Reserved
        <3>. QED BY <3>1, <3>2
    <2>2. active' = {}
        BY AtRest
    <2>. QED BY <2>1, <2>2 DEF Accounts, Queues, Reserved
<1>. QED BY <1>11, <1>12, <1>13, <1>14, <1>15 DEF Accounts

LEMMA ClaimFragmentCounts ==
    ASSUME IInv, Accounts, UNCHANGED choice, NEW r \in RegionId, ClaimFragment(r)
    PROVE  Accounts'
<1>1. /\ Quiet /\ pc[Controller] = "out" /\ r \in nodes /\ queued' = queued
      /\ UNCHANGED <<feasible, nodes, active, answer, epochActive, live, nextId, pc, at, event,
                     child, cursor, cpc>>
      /\ reg' = [reg EXCEPT ![r] = [reg[r] EXCEPT !.reserved = TRUE]]
    BY DEF ClaimFragment, ControlIdle, choice, flagVars, epochVars, localVars
<1>. QED BY <1>1, ReserveCounts

LEMMA ReleaseFragmentCounts ==
    ASSUME IInv, Accounts, UNCHANGED choice, NEW r \in RegionId, ReleaseFragment(r)
    PROVE  Accounts'
<1>1. /\ Quiet /\ pc[Controller] = "out" /\ r \in nodes
      /\ UNCHANGED <<feasible, nodes, active, answer, epochActive, live, nextId, pc, at, event,
                     child, cursor, cpc>>
      /\ reg' = [reg EXCEPT ![r] = [reg[r] EXCEPT !.reserved = FALSE]]
    BY DEF ReleaseFragment, ClaimValid, ControlIdle, choice, epochVars, localVars
<1>2. queued' = queued \cup {r}
    BY <1>1, AtRest DEF ReleaseFragment, Enqueue
<1>. QED BY <1>1, <1>2, ReserveCounts

LEMMA DonateAndClaimCounts ==
    ASSUME IInv, Accounts, UNCHANGED choice, NEW r \in RegionId, DonateAndClaim(r)
    PROVE  Accounts'
<1>1. /\ Quiet /\ pc[Controller] = "out" /\ r \in nodes
      /\ reg[r].form = "session" /\ reg[r].status = "unresolved" /\ ~Waiting(r)
      /\ ~reg[r].notified
      /\ UNCHANGED <<feasible, queued, active, answer, epochActive, pc, at, event, child, cursor, cpc>>
      /\ live' = live + 1 /\ nextId' = nextId + 1 /\ nextId <= MaxRegions
      /\ nodes' = nodes \cup {nextId}
    BY DEF DonateAndClaim, ControlIdle, choice, flagVars, epochVars, localVars
<1>2. PICK n \in RegionId : n = nextId
    BY <1>1, ForestBoundsAssumption DEF IInv, Shape, RegionId
<1>3. Forest = nodes /\ Forest' = nodes \cup {n} /\ n \notin nodes /\ reg[r] \in Regions
    <2>1. \A w \in Workers : child[w] = None
        BY <1>1, AtRest
    <2>2. Forest = nodes
        BY <1>1, AtRest
    <2>3. Forest' = nodes \cup {n}
        BY <1>1, <1>2, <2>1 DEF Forest
    <2>4. n \notin nodes
        BY <1>2, <2>2, ForestTyped DEF Accounts, Books, Tree, IInv, RegionId
    <2>. QED BY <2>2, <2>3, <2>4 DEF IInv, Shape
<1>4. PICK D \in SUBSET Leaves :
        /\ D \subseteq reg[r].todo
        /\ reg' = [reg EXCEPT ![r] = Donates(reg[r], D),
                              ![nextId] = [Node(r, "deferred", D, 1) EXCEPT !.reserved = TRUE]]
    <2>1. reg[r].todo \in SUBSET Leaves
        BY <1>3 DEF Regions
    <2>. QED BY <2>1 DEF DonateAndClaim
<1>5. PICK d : d = Donates(reg[r], D)
    OBVIOUS
<1>6. PICK e : e = [Node(r, "deferred", D, 1) EXCEPT !.reserved = TRUE]
    OBVIOUS
<1>7. d \in Regions /\ e \in Regions
    BY <1>3, <1>5, <1>6, DonorTyped, ChildTyped DEF IInv, Shape
<1>8. /\ d.parent = reg[r].parent /\ d.status = "unresolved" /\ ~d.notified /\ ~d.localDone
      /\ d.form = "session" /\ d.unfinished = reg[r].unfinished + 1
      /\ d.todo = reg[r].todo \ D /\ d.reserved = reg[r].reserved /\ ~reg[r].localDone
    BY <1>1, <1>3, <1>5 DEF Donates, Regions, Waiting
<1>9. /\ e.parent = r /\ e.status = "unresolved" /\ ~e.notified /\ ~e.localDone
      /\ e.form = "deferred" /\ e.unfinished = 1 /\ e.todo = D /\ e.reserved
    BY <1>6 DEF Node
<1>10. reg'[r] = d /\ reg'[n] = e /\ \A q \in RegionId \ {r, n} : reg'[q] = reg[q]
    BY <1>1, <1>2, <1>3, <1>4, <1>5, <1>6 DEF IInv, Shape
<1>11. Books'
    BY ZenonT(60), <1>1, <1>2, <1>3, <1>4, <1>7, <1>8, <1>9, <1>10, BooksDonate
       DEF Accounts, IInv, StaysDecided
<1>12. Flight'
    <2>1. \A w \in Workers : pc'[w] = "out"
        BY <1>1 DEF Quiet
    <2>2. \A q \in nodes : reg[q].status = "infeasible" => reg[q].notified
        BY <1>1, AtRest
    <2>3. answer = "unresolved" => \A q \in nodes : reg[q].status # "feasible"
        BY <1>1, AtRest
    <2>4. \A q \in Forest' \ {r, n} : q \in nodes /\ reg'[q] = reg[q]
        BY <1>3, <1>10 DEF IInv, Shape
    <2>5. \A q \in Forest' : reg'[q].status = "infeasible" => reg'[q].notified
        BY <1>8, <1>9, <1>10, <2>2, <2>4
    <2>6. answer' = "unresolved" => \A q \in Forest' : reg'[q].status # "feasible"
        BY <1>1, <1>8, <1>9, <1>10, <2>3, <2>4
    <2>. QED BY <2>1, <2>5, <2>6, QuietFlight
<1>13. Hands'
    BY <1>1 DEF Accounts, Hands
<1>14. AnswerSound'
    BY <1>1 DEF Accounts, AnswerSound
<1>15. Queues'
    <2>1. ASSUME cpc = "ready", ~epochActive, answer = "unresolved", NEW q \in nodes',
                 Runnable(q)', ~reg'[q].notified
          PROVE  reg'[q].reserved \/ q \in queued
        <3>1. CASE q = n
            BY <1>9, <1>10, <3>1
        <3>2. CASE q = r
            <4>1. Runnable(r)
                BY <1>1 DEF Runnable, Unresolved
            <4>. QED BY <1>1, <1>8, <1>10, <2>1, <3>2, <4>1 DEF Accounts, Queues, Reserved
        <3>3. CASE q # r /\ q # n
            <4>1. q \in nodes /\ reg'[q] = reg[q]
                BY <1>1, <1>2, <1>10, <3>3 DEF IInv, Shape
            <4>2. Runnable(q) /\ ~reg[q].notified
                BY <2>1, <4>1 DEF Runnable, Unresolved, Waiting
            <4>. QED BY <2>1, <4>1, <4>2 DEF Accounts, Queues, Reserved
        <3>. QED BY <3>1, <3>2, <3>3
    <2>2. active' = {}
        BY <1>1, AtRest
    <2>. QED BY <1>1, <2>1, <2>2 DEF Accounts, Queues, Reserved
<1>. QED BY <1>11, <1>12, <1>13, <1>14, <1>15 DEF Accounts

LEMMA RetireFragmentCounts ==
    ASSUME IInv, Accounts, UNCHANGED choice, NEW r \in RegionId, RetireFragment(r)
    PROVE  Accounts'
<1>1. /\ Quiet /\ pc[Controller] = "out" /\ r \in nodes
      /\ Whole(r) /\ ~reg[r].notified /\ reg[r].todo \cap feasible = {}
      /\ UNCHANGED <<feasible, nodes, queued, active, answer, epochActive, live, nextId, at, event,
                     child, cpc>>
      /\ pc' = [pc EXCEPT ![Controller] = "notify"]
      /\ cursor' = [cursor EXCEPT ![Controller] = r]
      /\ reg' = [reg EXCEPT ![r] = [reg[r] EXCEPT !.reserved = FALSE, !.form = "session",
                            !.status = "infeasible", !.todo = {}, !.notified = TRUE]]
    BY DEF RetireFragment, ClaimValid, ControlIdle, choice, flagVars, epochVars
<1>2. Controller \notin Workers /\ Controller \in Agents /\ Workers \subseteq Agents
    BY WorkersAssumption DEF Agents
<1>3. Forest = nodes /\ Forest' = nodes /\ reg[r] \in Regions /\ r # None
    BY <1>1, AtRest, ForestStays DEF IInv, Shape, RegionId, None
<1>4. PICK d : d = [reg[r] EXCEPT !.reserved = FALSE, !.form = "session",
                            !.status = "infeasible", !.todo = {}, !.notified = TRUE]
    OBVIOUS
<1>5. d \in Regions
    BY <1>3, <1>4, UpdatesTyped DEF IInv, Shape
<1>6. /\ d.parent = reg[r].parent /\ d.form = "session" /\ d.status = "infeasible"
      /\ d.todo = {} /\ d.unfinished = reg[r].unfinished /\ d.localDone = reg[r].localDone
      /\ d.notified
    BY <1>3, <1>4 DEF Regions
<1>7. reg' = [reg EXCEPT ![r] = d]
    BY <1>1, <1>4
<1>8. reg'[r] = d /\ \A q \in nodes \ {r} : reg'[q] = reg[q]
    BY <1>1, <1>3, <1>7 DEF IInv, Shape
<1>9. Sane(reg[r], feasible) /\ Counts(reg[r], Open(r))
    BY <1>1, <1>3 DEF Accounts, Books, Records
<1>10. Open(r) = {}
    <2>1. reg[r].status = "unresolved" /\ reg[r].unfinished = 1 /\ Own(reg[r]) = 1
        BY <1>1, <1>9 DEF Whole, Unresolved, Waiting, Sane, Own
    <2>2. Cardinality(Open(r)) = 0
        BY <1>9, <2>1, ForestTyped DEF Counts, IInv
    <2>. QED BY <2>2, ForestTyped, FS_EmptySet DEF IInv
<1>11. Sane(d, feasible) /\ Counts(d, Open(r)) /\ Exact(d, Open(r))
    BY <1>6, <1>9, <1>10 DEF Sane, Counts, Exact
<1>12. cursor'[Controller] = r /\ \A a \in Agents \ {Controller} : cursor'[a] = None
    BY <1>1, <1>2, AtRest DEF IInv, Shape
<1>13. Failures'
    BY <1>1, <1>3, <1>6, <1>8, <1>12 DEF Failures
<1>14. \A c \in Forest : Propagated(c)' <=> Propagated(c)
    <2>1. ~Propagated(r)'
        BY <1>2, <1>12 DEF Propagated
    <2>2. ~Propagated(r)
        BY <1>1 DEF Propagated
    <2>3. ASSUME NEW c \in nodes, c # r
          PROVE  Propagated(c)' <=> Propagated(c)
        <3>1. reg'[c] = reg[c] /\ c # None
            BY <1>8, <2>3 DEF IInv, Shape, RegionId, None
        <3>2. \A a \in Agents : cursor'[a] # c /\ cursor[a] # c
            BY <1>1, <1>12, <2>3, <3>1, AtRest
        <3>. QED BY <3>1, <3>2 DEF Propagated
    <2>. QED BY <1>3, <2>1, <2>2, <2>3
<1>15. Books'
    <2>1. /\ StaysDecided /\ Shape /\ Books /\ r \in Forest /\ Forest' = Forest
          /\ nodes \subseteq nodes' /\ d.todo \subseteq reg[r].todo
          /\ d.todo \cap feasible = reg[r].todo \cap feasible
        BY <1>1, <1>3, <1>6 DEF StaysDecided, Accounts, IInv
    <2>. QED BY <1>1, <1>5, <1>6, <1>7, <1>11, <1>13, <1>14, <2>1, BooksRegion
<1>16. \A w \in Workers : pc'[w] = "out"
    BY <1>1, <1>2 DEF Quiet, IInv, Shape
<1>17. Flight'
    <2>1. \A q \in nodes : reg[q].status = "infeasible" => reg[q].notified
        BY <1>1, AtRest
    <2>2. answer = "unresolved" => \A q \in nodes : reg[q].status # "feasible"
        BY <1>1, AtRest
    <2>3. \A q \in nodes : reg'[q].status = "infeasible" => reg'[q].notified
        BY <1>6, <1>8, <2>1
    <2>4. answer' = "unresolved" => \A q \in nodes : reg'[q].status # "feasible"
        BY <1>1, <1>6, <1>8, <2>2
    <2>. QED BY <1>3, <1>16, <2>3, <2>4, QuietFlight
<1>18. Hands'
    <2>1. pc'[Controller] = "notify"
        BY <1>1, <1>2 DEF IInv, Shape
    <2>2. \A w \in Workers : child'[w] = None
        BY <1>1, AtRest
    <2>. QED BY <1>12, <2>1, <2>2 DEF Hands
<1>19. AnswerSound'
    BY <1>1 DEF Accounts, AnswerSound
<1>20. Queues'
    <2>1. ASSUME cpc = "ready", ~epochActive, answer = "unresolved", NEW q \in nodes,
                 Runnable(q)', ~reg'[q].notified
          PROVE  reg'[q].reserved \/ q \in queued
        <3>1. q # r
            BY <1>6, <1>8, <2>1
        <3>2. reg'[q] = reg[q]
            BY <1>8, <3>1
        <3>3. Runnable(q) /\ ~reg[q].notified
            BY <2>1, <3>2 DEF Runnable, Unresolved, Waiting
        <3>. QED BY <2>1, <3>2, <3>3 DEF Accounts, Queues, Reserved
    <2>2. active' = {}
        BY <1>1, AtRest
    <2>. QED BY <1>1, <2>1, <2>2 DEF Accounts, Queues, Reserved
<1>. QED BY <1>15, <1>17, <1>18, <1>19, <1>20 DEF Accounts

\* The books of an undecided forest at rest that loses failed regions only.
LEMMA BooksShrink ==
    ASSUME IInv, Accounts, Quiet, pc[Controller] = "out", answer = "unresolved",
           UNCHANGED <<feasible, answer, child, cursor>>,
           nodes' \subseteq nodes, \A r \in nodes : Unresolved(r) => r \in nodes',
           \A r \in nodes' :
                /\ reg'[r].parent = reg[r].parent /\ reg'[r].status = reg[r].status
                /\ reg'[r].todo = reg[r].todo /\ reg'[r].unfinished = reg[r].unfinished
                /\ reg'[r].localDone = reg[r].localDone /\ reg'[r].notified = reg[r].notified
                /\ Sane(reg'[r], feasible),
           \A r \in RegionId \ nodes' : reg'[r] = Blank,
           live' = Cardinality(nodes'), \A r \in nodes' : r < nextId'
    PROVE  Books'
<1>1. Forest = nodes /\ Forest' = nodes' /\ nodes \subseteq RegionId
    <2>1. \A w \in Workers : child[w] = None
        BY AtRest
    <2>. QED BY <2>1, AtRest DEF Forest, IInv, Shape
<1>2. \A r \in nodes' : Propagated(r)' <=> Propagated(r)
    BY DEF Propagated
<1>3. \A r : Open(r)' = Open(r)
    <2>. SUFFICES ASSUME NEW r PROVE Open(r)' = Open(r)
        OBVIOUS
    <2>1. \A c \in nodes : c \in Open(r) => c \in nodes'
        BY OpenAtRest DEF Open
    <2>2. \A c \in nodes' : c \in Open(r)' <=> c \in Open(r)
        BY <1>1, <1>2 DEF Open
    <2>3. Open(r) \subseteq nodes /\ Open(r)' \subseteq nodes'
        BY <1>1 DEF Open
    <2>. QED BY <2>1, <2>2, <2>3
<1>4. Tree'
    <2>1. Root \in nodes' /\ reg'[Root].parent = None
        BY OpenAtRest DEF Accounts, Books, Tree
    <2>2. \A r \in nodes' \ {Root} : reg'[r].parent \in RegionId /\ reg'[r].parent < r
        BY <1>1 DEF Accounts, Books, Tree
    <2>3. \A r \in nodes' \ {Root} : ~Propagated(r)' => reg'[r].parent \in nodes'
        BY <1>2, OpenAtRest
    <2>. QED BY <1>1, <2>1, <2>2, <2>3 DEF Tree
<1>5. Records'
    <2>. SUFFICES ASSUME NEW r \in nodes' PROVE Counts(reg'[r], Open(r))
        BY <1>1, <1>3 DEF Records
    <2>1. Counts(reg[r], Open(r))
        BY <1>1 DEF Accounts, Books, Records
    <2>. QED BY <2>1 DEF Counts, Own
<1>6. Failures'
    <2>1. \A a \in Agents : cursor'[a] = None
        BY AtRest
    <2>. QED BY <2>1 DEF Failures
<1>7. Apart'
    BY <1>1 DEF Accounts, Books, Apart
<1>8. Undecided'
    <2>1. ~Propagated(Root)'
        <3>1. Root \in nodes' /\ ~Propagated(Root)
            BY OpenAtRest DEF Accounts, Books, Tree, Undecided
        <3>. QED BY <1>2, <3>1
    <2>2. ASSUME NEW r \in nodes' PROVE Exact(reg'[r], Open(r))
        <3>1. Exact(reg[r], Open(r))
            BY <1>1 DEF Accounts, Books, Undecided
        <3>. QED BY <3>1 DEF Exact, Own
    <2>3. ASSUME NEW l \in feasible
          PROVE  \E r \in nodes' : l \in reg'[r].todo /\ reg'[r].status # "infeasible"
        <3>1. PICK r \in nodes : l \in reg[r].todo /\ reg[r].status # "infeasible"
            BY <1>1 DEF Accounts, Books, Undecided
        <3>2. reg[r] \in Regions
            BY <1>1 DEF IInv, Shape
        <3>3. reg[r].status = "unresolved"
            BY <3>1, <3>2, AtRest DEF Regions
        <3>4. r \in nodes'
            BY <3>3, OpenAtRest
        <3>. QED BY <3>1, <3>4
    <2>. QED BY <1>1, <1>3, <2>1, <2>2, <2>3 DEF Undecided
<1>. QED BY <1>4, <1>5, <1>6, <1>7, <1>8 DEF Books

LEMMA ReconcileEndsCounts ==
    ASSUME IInv, Accounts, UNCHANGED choice, ReconcileEnds
    PROVE  Accounts'
<1>1. /\ Quiet /\ pc[Controller] = "out"
      /\ UNCHANGED <<feasible, answer, epochActive, nextId, pc, at, event, child, cursor>>
    BY DEF ReconcileEnds, choice, epochVars, localVars, IInv, EpochsQuiet
<1>2. Hands'
    BY <1>1 DEF Accounts, Hands
<1>3. AnswerSound'
    BY <1>1 DEF Accounts, AnswerSound
<1>4. \A w \in Workers : pc'[w] = "out"
    BY <1>1 DEF Quiet
<1>5. CASE answer # "unresolved"
    <2>1. cpc' = "ready" /\ UNCHANGED <<nodes, reg, active, live>>
        BY <1>5 DEF ReconcileEnds, flagVars
    <2>2. Forest' = Forest /\ Forest = nodes
        BY <1>1, <2>1, ForestStays, AtRest
    <2>3. Books'
        BY <1>1, <2>1, <2>2, BooksStay DEF Accounts, StaysDecided
    <2>4. \A q \in nodes : reg[q].status = "infeasible" => reg[q].notified
        BY <1>1, AtRest
    <2>5. Flight'
        BY <1>1, <1>4, <1>5, <2>1, <2>2, <2>4, QuietFlight
    <2>6. active' = {}
        BY <1>1, <2>1, AtRest
    <2>7. Queues'
        BY <1>1, <1>5, <2>1, <2>6 DEF Queues
    <2>. QED BY <1>2, <1>3, <2>3, <2>5, <2>7 DEF Accounts
<1>6. CASE answer = "unresolved"
    <2>1. PICK kept : kept = {r \in nodes : Keeps(r)}
        OBVIOUS
    <2>2. /\ nodes' = kept
          /\ reg' = [r \in RegionId |-> IF r \in nodes \ kept THEN Blank ELSE reg[r]]
          /\ live' = live - Cardinality(nodes \ kept)
          /\ queued' = queued \cup (ToQueue(kept) \ active)
          /\ cpc' = IF ToQueue(kept) = {} /\ ~\E r \in kept : Reserved(r)
                    THEN "stuck" ELSE "ready"
          /\ active' = active
        BY <1>6, <2>1 DEF ReconcileEnds
    <2>3. Forest = nodes /\ nodes \subseteq RegionId /\ kept \subseteq nodes /\ active = {}
        BY <1>1, <2>1, AtRest DEF IInv, Shape
    <2>4. \A r \in nodes : Unresolved(r) => r \in kept
        BY <1>1, <1>6, <2>1, OpenAtRest DEF Keeps
    <2>5. \A r \in kept : reg'[r] = reg[r] /\ Sane(reg[r], feasible) /\ r < nextId
        BY <2>2, <2>3 DEF Accounts, Books, Records, Tree
    <2>6. \A r \in RegionId \ kept : reg'[r] = Blank
        BY <2>2, <2>3 DEF Accounts, Books, Tree
    <2>7. live' = Cardinality(kept)
        <3>1. IsFiniteSet(nodes) /\ live = Cardinality(nodes) /\ Cardinality(nodes) \in Nat
            BY <2>3, ForestTyped DEF IInv, Accounts, Books, Tree
        <3>2. IsFiniteSet(kept) /\ Cardinality(kept) \in Nat
            BY <2>3, <3>1, FS_Subset, FS_CardinalityType
        <3>3. nodes \cap kept = kept
            BY <2>3
        <3>4. Cardinality(nodes \ kept) = Cardinality(nodes) - Cardinality(nodes \cap kept)
            BY <3>1, FS_Difference
        <3>5. PICK lost : lost = Cardinality(nodes \ kept)
            OBVIOUS
        <3>6. lost = Cardinality(nodes) - Cardinality(kept)
            BY <3>3, <3>4, <3>5
        <3>7. live' = Cardinality(nodes) - lost
            BY <2>2, <3>1, <3>5
        <3>. QED BY <3>1, <3>2, <3>6, <3>7
    <2>8. Books'
        BY <1>1, <1>6, <2>2, <2>3, <2>4, <2>5, <2>6, <2>7, BooksShrink
    <2>9. Forest' = kept
        BY <1>1, <2>2, AtRest DEF Forest
    <2>10. Flight'
        <3>1. \A q \in kept : reg[q].status = "infeasible" => reg[q].notified
            BY <1>1, <2>3, AtRest
        <3>2. \A q \in kept : reg[q].status # "feasible"
            BY <1>1, <1>6, <2>3, AtRest
        <3>. QED BY <1>4, <2>5, <2>9, <3>1, <3>2, QuietFlight
    <2>11. Queues'
        <3>1. PICK m \in nodes : Runnable(m)
            BY <1>1, <1>6, OpenAtRest
        <3>2. Unresolved(m) /\ m \in kept /\ ~reg[m].notified
            BY <1>1, <1>6, <2>4, <3>1, OpenAtRest DEF Runnable
        <3>3. cpc' = "ready"
            BY <2>2, <3>1, <3>2 DEF ToQueue
        <3>4. ASSUME NEW q \in kept, Runnable(q)', ~reg'[q].notified
              PROVE  reg'[q].reserved \/ q \in queued'
            <4>1. reg'[q] = reg[q]
                BY <2>5
            <4>2. Runnable(q) /\ ~reg[q].notified
                BY <3>4, <4>1 DEF Runnable, Unresolved, Waiting
            <4>. QED BY <2>2, <2>3, <4>1, <4>2 DEF ToQueue, Reserved
        <3>. QED BY <2>2, <2>3, <3>3, <3>4 DEF Queues, Reserved
    <2>. QED BY <1>2, <1>3, <2>8, <2>10, <2>11 DEF Accounts
<1>. QED BY <1>5, <1>6

LEMMA RestartCounts ==
    ASSUME IInv, Accounts, UNCHANGED choice, Restart
    PROVE  Accounts'
<1>1. /\ Quiet /\ pc[Controller] = "out" /\ cpc = "ready" /\ answer = "unresolved"
      /\ UNCHANGED <<feasible, answer, pc, at, event, child, cursor, cpc>>
      /\ nodes' = Saved /\ live' = Cardinality(Saved)
      /\ queued' = {r \in Saved : ~Waiting(r)} /\ active' = {}
    BY DEF Restart, CanSnapshot, ControlIdle, choice, localVars
<1>2. PICK defer \in SUBSET {r \in Saved : recursive /\ Whole(r)} :
        reg' = [r \in RegionId |->
                  IF r \in Saved
                  THEN [reg[r] EXCEPT !.parent = SavedParent(r), !.started = FALSE,
                                      !.form = IF r \in defer THEN "deferred" ELSE "session"]
                  ELSE Blank]
    BY DEF Restart
<1>3. /\ Saved \subseteq nodes /\ nodes \subseteq RegionId /\ Root \in Saved
      /\ \A r \in Saved : SavedParent(r) = reg[r].parent
    BY <1>1, OpenSnapshot DEF IInv, Shape, Accounts, Books, Tree
<1>4. ASSUME NEW r \in Saved
      PROVE  /\ reg'[r].parent = reg[r].parent /\ reg'[r].status = reg[r].status
             /\ reg'[r].todo = reg[r].todo /\ reg'[r].unfinished = reg[r].unfinished
             /\ reg'[r].localDone = reg[r].localDone /\ reg'[r].notified = reg[r].notified
             /\ reg'[r].form = IF r \in defer THEN "deferred" ELSE "session"
             /\ reg'[r].reserved = reg[r].reserved
    <2>1. reg[r] \in Regions /\ r \in RegionId /\ SavedParent(r) = reg[r].parent
        BY <1>3 DEF IInv, Shape
    <2>2. reg'[r] = [reg[r] EXCEPT !.parent = SavedParent(r), !.started = FALSE,
                                   !.form = IF r \in defer THEN "deferred" ELSE "session"]
        BY <1>2, <2>1
    <2>. QED BY <2>1, <2>2 DEF Regions
<1>5. ASSUME NEW r \in Saved
      PROVE  /\ Sane(reg'[r], feasible) /\ reg'[r].status = "unresolved" /\ ~reg'[r].notified
             /\ reg[r].localDone => r \notin defer
    <2>1. Sane(reg[r], feasible) /\ Unresolved(r) /\ reg[r].status = "unresolved" /\ ~reg[r].notified
        BY <1>1, <1>3, AtRest, OpenAtRest DEF Saved, Accounts, Books, Records
    <2>2. r \in defer => reg[r].unfinished = 1 /\ ~reg[r].localDone
        BY <2>1 DEF Whole, Waiting, Unresolved, Sane
    <2>. QED BY <1>4, <2>1, <2>2 DEF Sane
<1>6. Books'
    <2>1. \A r \in nodes : Unresolved(r) => r \in nodes'
        BY <1>1 DEF Saved
    <2>2. \A r \in RegionId \ nodes' : reg'[r] = Blank
        BY <1>1, <1>2
    <2>3. \A r \in nodes' : r < nextId'
        <3>1. PICK m \in Saved : (\A r \in Saved : r <= m) /\ nextId' = m + 1
            BY DEF Restart
        <3>2. \A r \in Saved : r \in Int
            BY <1>3 DEF RegionId
        <3>. QED BY <1>1, <3>1, <3>2
    <2>4. /\ nodes' \subseteq nodes /\ live' = Cardinality(nodes')
          /\ UNCHANGED <<feasible, answer, child, cursor>>
        BY <1>1, <1>3
    <2>5. \A r \in nodes' :
             /\ reg'[r].parent = reg[r].parent /\ reg'[r].status = reg[r].status
             /\ reg'[r].todo = reg[r].todo /\ reg'[r].unfinished = reg[r].unfinished
             /\ reg'[r].localDone = reg[r].localDone /\ reg'[r].notified = reg[r].notified
             /\ Sane(reg'[r], feasible)
        BY <1>1, <1>4, <1>5
    <2>. QED BY <1>1, <2>1, <2>2, <2>3, <2>4, <2>5, BooksShrink
<1>7. Forest' = Saved
    BY <1>1, AtRest DEF Forest
<1>8. Flight'
    <2>1. \A w \in Workers : pc'[w] = "out"
        BY <1>1 DEF Quiet
    <2>. QED BY <1>5, <1>7, <2>1, QuietFlight
<1>9. Hands' /\ AnswerSound'
    BY <1>1 DEF Accounts, Hands, AnswerSound
<1>10. Queues'
    <2>1. ASSUME NEW q \in Saved, Runnable(q)'
          PROVE  q \in queued'
        <3>1. ~Waiting(q)
            BY <1>4, <1>5, <2>1 DEF Runnable, Waiting
        <3>. QED BY <1>1, <3>1
    <2>. QED BY <1>1, <2>1 DEF Queues
<1>. QED BY <1>6, <1>8, <1>9, <1>10 DEF Accounts

-----------------------------------------------------------------------------
\* The initial states.

LEMMA InitAccounts ==
    ASSUME Init
    PROVE  Accounts
<1>1. IInv
    BY InitIInv
<1>2. /\ feasible \in SUBSET Leaves
      /\ queued = ToSet(ready) /\ active = {} /\ answer = "unresolved" /\ ~epochActive
      /\ live = Cardinality(nodes) /\ nextId = live + 1 /\ cpc = "ready"
      /\ \A a \in Agents : pc[a] = "out" /\ cursor[a] = None
      /\ \A w \in Workers : child[w] = None /\ pc[w] = "out"
    BY SearchesAssumption DEF Init, Agents
<1>3. Forest = nodes
    BY <1>2 DEF Forest
<1>4. Hands
    BY <1>2 DEF Hands, Agents
<1>5. Root \in RegionId
    BY ForestBoundsAssumption DEF Root, RegionId
<1>6. CASE SingleRoot
    <2>1. /\ nodes = {Root} /\ ready = <<Root>>
          /\ reg[Root] = Node(None, "session", Leaves, 1)
          /\ \A r \in RegionId \ {Root} : reg[r] = Blank
        BY <1>5, <1>6 DEF SingleRoot
    <2>2. /\ reg[Root].parent = None /\ reg[Root].form = "session"
          /\ reg[Root].status = "unresolved" /\ reg[Root].todo = Leaves
          /\ reg[Root].unfinished = 1 /\ ~reg[Root].localDone /\ ~reg[Root].notified
        BY <2>1 DEF Node
    <2>3. Open(Root) = {}
        BY <1>3, <2>1, <2>2 DEF Open, Root, None
    <2>4. Cardinality(Open(Root)) = 0
        BY <2>3, FS_EmptySet
    <2>5. live = 1 /\ nextId = 2
        BY <1>2, <2>1, FS_Singleton
    <2>6. Tree
        BY <1>2, <1>3, <2>1, <2>2, <2>5 DEF Tree, Root
    <2>7. Sane(reg[Root], feasible) /\ Counts(reg[Root], Open(Root)) /\ Exact(reg[Root], Open(Root))
        BY <2>2, <2>4 DEF Sane, Counts, Exact, Own
    <2>8. Records /\ Failures /\ Apart
        BY <1>2, <1>3, <2>1, <2>7 DEF Records, Failures, Apart
    <2>9. Undecided
        BY <1>2, <1>3, <2>1, <2>2, <2>7 DEF Undecided, Propagated
    <2>10. Flight
        BY <1>2, <1>3, <2>1, <2>2 DEF Flight, InFlight, OwnerPlaces
    <2>11. Queues
        <3>1. ready[1] = Root /\ 1 \in DOMAIN ready
            BY <2>1
        <3>2. Root \in queued
            BY <1>2, <3>1 DEF ToSet
        <3>. QED BY <1>2, <2>1, <3>2 DEF Queues
    <2>. QED BY <1>2, <1>4, <2>6, <2>8, <2>9, <2>10, <2>11 DEF Accounts, Books, AnswerSound
<1>7. ASSUME NEW n \in 1 .. MaxRegions - 1, NEW share \in [Leaves -> 2 .. n + 1], Frontier(n, share)
      PROVE  Accounts
    <2>1. n \in Nat /\ n > 0 /\ n + 1 <= MaxRegions
        BY ForestBoundsAssumption
    <2>2. /\ nodes = 1 .. n + 1 /\ nodes \subseteq RegionId /\ Root \in nodes
          /\ ready = [i \in 1 .. n |-> i + 1]
          /\ reg[Root] = [Node(None, "session", {}, n) EXCEPT !.localDone = TRUE]
          /\ \A r \in nodes \ {Root} : reg[r] = Node(Root, "deferred", {l \in Leaves : share[l] = r}, 1)
          /\ \A r \in RegionId \ nodes : reg[r] = Blank
        BY <1>5, <1>7, <2>1, ForestBoundsAssumption DEF Frontier, RegionId, Root
    <2>3. /\ reg[Root].parent = None /\ reg[Root].form = "session"
          /\ reg[Root].status = "unresolved" /\ reg[Root].todo = {}
          /\ reg[Root].unfinished = n /\ reg[Root].localDone /\ ~reg[Root].notified
        BY <2>2 DEF Node
    <2>4. \A r \in nodes \ {Root} :
            /\ reg[r].parent = Root /\ reg[r].form = "deferred"
            /\ reg[r].status = "unresolved" /\ reg[r].todo = {l \in Leaves : share[l] = r}
            /\ reg[r].unfinished = 1 /\ ~reg[r].localDone /\ ~reg[r].notified
        <3>. SUFFICES ASSUME NEW r \in nodes \ {Root}
                      PROVE  /\ reg[r].parent = Root /\ reg[r].form = "deferred"
                             /\ reg[r].status = "unresolved"
                             /\ reg[r].todo = {l \in Leaves : share[l] = r}
                             /\ reg[r].unfinished = 1 /\ ~reg[r].localDone /\ ~reg[r].notified
            OBVIOUS
        <3>1. PICK D : D = {l \in Leaves : share[l] = r}
            OBVIOUS
        <3>2. reg[r] = Node(Root, "deferred", D, 1)
            BY <2>2, <3>1
        <3>. QED BY <3>1, <3>2 DEF Node
    <2>5. \A r \in nodes : ~Propagated(r)
        BY <2>3, <2>4 DEF Propagated
    <2>6. Cardinality(Open(Root)) = n
        <3>1. Open(Root) = 2 .. n + 1
            <4>1. \A c \in nodes : c \in Open(Root) <=> c # Root
                BY <1>3, <2>3, <2>4, <2>5 DEF Open, Root, None
            <4>2. Open(Root) \subseteq nodes
                BY <1>3 DEF Open
            <4>3. 2 .. n + 1 = nodes \ {Root}
                BY <2>1, <2>2 DEF Root
            <4>. QED BY <4>1, <4>2, <4>3
        <3>2. Cardinality(2 .. n + 1) = n
            BY <2>1, FS_Interval
        <3>. QED BY <3>1, <3>2
    <2>7. ASSUME NEW r \in nodes \ {Root} PROVE Open(r) = {} /\ Cardinality(Open(r)) = 0
        <3>0. r # None
            BY <2>2 DEF RegionId, None
        <3>1. \A c \in nodes : c \notin Open(r)
            BY <2>3, <2>4, <3>0 DEF Open
        <3>2. Open(r) \subseteq nodes
            BY <1>3 DEF Open
        <3>3. Open(r) = {}
            BY <3>1, <3>2
        <3>. QED BY <3>3, FS_EmptySet
    <2>8. live = n + 1 /\ nextId = n + 2
        <3>1. Cardinality(1 .. n + 1) = n + 1
            BY <2>1, FS_Interval
        <3>. QED BY <1>2, <2>1, <2>2, <3>1
    <2>9. Tree
        BY <1>2, <1>3, <1>5, <2>1, <2>2, <2>3, <2>4, <2>8 DEF Tree, Root
    <2>10. Sane(reg[Root], feasible) /\ Counts(reg[Root], Open(Root)) /\ Exact(reg[Root], Open(Root))
        BY <2>1, <2>3, <2>6 DEF Sane, Counts, Exact, Own
    <2>11. ASSUME NEW r \in nodes \ {Root}
           PROVE  Sane(reg[r], feasible) /\ Counts(reg[r], Open(r)) /\ Exact(reg[r], Open(r))
        BY <2>4, <2>7 DEF Sane, Counts, Exact, Own
    <2>12. Records
        BY <1>3, <2>10, <2>11 DEF Records
    <2>13. Failures
        BY <1>2 DEF Failures
    <2>14. Apart
        BY <1>3, <2>3, <2>4 DEF Apart
    <2>15. Undecided
        <3>1. ASSUME NEW l \in feasible
              PROVE  \E r \in nodes : l \in reg[r].todo /\ reg[r].status # "infeasible"
            <4>1. l \in Leaves /\ share[l] \in nodes \ {Root}
                BY <1>2, <2>1, <2>2 DEF Root
            <4>. QED BY <2>4, <4>1
        <3>. QED BY <1>3, <2>2, <2>5, <2>10, <2>11, <3>1 DEF Undecided
    <2>16. Flight
        BY <1>2, <1>3, <2>3, <2>4 DEF Flight, InFlight, OwnerPlaces
    <2>17. Queues
        <3>1. ASSUME NEW r \in nodes, Runnable(r) PROVE r \in queued
            <4>1. r # Root
                BY <2>3, <3>1 DEF Runnable, Waiting
            <4>2. r - 1 \in DOMAIN ready /\ ready[r - 1] = r
                BY <2>1, <2>2, <4>1 DEF Root
            <4>. QED BY <1>2, <4>2 DEF ToSet
        <3>. QED BY <1>2, <3>1 DEF Queues
    <2>. QED BY <1>2, <1>4, <2>9, <2>12, <2>13, <2>14, <2>15, <2>16, <2>17
            DEF Accounts, Books, AnswerSound
<1>. QED BY <1>6, <1>7 DEF Init

-----------------------------------------------------------------------------
\* Every step.

LEMMA NextAccounts ==
    ASSUME IInv, Accounts, [Next /\ UNCHANGED choice]_<<vars, choice>>
    PROVE  Accounts'
<1>1. CASE UNCHANGED <<vars, choice>>
    <2>1. /\ UNCHANGED <<feasible, nodes, reg, queued, active, answer, epochActive, live, nextId,
                        pc, at, event, child, cursor, cpc>>
        BY <1>1 DEF vars, choice, flagVars, epochVars, localVars
    <2>2. StaysDecided /\ Forest' = Forest
        BY <2>1, ForestStays DEF StaysDecided
    <2>3. Books'
        BY <2>1, <2>2, BooksStay DEF Accounts
    <2>4. Flight'
        <3>1. Controller \notin Workers /\ pc[Controller] \in {"out", "notify", "parent"}
            BY WorkersAssumption DEF Accounts, Hands
        <3>2. \A q : ~Failing(Controller, q) /\ ~Winning(Controller, q)
            BY <3>1 DEF Failing, Winning
        <3>. QED BY <2>1, <2>2, <3>1, <3>2, FlightPasses DEF Accounts, Books, IInv
    <2>5. Hands' /\ AnswerSound' /\ Queues'
        BY <2>1 DEF Accounts, Hands, AnswerSound, Queues, Runnable, Unresolved, Waiting, Reserved
    <2>. QED BY <2>3, <2>4, <2>5 DEF Accounts
<1>. USE DEF choice
<1>2. ASSUME UNCHANGED choice, NEW a \in Agents, Notify(a) PROVE Accounts'
    BY <1>2, NotifyStopsCounts, NotifyClimbsCounts, ParentCounts DEF Notify
<1>3. ASSUME UNCHANGED choice, NEW w \in Workers, LeaseBegins(w) \/ Work(w)
      PROVE  Accounts'
    <2>1. CASE Serve(w)
        BY <1>3, <2>1, ServeNothingCounts, ServeFindsWitnessCounts, ServeCompletesCounts,
           ServeYieldsCounts, ServeDonatesCounts, ServeRecursivelyCounts DEF Serve
    <2>2. CASE Notify(w)
        BY <1>2, <1>3, <2>2 DEF Agents
    <2>3. CASE Publish(w)
        BY <1>3, <2>3, PublishCounts
    <2>4. CASE Closes(w)
        BY <1>3, <2>4, ClosesCounts
    <2>5. CASE Announces(w)
        BY <1>3, <2>5, AnnouncesCounts
    <2>. QED BY <1>3, <2>1, <2>2, <2>3, <2>4, <2>5, PassesKeep DEF Work
<1>4. ASSUME UNCHANGED choice, Reconcile PROVE Accounts'
    BY <1>2, <1>4, ReconcileEndsCounts DEF Reconcile, Agents
<1>5. ASSUME UNCHANGED choice, Control PROVE Accounts'
    <2>1. CASE BeginEpoch \/ Drain \/ FinishEpoch \/ Cancel
        BY <1>5, <2>1, EpochControlCounts
    <2>2. CASE Restart
        BY <1>5, <2>2, RestartCounts
    <2>3. ASSUME NEW r \in RegionId,
                 ClaimFragment(r) \/ DonateAndClaim(r) \/ RetireFragment(r) \/ ReleaseFragment(r)
          PROVE  Accounts'
        BY <1>5, <2>3, ClaimFragmentCounts, DonateAndClaimCounts, RetireFragmentCounts,
           ReleaseFragmentCounts
    <2>. QED BY <1>5, <2>1, <2>2, <2>3 DEF Control
<1>. QED BY <1>1, <1>3, <1>4, <1>5 DEF Next

LEMMA AlwaysAccounts == Spec => [](IInv /\ Accounts)
<1>1. Init => IInv /\ Accounts
    BY InitIInv, InitAccounts
<1>2. IInv /\ Accounts /\ [Next /\ UNCHANGED choice]_<<vars, choice>> => (IInv /\ Accounts)'
    <2>1. IInv /\ [Next /\ UNCHANGED choice]_<<vars, choice>> => IInv'
        BY NextIInv
    <2>. QED BY <2>1, NextAccounts
<1>. QED BY <1>1, <1>2, PTL DEF Spec

-----------------------------------------------------------------------------
\* What follows of every state.

\* The search never answers wrongly: "infeasible" only if no subproblem has an
\* ordering within the threshold, "feasible" only if one has, whatever was
\* donated, claimed, retired, lost from the queue or restored from a snapshot.
THEOREM Sound == Spec => []AnswerSound
<1>1. IInv /\ Accounts => AnswerSound
    BY DEF Accounts
<1>. QED BY <1>1, AlwaysAccounts, PTL

\* No witness is lost: until the search is decided every feasible subproblem is
\* in one region, and in one only, which is still searched or has found it.
THEOREM Kept == Spec => []WitnessKept
<1>1. ASSUME IInv, Accounts, answer = "unresolved", NEW l \in feasible
      PROVE  /\ \E r \in Forest : l \in reg[r].todo /\ (Unresolved(r) \/ reg[r].status = "feasible")
             /\ \A r, q \in Forest : l \in reg[r].todo /\ l \in reg[q].todo => r = q
    <2>1. PICK r \in Forest : l \in reg[r].todo /\ reg[r].status # "infeasible"
        BY <1>1 DEF Accounts, Books, Undecided
    <2>2. reg[r] \in Regions /\ Sane(reg[r], feasible)
        BY <1>1, ForestTyped DEF IInv, Shape, Accounts, Books, Records
    <2>3. Unresolved(r) \/ reg[r].status = "feasible"
        BY <2>1, <2>2 DEF Regions, Sane, Unresolved
    <2>4. \A p, q \in Forest : l \in reg[p].todo /\ l \in reg[q].todo => p = q
        BY <1>1 DEF Accounts, Books, Apart
    <2>. QED BY <2>1, <2>3, <2>4
<1>2. IInv /\ Accounts => WitnessKept
    BY <1>1 DEF WitnessKept
<1>. QED BY <1>2, AlwaysAccounts, PTL

\* live_nodes_count is the size of the forest, and unfinished_region_count of an
\* open region is its own search and the children whose failure has not reached
\* it, at every point of the interleaving of services, donations and failures.
THEOREM Counted == Spec => []RegionsCounted
<1>1. ASSUME IInv, Accounts PROVE RegionsCounted
    <2>1. live = Cardinality(Forest)
        BY <1>1 DEF Accounts, Books, Tree
    <2>2. ASSUME answer = "unresolved", NEW r \in Forest, reg[r].status = "unresolved"
          PROVE  reg[r].unfinished = (IF reg[r].localDone THEN 0 ELSE 1)
                            + Cardinality({c \in ChildrenOf(r) : ~Propagated(c)})
        <3>1. reg[r].unfinished = Own(reg[r]) + Cardinality(Open(r))
            BY <1>1, <2>2 DEF Accounts, Books, Undecided, Exact
        <3>2. Open(r) = {c \in ChildrenOf(r) : ~Propagated(c)}
            BY DEF Open, ChildrenOf
        <3>. QED BY <3>1, <3>2 DEF Own
    <2>. QED BY <2>1, <2>2 DEF RegionsCounted
<1>2. IInv /\ Accounts => RegionsCounted
    BY <1>1
<1>. QED BY <1>2, AlwaysAccounts, PTL

\* A failure finds its parent open, with the failed region among those it
\* counts, and ends the parent only when its own search is over: no logic error
\* of notify_failure and resolve_external_failure is ever thrown.
THEOREM FindParent == Spec => []FailuresFindParent
<1>1. ASSUME IInv, Accounts PROVE FailuresFindParent
    <2>. SUFFICES ASSUME NEW a \in Agents, pc[a] = "parent",
                         NEW p, p = reg[cursor[a]].parent, reg[p].status # "feasible"
                  PROVE  /\ reg[p].status = "unresolved" /\ ~reg[p].notified
                         /\ reg[p].unfinished > 0
                         /\ reg[p].unfinished = 1 => reg[p].localDone
        BY DEF FailuresFindParent
    <2>. QED BY <1>1, FailureFinds
<1>2. IInv /\ Accounts => FailuresFindParent
    BY <1>1
<1>. QED BY <1>2, AlwaysAccounts, PTL

\* Reconciliation never meets a frontier that cannot go on: no closed region is
\* left unpublished by an epoch, and between epochs an undecided forest has a
\* region that can run, and each of those is queued or claimed.
THEOREM NeverStranded == Spec => []NothingStranded
<1>1. ASSUME IInv, Accounts PROVE NothingStranded
    <2>1. cpc # "stuck"
        BY <1>1 DEF Accounts, Queues
    <2>2. ASSUME cpc = "reconcile", answer = "unresolved", NEW r \in nodes,
                 reg[r].status # "unresolved"
          PROVE  reg[r].notified
        <3>1. \A w \in Workers : pc[w] = "out"
            BY <1>1, <2>2 DEF IInv, EpochsQuiet, Quiet
        <3>2. r \in Forest /\ reg[r] \in Regions
            BY <1>1, ForestTyped DEF IInv, Shape
        <3>3. reg[r].status # "feasible"
            BY <1>1, <2>2, <3>1, <3>2 DEF Accounts, Flight, Winning
        <3>4. reg[r].status = "infeasible"
            BY <2>2, <3>2, <3>3 DEF Regions
        <3>. QED BY <1>1, <3>1, <3>2, <3>4 DEF Accounts, Flight, Failing
    <2>3. ASSUME ControlIdle, ~epochActive, Quiet, answer = "unresolved"
          PROVE  /\ \A r \in nodes : Runnable(r) /\ ~reg[r].notified => Reserved(r) \/ r \in queued
                 /\ \E r \in nodes : Runnable(r)
        BY <1>1, <2>3, OpenAtRest DEF ControlIdle, Accounts, Queues
    <2>. QED BY <2>1, <2>2, <2>3 DEF NothingStranded
<1>2. IInv /\ Accounts => NothingStranded
    BY <1>1
<1>. QED BY <1>2, AlwaysAccounts, PTL

\* Every snapshot taken while no lease runs satisfies what the restoring
\* constructor checks: one root, parents among the saved regions, and the
\* counts of external regions those of the saved children.
THEOREM Restorable == Spec => []SnapshotAcceptable
<1>1. IInv /\ Accounts => SnapshotAcceptable
    BY OpenSnapshot DEF SnapshotAcceptable, CanSnapshot, ControlIdle
<1>. QED BY <1>1, AlwaysAccounts, PTL

\* The state is well formed, and neither live_nodes_count nor any
\* unfinished_region_count, unsigned in the code, is ever taken below zero.
THEOREM Typed == Spec => []TypeOK
<1>1. ASSUME IInv, Accounts PROVE TypeOK
    <2>1. live \in Nat
        BY <1>1, ForestTyped DEF IInv, Accounts, Books, Tree
    <2>2. ASSUME NEW r \in RegionId PROVE reg[r].unfinished \in Nat
        <3>1. CASE r \in Forest
            BY <1>1, <3>1 DEF Accounts, Books, Records, Sane
        <3>2. CASE r \notin Forest
            BY <1>1, <3>2 DEF Accounts, Books, Tree, Blank, Node
        <3>. QED BY <3>1, <3>2
    <2>. QED BY <1>1, <2>1, <2>2 DEF TypeOK, IInv
<1>2. IInv /\ Accounts => TypeOK
    BY <1>1
<1>. QED BY <1>2, AlwaysAccounts, PTL
=============================================================================
