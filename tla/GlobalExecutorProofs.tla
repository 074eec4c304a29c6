------------------------ MODULE GlobalExecutorProofs ------------------------
(***************************************************************************)
(* Theorems about GlobalExecutor for every number of threads, sessions and *)
(* epochs: its type invariant, the accounting its waits rely on, and that   *)
(* it implements SessionService. The inductive invariant IInv adds to the   *)
(* stated properties what the controller's place says about the other      *)
(* variables. The second part is how the executor hands out its work:       *)
(* worker ids are exclusive, generations identify bindings, permits are     *)
(* served round-robin, and none is left without a closure, each with an     *)
(* inductive invariant of its own relative to IInv.                         *)
(***************************************************************************)
EXTENDS GlobalExecutor, FiniteSetTheorems, TLAPS

-----------------------------------------------------------------------------
\* The inductive invariant.

QueuesFinite == \A e \in EpochId : IsFiniteSet(permits[e])
IdleHoldsNothing == \A t \in Threads : pc[t] = "idle" <=> on[t] = NoEpoch
SlotsLive == \A t \in Busy : on[t] \in live
OwnersBound == \A e \in live : owner[e] \in bound \ revoked
RevokedForgotten == registered \cap revoked = {}
OneEpochPerSession == \A e, f \in live : owner[e] = owner[f] => e = f
IssuedEpochs == \A e \in live : e < nextEpoch
LiveOpened == \A e \in live : owner[e] \in Forests => epochOpen[owner[e]]

\* What the controller's place says.
ControllerInv ==
    /\ cpc = "draining" <=> toDrain # {}
    /\ draining = toDrain
    /\ toClose # {} => cpc \in {"draining", "closing"}
    /\ \A s \in toClose : \A e \in live : owner[e] # s
    /\ paused <=> cpc \in {"quiescing", "retiring", "resuming", "snapshotting"}
    /\ cpc \in {"retiring", "resuming", "snapshotting"} => Busy = {}
    /\ cpc = "retiring" => target # NoSession

IInv ==
    /\ TypeOK
    /\ QueuesFinite /\ IdleHoldsNothing
    /\ SlotsCounted /\ PermitsCounted
    /\ SlotsLive /\ OwnersBound /\ RevokedForgotten
    /\ OneEpochPerSession /\ IssuedEpochs /\ LiveOpened
    /\ ControllerInv

-----------------------------------------------------------------------------
\* Counting lemmas.

\* Moving one thread from where f has it to d changes two counts by one.
LEMMA MoveCounts ==
    ASSUME NEW f \in [Threads -> Int], NEW t \in Threads, NEW d \in Int, d # f[t]
    PROVE  LET g == [f EXCEPT ![t] = d]
               at(h, e) == {u \in Threads : h[u] = e}
           IN  \A e \in Int :
                 Cardinality(at(g, e)) =
                    IF e = d THEN Cardinality(at(f, e)) + 1
                    ELSE IF e = f[t] THEN Cardinality(at(f, e)) - 1
                    ELSE Cardinality(at(f, e))
<1> DEFINE g == [f EXCEPT ![t] = d]
           at(h, e) == {u \in Threads : h[u] = e}
<1> SUFFICES ASSUME NEW e \in Int
             PROVE  Cardinality(at(g, e)) =
                    IF e = d THEN Cardinality(at(f, e)) + 1
                    ELSE IF e = f[t] THEN Cardinality(at(f, e)) - 1
                    ELSE Cardinality(at(f, e))
    OBVIOUS
<1>1. IsFiniteSet(at(f, e))
    BY ThreadsAssumption, FS_Subset
<1>2. CASE e = d
    <2>1. at(g, e) = at(f, e) \cup {t}
        BY <1>2
    <2>2. t \notin at(f, e)
        BY <1>2
    <2>. QED BY <1>1, <1>2, <2>1, <2>2, FS_AddElement
<1>3. CASE e # d /\ e = f[t]
    <2>1. at(g, e) = at(f, e) \ {t}
        BY <1>3
    <2>2. t \in at(f, e)
        BY <1>3
    <2>. QED BY <1>1, <1>3, <2>1, <2>2, FS_RemoveElement
<1>4. CASE e # d /\ e # f[t]
    <2>1. at(g, e) = at(f, e)
        BY <1>4
    <2>. QED BY <1>4, <2>1
<1>. QED BY <1>2, <1>3, <1>4

\* Its complement form: the threads away from 0.
LEMMA BusyCounts ==
    ASSUME NEW f \in [Threads -> Int], NEW t \in Threads, NEW d \in Int
    PROVE  LET g == [f EXCEPT ![t] = d]
               away(h) == {u \in Threads : h[u] # 0}
           IN  Cardinality(away(g)) =
                  IF f[t] = 0 /\ d # 0 THEN Cardinality(away(f)) + 1
                  ELSE IF f[t] # 0 /\ d = 0 THEN Cardinality(away(f)) - 1
                  ELSE Cardinality(away(f))
<1> DEFINE g == [f EXCEPT ![t] = d]
           away(h) == {u \in Threads : h[u] # 0}
<1>1. IsFiniteSet(away(f))
    BY ThreadsAssumption, FS_Subset
<1>2. CASE f[t] = 0 /\ d # 0
    <2>1. away(g) = away(f) \cup {t} /\ t \notin away(f)
        BY <1>2
    <2>. QED BY <1>1, <1>2, <2>1, FS_AddElement
<1>3. CASE f[t] # 0 /\ d = 0
    <2>1. away(g) = away(f) \ {t} /\ t \in away(f)
        BY <1>3
    <2>. QED BY <1>1, <1>3, <2>1, FS_RemoveElement
<1>4. CASE (f[t] = 0 <=> d = 0)
    <2>1. away(g) = away(f)
        BY <1>4
    <2>. QED BY <1>4, <2>1
<1>. QED BY <1>2, <1>3, <1>4

\* A finite family of finite sets has a finite union (the queue, a request).
LEMMA FamilyFinite ==
    ASSUME NEW I, IsFiniteSet(I), NEW G, \A i \in I : IsFiniteSet(G[i])
    PROVE  Cardinality(UNION {G[i] : i \in I}) \in Nat
<1> DEFINE P == {G[i] : i \in I}
           g == [i \in I |-> G[i]]
<1>1. g \in Surjection(I, P)
    BY DEF Surjection
<1>2. IsFiniteSet(P)
    BY <1>1, FS_Surjection
<1>3. \A T \in P : IsFiniteSet(T)
    OBVIOUS
<1>4. IsFiniteSet(UNION P)
    BY <1>2, <1>3, FS_UNION
<1>. QED BY <1>4, FS_CardinalityType

LEMMA SliceFinite ==
    ASSUME NEW i, NEW S, IsFiniteSet(S)
    PROVE  IsFiniteSet({i} \X S)
<1>1. IsFiniteSet({i})
    BY FS_Singleton
<1>. QED BY <1>1, FS_Product

-----------------------------------------------------------------------------
\* Type correctness.

\* The number of closures scheduled for the queue or for a batch is a number.
LEMMA QueueSize == QueuesFinite => Cardinality(Queue) \in Nat
<1> SUFFICES ASSUME QueuesFinite PROVE Cardinality(Queue) \in Nat
    OBVIOUS
<1> DEFINE G == [e \in EpochId |-> {e} \X permits[e]]
<1>1. IsFiniteSet(EpochId)
    BY BoundsAssumption, FS_Interval DEF EpochId
<1>2. \A e \in EpochId : IsFiniteSet(G[e])
    BY SliceFinite DEF QueuesFinite
<1>3. Queue = UNION {G[e] : e \in EpochId}
    BY DEF Queue
<1>4. Cardinality(UNION {G[e] : e \in EpochId}) \in Nat
    <2> HIDE DEF G
    <2>. QED BY <1>1, <1>2, FamilyFinite
<1>. QED BY <1>3, <1>4

LEMMA RequestSize ==
    ASSUME NEW b \in Batches
    PROVE  Cardinality(RequestedPermits(b)) \in Nat
<1> DEFINE I == 1 .. Len(b)
           G == [i \in I |-> {i} \X (1 .. b[i].permits)]
<1>1. b \in Seq(Request) /\ Len(b) \in Nat
    BY BatchesAssumption
<1>2. IsFiniteSet(I)
    BY <1>1, FS_Interval
<1>3. \A i \in I : b[i] \in Request
    BY <1>1
<1>4. \A i \in I : IsFiniteSet(G[i])
    <2> SUFFICES ASSUME NEW i \in I PROVE IsFiniteSet({i} \X (1 .. b[i].permits))
        OBVIOUS
    <2>1. b[i].permits \in Nat
        BY <1>3 DEF Request
    <2>2. \A n \in Nat : IsFiniteSet(1 .. n)
        BY FS_Interval
    <2>. QED BY <2>1, <2>2, SliceFinite
<1>5. RequestedPermits(b) = UNION {G[i] : i \in I}
    BY DEF RequestedPermits
<1>6. Cardinality(UNION {G[i] : i \in I}) \in Nat
    <2> HIDE DEF G, I
    <2>. QED BY <1>2, <1>4, FamilyFinite
<1>. QED BY <1>5, <1>6

\* The request an issued epoch id stands for.
LEMMA RequestTyped ==
    ASSUME NEW b \in Batches, nextEpoch \in Nat, NEW n \in 0 .. Len(b),
           NEW e \in NewEpochs(n)
    PROVE  /\ RequestOf(b, e).session \in InBatch(b)
           /\ RequestOf(b, e).session \in Sessions
           /\ RequestOf(b, e).permits \in Nat \ {0}
<1>1. b \in Seq(Request) /\ Len(b) \in Nat
    BY BatchesAssumption
<1>2. e - nextEpoch + 1 \in 1 .. Len(b)
    BY <1>1 DEF NewEpochs
<1>3. b[e - nextEpoch + 1] \in Request /\ b[e - nextEpoch + 1].permits > 0
    BY <1>1, <1>2, BatchesAssumption
<1>. QED BY <1>2, <1>3 DEF RequestOf, InBatch, Request
LEMMA EmplaceTyped ==
    ASSUME TypeOK, NEW b \in Batches, NEW n \in 0 .. Len(b),
           nextEpoch + Len(b) - 1 <= MaxEpochs,
           \A i \in 1 .. n : b[i].session \in registered,
           BindAndEmplace(b, n)
    PROVE  /\ bound' \in SUBSET registered
           /\ generations' \in [Thresholds -> Nat]
           /\ generation' \in [Sessions -> Nat]
           /\ ready' \in [Sessions -> Nat]
           /\ nextEpoch' \in 1 .. MaxEpochs + 1
           /\ live \subseteq live' /\ live' \in SUBSET EpochId
           /\ owner' \in [EpochId -> Sessions \cup {NoSession}]
           /\ pending' \in [EpochId -> Int]
<1> DEFINE fresh == {i \in 1 .. n : b[i].session \notin bound}
           at(i) == Threshold[b[i].session]
<1>1. b \in Seq(Request) /\ Len(b) \in Nat /\ n \in Nat /\ nextEpoch \in Nat
    BY BatchesAssumption, BoundsAssumption DEF TypeOK
<1>2. IsFiniteSet(1 .. n)
    BY <1>1, FS_Interval
<1>3. \A T \in SUBSET (1 .. n) : Cardinality(T) \in Nat
    BY <1>2, FS_Subset, FS_CardinalityType
<1>4. bound' \in SUBSET registered
    BY DEF BindAndEmplace, TypeOK
<1>5. generations' \in [Thresholds -> Nat]
    <2>1. \A k \in Thresholds : Cardinality({i \in fresh : at(i) = k}) \in Nat
        BY <1>3
    <2>2. \A k \in Thresholds : generations[k] \in Nat
        BY DEF TypeOK
    <2>3. generations' = [k \in Thresholds |->
                generations[k] + Cardinality({i \in fresh : at(i) = k})]
        BY DEF BindAndEmplace
    <2>. QED BY <2>1, <2>2, <2>3
<1>6. generation' \in [Sessions -> Nat]
    <2> DEFINE rank(i) == Cardinality({j \in fresh : j <= i /\ at(j) = at(i)})
    <2>1. \A i : rank(i) \in Nat
        BY <1>3
    <2>2. \A s \in Sessions : generations[Threshold[s]] \in Nat /\ generation[s] \in Nat
        BY DEF TypeOK, Thresholds
    <2>3. generation' = [s \in Sessions |->
                IF \E i \in fresh : b[i].session = s
                THEN generations[Threshold[s]] + rank(IndexOf(b, s))
                ELSE generation[s]]
        BY DEF BindAndEmplace
    <2> HIDE DEF rank
    <2>. QED BY <2>1, <2>2, <2>3
<1>7. ready' \in [Sessions -> Nat]
    BY DEF BindAndEmplace, TypeOK
<1>8. nextEpoch' \in 1 .. MaxEpochs + 1
    BY <1>1, BoundsAssumption DEF BindAndEmplace, TypeOK
<1>9. live \subseteq live' /\ live' \in SUBSET EpochId
    BY <1>1, BoundsAssumption DEF BindAndEmplace, TypeOK, NewEpochs, EpochId
<1>10. owner' \in [EpochId -> Sessions \cup {NoSession}]
    BY <1>1, RequestTyped DEF BindAndEmplace, TypeOK
<1>11. pending' \in [EpochId -> Int]
    BY <1>1, RequestTyped DEF BindAndEmplace, TypeOK
<1>. QED BY <1>4, <1>5, <1>6, <1>7, <1>8, <1>9, <1>10, <1>11

LEMMA ZeroIsAnId == 0 \in WorkerId
<1>1. Cardinality(Threads) \in Nat /\ Cardinality(Threads) # 0
    BY ThreadsAssumption, FS_CardinalityType, FS_EmptySet
<1>. QED BY <1>1 DEF WorkerId, Workers

LEMMA TypeInitial == Init => TypeOK
<1> SUFFICES ASSUME Init PROVE TypeOK
    OBVIOUS
<1>1. /\ registered \in SUBSET Sessions /\ bound \in SUBSET registered
      /\ revoked \in SUBSET Sessions
      /\ generation \in [Sessions -> Nat] /\ generations \in [Thresholds -> Nat]
    BY DEF Init
<1>2. /\ live \in SUBSET EpochId /\ draining \in SUBSET live
      /\ owner \in [EpochId -> Sessions \cup {NoSession}]
      /\ pending \in [EpochId -> Int] /\ active \in [EpochId -> Int]
      /\ permits \in [EpochId -> SUBSET (Nat \ {0})]
      /\ nextEpoch \in 1 .. MaxEpochs + 1
    BY BoundsAssumption DEF Init
<1>3. /\ pc \in [Threads -> {"idle", "enter", "inside", "returned", "handoff", "finish"}]
      /\ on \in [Threads -> EpochId \cup {NoEpoch}] /\ wid \in [Threads -> WorkerId]
      /\ attempts \in [Threads -> Nat] /\ useful \in [Threads -> BOOLEAN]
      /\ holding \in [Threads -> BOOLEAN]
    BY ZeroIsAnId DEF Init
<1>4. /\ ready \in [Sessions -> Nat] /\ credit \in [Sessions -> Nat]
      /\ resolved \in [Sessions -> BOOLEAN] /\ epochOpen \in [Sessions -> BOOLEAN]
    BY DEF Init
<1>5. /\ tasks \in Nat /\ activeLeases \in Int /\ idsInUse \in SUBSET WorkerId
      /\ cpc = "ready" /\ toDrain \in SUBSET EpochId /\ toClose \in SUBSET Sessions
      /\ target \in Sessions \cup {NoSession}
    BY DEF Init
<1>6. paused \in BOOLEAN /\ stopping \in BOOLEAN /\ asleep \in BOOLEAN
    BY Zenon DEF Init
<1>. QED BY <1>1, <1>2, <1>3, <1>4, <1>5, <1>6 DEF TypeOK

\* A task step keeps the types; only TaskClaims and Steal need more than their
\* own assignments, the range of the slot they take.
LEMMA TypeTask ==
    ASSUME TypeOK, NEW t \in Threads, Task(t)
    PROVE  TypeOK'
<1> USE DEF registryVars, epochVars, poolVars, threadVars, sessionVars, controllerVars
<1>1. CASE TaskReturns(t)
    BY <1>1 DEF TaskReturns, TypeOK
<1>2. CASE TaskClaims(t)
    <2>1. PICK e \in EpochId : \E r \in permits[e] :
            /\ permits' = [permits EXCEPT ![e] = @ \ {r}]
            /\ pending' = [pending EXCEPT ![e] = @ - 1]
            /\ active' = [active EXCEPT ![e] = @ + 1]
            /\ on' = [on EXCEPT ![t] = e]
        BY <1>2 DEF TaskClaims
    <2>1a. PICK r \in permits[e] : permits' = [permits EXCEPT ![e] = @ \ {r}]
        BY <2>1
    <2>2. PICK i \in WorkerId :
            /\ wid' = [wid EXCEPT ![t] = i]
            /\ idsInUse' = idsInUse \cup {i}
        BY <1>2 DEF TaskClaims
    <2>3. permits' \in [EpochId -> SUBSET (Nat \ {0})] /\ pending' \in [EpochId -> Int]
            /\ active' \in [EpochId -> Int] /\ on' \in [Threads -> EpochId \cup {NoEpoch}]
        BY <2>1, <2>1a DEF TypeOK, EpochId, NoEpoch
    <2>4. wid' \in [Threads -> WorkerId] /\ idsInUse' \in SUBSET WorkerId
        BY <2>2 DEF TypeOK
    <2>5. tasks' \in Nat /\ activeLeases' \in Int
            /\ pc' \in [Threads -> {"idle", "enter", "inside", "returned", "handoff", "finish"}]
        BY <1>2 DEF TaskClaims, TypeOK
    <2>. QED BY <1>2, <2>3, <2>4, <2>5 DEF TaskClaims, TypeOK
<1>3. CASE LeaseEntered(t)
    BY <1>3 DEF LeaseEntered, TypeOK
<1>4. CASE LeaseRefused(t)
    BY <1>4 DEF LeaseRefused, TypeOK
<1>5. CASE ForestClaims(t)
    BY <1>5 DEF ForestClaims, TypeOK, Forests
<1>6. CASE ForestReturns(t)
    <2>1. ready' \in [Sessions -> Nat]
        BY <1>6 DEF ForestReturns, TypeOK
    <2>1a. resolved' \in [Sessions -> BOOLEAN]
        BY <1>6 DEF ForestReturns, TypeOK
    <2>2. holding' \in [Threads -> BOOLEAN]
        BY <1>6 DEF ForestReturns, TypeOK
    <2>3. credit' \in [Sessions -> Nat]
        <3>1. PICK unused \in 0 .. 1 :
                credit' = [credit EXCEPT ![owner[on[t]]] = @ + unused]
            BY <1>6 DEF ForestReturns
        <3>2. credit \in [Sessions -> Nat]
            BY DEF TypeOK
        <3>3. \A x, r \in Sessions : [credit EXCEPT ![x] = @ + unused][r] \in Nat
            BY <3>2
        <3>4. \A x : x \notin Sessions => [credit EXCEPT ![x] = @ + unused] = credit
            BY <3>2
        <3>. QED BY <3>1, <3>2, <3>3, <3>4
    <2>. QED BY <1>6, <2>1, <2>1a, <2>2, <2>3 DEF ForestReturns, TypeOK
<1>7. CASE ForestLeaseEnds(t)
    BY <1>7 DEF ForestLeaseEnds, TypeOK
<1>8. CASE OneShotEnds(t)
    BY <1>8 DEF OneShotEnds, TypeOK
<1>9. CASE Classify(t)
    BY <1>9 DEF Classify, TypeOK
<1>10. CASE Steal(t)
    BY <1>10 DEF Steal, SlotMoved, TypeOK, Candidates, NoEpoch
<1>11. CASE StealLoopEnds(t)
    BY <1>11 DEF StealLoopEnds, TypeOK
<1>12. CASE TaskFinishes(t)
    <2>1. active' \in [EpochId -> Int]
        <3>1. active' = [active EXCEPT ![on[t]] = @ - 1] /\ active \in [EpochId -> Int]
            BY <1>12 DEF TaskFinishes, TypeOK
        <3>2. \A x, e \in EpochId : [active EXCEPT ![x] = @ - 1][e] \in Int
            BY <3>1
        <3>. QED BY <3>1, <3>2
    <2>1c. activeLeases' \in Int
        BY <1>12 DEF TaskFinishes, TypeOK
    <2>1b. idsInUse' \in SUBSET WorkerId
        <3>1. idsInUse' = idsInUse \ {wid[t]}
            BY <1>12 DEF TaskFinishes
        <3>. QED BY <3>1 DEF TypeOK
    <2>1a. asleep' \in BOOLEAN
        BY <1>12, Zenon DEF TaskFinishes, NotifyAll
    <2>2. /\ pc' \in [Threads -> {"idle", "enter", "inside", "returned", "handoff", "finish"}]
          /\ on' \in [Threads -> EpochId \cup {NoEpoch}]
          /\ attempts' \in [Threads -> Nat] /\ useful' \in [Threads -> BOOLEAN]
        BY <1>12 DEF TaskFinishes, TypeOK
    <2>3. wid' \in [Threads -> WorkerId]
        BY <1>12, ZeroIsAnId DEF TaskFinishes, TypeOK
    <2>. QED BY <1>12, <2>1, <2>1a, <2>1b, <2>1c, <2>2, <2>3 DEF TaskFinishes, TypeOK
<1>. QED BY <1>1, <1>2, <1>3, <1>4, <1>5, <1>6, <1>7, <1>8, <1>9, <1>10, <1>11, <1>12 DEF Task

\* The controller's steps keep the types.
LEMMA TypeController ==
    ASSUME IInv, Continue \/ Call
    PROVE  TypeOK'
<1>. TypeOK /\ QueuesFinite /\ OwnersBound /\ ControllerInv
    BY DEF IInv
<1> USE DEF registryVars, epochVars, poolVars, threadVars, sessionVars, controllerVars
<1>1. ASSUME NEW e \in EpochId, DrainErases(e) PROVE TypeOK'
    <2>1. /\ live' \in SUBSET EpochId /\ draining' \in SUBSET live'
          /\ toDrain' \in SUBSET EpochId
        BY <1>1 DEF DrainErases, TypeOK
    <2>2. owner' \in [EpochId -> Sessions \cup {NoSession}]
        BY <1>1 DEF DrainErases, TypeOK
    <2>3. toClose' \in SUBSET Sessions
        <3>1. owner[e] \in Sessions
            BY <1>1 DEF DrainErases, IsNext, ControllerInv, OwnersBound, TypeOK
        <3>. QED BY <1>1, <3>1 DEF DrainErases, TypeOK
    <2>. QED BY <1>1, <2>1, <2>2, <2>3 DEF DrainErases, TypeOK
<1>2. ASSUME NEW e \in EpochId, DrainSleeps(e) PROVE TypeOK'
    BY <1>2 DEF DrainSleeps, TypeOK
<1>3. ASSUME NEW s \in Sessions, CloseSession(s) PROVE TypeOK'
    BY <1>3 DEF CloseSession, TypeOK
<1>4. CASE QuiesceSleeps
    BY <1>4 DEF QuiesceSleeps, TypeOK
<1>5. CASE QuiesceDone
    BY <1>5 DEF QuiesceDone, TypeOK
<1>6. CASE Retire
    <2>1. registered' \in SUBSET Sessions /\ bound' \in SUBSET registered'
            /\ revoked' \in SUBSET Sessions
        BY <1>6 DEF Retire, Forget, TypeOK, ControllerInv
    <2>. QED BY <1>6, <2>1 DEF Retire, TypeOK
<1>7. CASE Resume
    <2>1. tasks' \in Nat
        BY <1>7, QueueSize DEF Resume, QueueClosures, TypeOK
    <2>2. paused' \in BOOLEAN
        BY <1>7, Zenon DEF Resume
    <2>. QED BY <1>7, <2>1, <2>2 DEF Resume, TypeOK
<1>8. ASSUME NEW s \in Sessions, Register(s) PROVE TypeOK'
    BY <1>8 DEF Register, TypeOK
<1>9. ASSUME NEW s \in Sessions, BindSession(s) PROVE TypeOK'
    BY <1>9 DEF BindSession, Unbound, Bump, TypeOK, Thresholds
<1>10. ASSUME NEW s \in Sessions, UnregisterBegin(s) PROVE TypeOK'
    BY <1>10 DEF UnregisterBegin, TypeOK
<1>11. ASSUME NEW b \in Batches, GrantEpochs(b) PROVE TypeOK'
    <2>0. Len(b) \in Nat /\ nextEpoch \in Nat
        BY BatchesAssumption, BoundsAssumption DEF TypeOK
    <2>1. BindAndEmplace(b, Len(b))
        BY <1>11 DEF GrantEpochs
    <2>2. \A i \in 1 .. Len(b) : b[i].session \in registered
        BY <1>11 DEF GrantEpochs, Emplaceable
    <2>3. nextEpoch + Len(b) - 1 <= MaxEpochs
        BY <1>11 DEF GrantEpochs
    <2>4. /\ bound' \in SUBSET registered
          /\ generations' \in [Thresholds -> Nat]
          /\ generation' \in [Sessions -> Nat]
          /\ ready' \in [Sessions -> Nat]
          /\ nextEpoch' \in 1 .. MaxEpochs + 1
          /\ live \subseteq live' /\ live' \in SUBSET EpochId
          /\ owner' \in [EpochId -> Sessions \cup {NoSession}]
          /\ pending' \in [EpochId -> Int]
        BY <2>0, <2>1, <2>2, <2>3, EmplaceTyped
    <2>5. credit' \in [Sessions -> Nat]
        BY <1>11, BoundsAssumption DEF GrantEpochs, OpenEpochs, TypeOK
    <2>6. epochOpen' \in [Sessions -> BOOLEAN]
        <3>1. epochOpen' = [s \in Sessions |->
                    s \in {b[i].session : i \in 1 .. Len(b)} \cap Forests \/ epochOpen[s]]
            BY <1>11 DEF GrantEpochs, OpenEpochs
        <3>. QED BY <3>1
    <2>7. permits' \in [EpochId -> SUBSET (Nat \ {0})]
        <3>1. permits' = QueueWith(b)
            BY <1>11 DEF GrantEpochs
        <3>2. \A n : 1 .. n \in SUBSET (Nat \ {0})
            OBVIOUS
        <3>. QED BY <3>1, <3>2 DEF QueueWith
    <2>8. tasks' \in Nat
        BY <1>11, RequestSize DEF GrantEpochs, TypeOK
    <2>. QED BY <1>11, <2>4, <2>5, <2>6, <2>7, <2>8 DEF GrantEpochs, TypeOK
<1>12. ASSUME NEW E \in SUBSET EpochId, DrainBegin(E) PROVE TypeOK'
    BY <1>12 DEF DrainBegin, TypeOK
<1>13. CASE CheckpointBegin
    BY <1>13 DEF CheckpointBegin, TypeOK
<1>14. CASE Destroy
    BY <1>14 DEF Destroy, TypeOK
<1>. QED BY <1>1, <1>2, <1>3, <1>4, <1>5, <1>6, <1>7, <1>8, <1>9, <1>10, <1>11,
            <1>12, <1>13, <1>14 DEF Continue, Call
-----------------------------------------------------------------------------
\* The inductive invariant.

LEMMA IInvInitial == Init => IInv
<1> SUFFICES ASSUME Init PROVE IInv
    OBVIOUS
<1>1. TypeOK
    BY TypeInitial
<1>2. QueuesFinite /\ PermitsCounted
    BY FS_EmptySet DEF Init, QueuesFinite, PermitsCounted
<1>3. IdleHoldsNothing
    BY DEF Init, IdleHoldsNothing
<1>4. SlotsCounted /\ SlotsLive /\ Busy = {}
    <2>1. Busy = {} /\ \A e \in EpochId : Holders(e) = {}
        BY DEF Init, Busy, Holders, EpochId, NoEpoch
    <2>. QED BY <2>1, FS_EmptySet DEF Init, SlotsCounted, SlotsLive
<1>5. OwnersBound /\ RevokedForgotten /\ OneEpochPerSession /\ IssuedEpochs /\ LiveOpened
    BY DEF Init, OwnersBound, RevokedForgotten, OneEpochPerSession, IssuedEpochs, LiveOpened
<1>6. ControllerInv
    BY <1>4, Zenon DEF Init, ControllerInv
<1>. QED BY <1>1, <1>2, <1>3, <1>4, <1>5, <1>6 DEF IInv
\* A step that leaves slots, epochs, permits and controller alone.
LEMMA QuietStep ==
    ASSUME IInv, TypeOK',
           UNCHANGED <<registryVars, epochVars, on, activeLeases, paused, epochOpen,
                       controllerVars>>,
           \A u \in Threads : pc'[u] = "idle" <=> pc[u] = "idle"
    PROVE  IInv'
<1>1. QueuesFinite' /\ PermitsCounted'
    BY DEF IInv, QueuesFinite, PermitsCounted, epochVars
<1>2. IdleHoldsNothing'
    BY DEF IInv, IdleHoldsNothing
<1>3. Busy' = Busy /\ \A e : Holders(e)' = Holders(e)
    BY DEF Busy, Holders
<1>4. SlotsCounted' /\ SlotsLive'
    BY <1>3 DEF IInv, SlotsCounted, SlotsLive, epochVars
<1>5. OwnersBound' /\ RevokedForgotten' /\ OneEpochPerSession' /\ IssuedEpochs' /\ LiveOpened'
    BY DEF IInv, OwnersBound, RevokedForgotten, OneEpochPerSession, IssuedEpochs, LiveOpened,
           epochVars, registryVars
<1>6. ControllerInv'
    BY <1>3, Zenon DEF IInv, ControllerInv, epochVars, controllerVars
<1>. QED BY <1>1, <1>2, <1>4, <1>5, <1>6 DEF IInv

\* A step that moves one thread's slot from its place to d, with active and
\* active_leases_ following, keeps the counts.
LEMMA SlotMoves ==
    ASSUME TypeOK, SlotsCounted, NEW t \in Threads, NEW d \in EpochId \cup {NoEpoch},
           d # on[t],
           on' = [on EXCEPT ![t] = d],
           \A e \in EpochId : active'[e] = IF e = d THEN active[e] + 1
                                           ELSE IF e = on[t] THEN active[e] - 1
                                           ELSE active[e],
           activeLeases' = IF on[t] = NoEpoch THEN activeLeases + 1
                           ELSE IF d = NoEpoch THEN activeLeases - 1
                           ELSE activeLeases
    PROVE  SlotsCounted'
<1>1. on \in [Threads -> Int] /\ d \in Int
    BY BoundsAssumption DEF TypeOK, EpochId, NoEpoch
<1>2. \A e \in EpochId : Cardinality(Holders(e))' =
            IF e = d THEN Cardinality(Holders(e)) + 1
            ELSE IF e = on[t] THEN Cardinality(Holders(e)) - 1
            ELSE Cardinality(Holders(e))
    BY <1>1, MoveCounts DEF Holders, EpochId
<1>3. Cardinality(Busy)' = IF on[t] = 0 /\ d # 0 THEN Cardinality(Busy) + 1
                          ELSE IF on[t] # 0 /\ d = 0 THEN Cardinality(Busy) - 1
                          ELSE Cardinality(Busy)
    <2> DEFINE g == [on EXCEPT ![t] = d]
               away(h) == {u \in Threads : h[u] # 0}
    <2>1. Cardinality(away(g)) =
                  IF on[t] = 0 /\ d # 0 THEN Cardinality(away(on)) + 1
                  ELSE IF on[t] # 0 /\ d = 0 THEN Cardinality(away(on)) - 1
                  ELSE Cardinality(away(on))
        BY <1>1, BusyCounts
    <2>2. Busy' = away(g) /\ Busy = away(on)
        BY DEF Busy, NoEpoch
    <2> HIDE DEF away, g
    <2>. QED BY <2>1, <2>2
<1>. QED BY <1>2, <1>3 DEF SlotsCounted, NoEpoch, TypeOK
\* One step per action of a pool thread.
LEMMA IInvTask ==
    ASSUME IInv, NEW t \in Threads, Task(t)
    PROVE  IInv'
<1>0. TypeOK /\ TypeOK'
    BY TypeTask DEF IInv
<1>1. CASE TaskClaims(t)
    <2>1. PICK e \in EpochId : \E r \in permits[e] :
            /\ permits' = [permits EXCEPT ![e] = @ \ {r}]
            /\ pending' = [pending EXCEPT ![e] = @ - 1]
            /\ active' = [active EXCEPT ![e] = @ + 1]
            /\ on' = [on EXCEPT ![t] = e]
        BY <1>1 DEF TaskClaims
    <2>2. PICK r \in permits[e] : permits' = [permits EXCEPT ![e] = @ \ {r}]
        BY <2>1
    <2>3. on[t] = NoEpoch /\ e # NoEpoch /\ ~paused /\ pc'[t] = "enter"
        BY <1>1, <1>0 DEF TaskClaims, IInv, IdleHoldsNothing, EpochId, NoEpoch, TypeOK
    <2>4. SlotsCounted'
        <3>1. \A f \in EpochId : active'[f] = IF f = e THEN active[f] + 1
                                              ELSE IF f = on[t] THEN active[f] - 1
                                              ELSE active[f]
            <4>1. \A f \in EpochId : f # on[t]
                BY <2>3, BoundsAssumption DEF EpochId, NoEpoch
            <4>. QED BY <2>1, <4>1, <1>0 DEF TypeOK
        <3>2. activeLeases' = IF on[t] = NoEpoch THEN activeLeases + 1
                              ELSE IF e = NoEpoch THEN activeLeases - 1
                              ELSE activeLeases
            BY <1>1, <2>3 DEF TaskClaims
        <3>3. SlotsCounted /\ on' = [on EXCEPT ![t] = e] /\ e # on[t]
                /\ e \in EpochId \cup {NoEpoch}
            BY <2>1, <2>3 DEF IInv
        <3>. QED BY <1>0, <3>1, <3>2, <3>3, SlotMoves, Zenon
    <2>5. QueuesFinite' /\ PermitsCounted'
        <3>1. IsFiniteSet(permits[e]) /\ pending[e] = Cardinality(permits[e])
            BY DEF IInv, QueuesFinite, PermitsCounted
        <3>2. IsFiniteSet(permits[e] \ {r})
                /\ Cardinality(permits[e] \ {r}) = Cardinality(permits[e]) - 1
            BY <3>1, FS_RemoveElement
        <3>3. permits'[e] = permits[e] \ {r} /\ pending'[e] = pending[e] - 1
            BY <2>1, <2>2, <1>0 DEF TypeOK
        <3>4. \A f \in EpochId \ {e} : permits'[f] = permits[f] /\ pending'[f] = pending[f]
            BY <2>1, <2>2, <1>0 DEF TypeOK
        <3>5. e \in live /\ live' = live
            BY <1>1 DEF TaskClaims, IInv, PermitsCounted
        <3>6. QueuesFinite'
            BY <3>2, <3>3, <3>4 DEF QueuesFinite, IInv
        <3>7. \A f \in EpochId : pending'[f] = Cardinality(permits'[f])
            BY <3>1, <3>2, <3>3, <3>4 DEF IInv, PermitsCounted
        <3>8. \A f \in EpochId : f \notin live' => permits'[f] = {}
            BY <3>4, <3>5 DEF IInv, PermitsCounted
        <3>. QED BY <3>6, <3>7, <3>8 DEF PermitsCounted
    <2>6. IdleHoldsNothing'
        BY <1>1, <1>0, <2>1, <2>3 DEF TaskClaims, IInv, IdleHoldsNothing, TypeOK
    <2>7. SlotsLive'
        BY <1>1, <1>0, <2>1 DEF TaskClaims, IInv, SlotsLive, PermitsCounted, Busy, TypeOK
    <2>8. OwnersBound' /\ RevokedForgotten' /\ OneEpochPerSession' /\ IssuedEpochs' /\ LiveOpened'
        BY <1>1 DEF TaskClaims, IInv, OwnersBound, RevokedForgotten, OneEpochPerSession,
                    IssuedEpochs, LiveOpened, registryVars, sessionVars
    <2>9. ControllerInv'
        <3>1. UNCHANGED <<controllerVars, live, owner, draining, paused>>
            BY <1>1 DEF TaskClaims
        <3>2. cpc \notin {"retiring", "resuming", "snapshotting"}
            BY <2>3 DEF IInv, ControllerInv
        <3>. QED BY <3>1, <3>2, Zenon DEF IInv, ControllerInv, controllerVars
    <2>. QED BY <1>0, <2>4, <2>5, <2>6, <2>7, <2>8, <2>9 DEF IInv
<1>2. CASE Steal(t)
    <2>1. PICK e \in Candidates(t) :
            /\ active' = [active EXCEPT ![on[t]] = @ - 1, ![e] = @ + 1]
            /\ on' = [on EXCEPT ![t] = e]
        BY <1>2 DEF Steal, SlotMoved
    <2>2. pc[t] = "handoff" /\ pc'[t] = "enter" /\ on[t] # NoEpoch /\ on[t] \in EpochId
        BY <1>2, <1>0 DEF Steal, IInv, IdleHoldsNothing, TypeOK
    <2>3. e \in live /\ e \in EpochId /\ e # on[t] /\ e # NoEpoch
        BY <1>0, BoundsAssumption DEF Candidates, TypeOK, EpochId, NoEpoch
    <2>4. SlotsCounted'
        <3>1. \A f \in EpochId : active'[f] = IF f = e THEN active[f] + 1
                                              ELSE IF f = on[t] THEN active[f] - 1
                                              ELSE active[f]
            BY <2>1, <2>2, <2>3, <1>0 DEF TypeOK
        <3>2. activeLeases' = IF on[t] = NoEpoch THEN activeLeases + 1
                              ELSE IF e = NoEpoch THEN activeLeases - 1
                              ELSE activeLeases
            BY <1>2, <2>2, <2>3 DEF Steal, poolVars
        <3>3. SlotsCounted /\ on' = [on EXCEPT ![t] = e] /\ e # on[t]
                /\ e \in EpochId \cup {NoEpoch}
            BY <2>1, <2>3 DEF IInv
        <3>. QED BY <1>0, <3>1, <3>2, <3>3, SlotMoves, Zenon
    <2>5. UNCHANGED <<registryVars, live, owner, pending, draining, permits, nextEpoch,
                      paused, epochOpen, controllerVars>>
        BY <1>2 DEF Steal, poolVars, sessionVars
    <2>6. QueuesFinite' /\ PermitsCounted'
        BY <2>5 DEF IInv, QueuesFinite, PermitsCounted
    <2>7. IdleHoldsNothing'
        BY <1>2, <1>0, <2>1, <2>2, <2>3 DEF Steal, IInv, IdleHoldsNothing, TypeOK
    <2>8. SlotsLive'
        BY <2>5, <1>0, <2>1, <2>3 DEF IInv, SlotsLive, Busy, TypeOK
    <2>9. OwnersBound' /\ RevokedForgotten' /\ OneEpochPerSession' /\ IssuedEpochs' /\ LiveOpened'
        BY <2>5 DEF IInv, OwnersBound, RevokedForgotten, OneEpochPerSession,
                    IssuedEpochs, LiveOpened, registryVars
    <2>10. ControllerInv'
        <3>1. cpc \notin {"retiring", "resuming", "snapshotting"}
            BY <2>2 DEF IInv, ControllerInv, Busy
        <3>. QED BY <2>5, <3>1, Zenon DEF IInv, ControllerInv, controllerVars
    <2>. QED BY <1>0, <2>4, <2>6, <2>7, <2>8, <2>9, <2>10 DEF IInv
<1>3. CASE TaskFinishes(t)
    <2>1. /\ active' = [active EXCEPT ![on[t]] = @ - 1]
          /\ on' = [on EXCEPT ![t] = NoEpoch]
          /\ activeLeases' = activeLeases - 1
        BY <1>3 DEF TaskFinishes
    <2>2. pc[t] = "finish" /\ pc'[t] = "idle" /\ on[t] # NoEpoch /\ on[t] \in EpochId
        BY <1>3, <1>0 DEF TaskFinishes, IInv, IdleHoldsNothing, TypeOK
    <2>3. SlotsCounted'
        <3>1. \A f \in EpochId : f # NoEpoch
            BY BoundsAssumption DEF EpochId, NoEpoch
        <3>2. \A f \in EpochId : active'[f] = IF f = NoEpoch THEN active[f] + 1
                                              ELSE IF f = on[t] THEN active[f] - 1
                                              ELSE active[f]
            BY <2>1, <2>2, <3>1, <1>0 DEF TypeOK
        <3>3. activeLeases' = IF on[t] = NoEpoch THEN activeLeases + 1
                              ELSE IF NoEpoch = NoEpoch THEN activeLeases - 1
                              ELSE activeLeases
            BY <2>1, <2>2
        <3>4. SlotsCounted /\ NoEpoch # on[t] /\ NoEpoch \in EpochId \cup {NoEpoch}
            BY <2>2 DEF IInv
        <3>. QED BY <1>0, <2>1, <3>2, <3>3, <3>4, SlotMoves, Zenon
    <2>4. UNCHANGED <<registryVars, live, owner, pending, draining, permits, nextEpoch,
                      paused, epochOpen, cpc, toDrain, toClose, target>>
        BY <1>3 DEF TaskFinishes, sessionVars
    <2>5. QueuesFinite' /\ PermitsCounted'
        BY <2>4 DEF IInv, QueuesFinite, PermitsCounted
    <2>6. IdleHoldsNothing'
        BY <1>3, <1>0, <2>1, <2>2 DEF TaskFinishes, IInv, IdleHoldsNothing, TypeOK
    <2>7. Busy' \subseteq Busy
        BY <2>1, <1>0 DEF Busy, TypeOK
    <2>8. SlotsLive'
        BY <2>4, <2>1, <1>0 DEF IInv, SlotsLive, Busy, TypeOK
    <2>9. OwnersBound' /\ RevokedForgotten' /\ OneEpochPerSession' /\ IssuedEpochs' /\ LiveOpened'
        BY <2>4 DEF IInv, OwnersBound, RevokedForgotten, OneEpochPerSession,
                    IssuedEpochs, LiveOpened, registryVars
    <2>10. ControllerInv'
        <3>1. cpc \in {"retiring", "resuming", "snapshotting"} => Busy' = {}
            BY <2>7 DEF IInv, ControllerInv
        <3>. QED BY <2>4, <3>1, Zenon DEF IInv, ControllerInv
    <2>. QED BY <1>0, <2>3, <2>5, <2>6, <2>8, <2>9, <2>10 DEF IInv
<1>4. CASE ~TaskClaims(t) /\ ~Steal(t) /\ ~TaskFinishes(t)
    <2>1. UNCHANGED <<registryVars, epochVars, on, activeLeases, paused, epochOpen,
                      controllerVars>>
        BY <1>4 DEF Task, TaskReturns, LeaseEntered, LeaseRefused, ForestClaims,
                    ForestReturns, ForestLeaseEnds, OneShotEnds, Classify, StealLoopEnds,
                    poolVars, threadVars, sessionVars
    <2>2. \A u \in Threads : pc'[u] = "idle" <=> pc[u] = "idle"
        BY <1>4, <1>0 DEF Task, TaskReturns, LeaseEntered, LeaseRefused, ForestClaims,
                    ForestReturns, ForestLeaseEnds, OneShotEnds, Classify, StealLoopEnds,
                    threadVars, TypeOK
    <2>. QED BY <1>0, <2>1, <2>2, QuietStep
<1>. QED BY <1>1, <1>2, <1>3, <1>4
\* A controller step that leaves slots, owners, permits and the pool's counters
\* alone keeps the accounting.
LEMMA SlotsKept ==
    ASSUME IInv, UNCHANGED <<owner, pending, active, permits, nextEpoch, live,
                             activeLeases, threadVars>>
    PROVE  /\ QueuesFinite' /\ PermitsCounted' /\ IdleHoldsNothing'
           /\ SlotsCounted' /\ SlotsLive' /\ Busy' = Busy
           /\ OneEpochPerSession' /\ IssuedEpochs'
<1>1. QueuesFinite' /\ PermitsCounted' /\ OneEpochPerSession' /\ IssuedEpochs'
    BY DEF IInv, QueuesFinite, PermitsCounted, OneEpochPerSession, IssuedEpochs
<1>2. IdleHoldsNothing'
    BY DEF IInv, IdleHoldsNothing, threadVars
<1>3. Busy' = Busy /\ \A e : Holders(e)' = Holders(e)
    BY DEF Busy, Holders, threadVars
<1>4. SlotsCounted' /\ SlotsLive'
    BY <1>3 DEF IInv, SlotsCounted, SlotsLive, threadVars
<1>. QED BY <1>1, <1>2, <1>3, <1>4

\* The drain erases an epoch without permits and without slots.
LEMMA IInvDrainErases ==
    ASSUME IInv, TypeOK', NEW e \in EpochId, DrainErases(e)
    PROVE  IInv'
<1>0. TypeOK /\ cpc = "draining" /\ e \in toDrain /\ e \in live
      /\ pending[e] = 0 /\ active[e] = 0
    BY DEF IInv, ControllerInv, TypeOK, DrainErases, Drained, IsNext
<1>1. /\ live' = live \ {e} /\ draining' = draining \ {e} /\ toDrain' = toDrain \ {e}
      /\ toClose' = toClose \cup {owner[e]} /\ owner' = owner
      /\ cpc' = IF toDrain' = {} THEN "closing" ELSE "draining"
      /\ UNCHANGED <<registryVars, pending, active, permits, nextEpoch, poolVars,
                     threadVars, epochOpen, target>>
    BY DEF DrainErases, sessionVars
<1>2. \A f \in EpochId : IsFiniteSet(permits[f])
    BY DEF IInv, QueuesFinite
<1>3. permits[e] = {}
    <2>1. Cardinality(permits[e]) = 0
        BY <1>0 DEF IInv, PermitsCounted
    <2>. QED BY <1>2, <2>1, FS_EmptySet
<1>4. QueuesFinite' /\ PermitsCounted'
    BY <1>1, <1>3 DEF IInv, QueuesFinite, PermitsCounted
<1>5. IdleHoldsNothing'
    BY <1>1 DEF IInv, IdleHoldsNothing, threadVars
<1>6. Busy' = Busy /\ \A f : Holders(f)' = Holders(f)
    BY <1>1 DEF Busy, Holders, threadVars
<1>7. SlotsCounted'
    BY <1>1, <1>6 DEF IInv, SlotsCounted, poolVars
<1>8. SlotsLive'
    <2>1. IsFiniteSet(Holders(e)) /\ Cardinality(Holders(e)) = 0
        BY <1>0, ThreadsAssumption, FS_Subset DEF IInv, SlotsCounted, Holders
    <2>2. Holders(e) = {}
        BY <2>1, FS_EmptySet
    <2>. QED BY <1>1, <1>6, <2>2 DEF IInv, SlotsLive, Busy, Holders, threadVars
<1>9. \A f \in live' : owner'[f] = owner[f] /\ f \in live /\ f # e
    BY <1>0, <1>1 DEF TypeOK
<1>10. OwnersBound' /\ RevokedForgotten' /\ OneEpochPerSession' /\ IssuedEpochs' /\ LiveOpened'
    BY <1>1, <1>9 DEF IInv, OwnersBound, RevokedForgotten, OneEpochPerSession,
                      IssuedEpochs, LiveOpened, registryVars
<1>11. ControllerInv'
    <2>1. \A s \in toClose' : \A f \in live' : owner'[f] # s
        BY <1>0, <1>1, <1>9 DEF IInv, ControllerInv, OneEpochPerSession
    <2>2. draining' = toDrain' /\ (cpc' = "draining" <=> toDrain' # {})
            /\ cpc' \in {"draining", "closing"}
        BY <1>1 DEF IInv, ControllerInv
    <2>3. ~paused /\ paused' = paused
        BY <1>0, <1>1 DEF IInv, ControllerInv, poolVars
    <2>. QED BY <2>1, <2>2, <2>3 DEF ControllerInv
<1>. QED BY <1>4, <1>5, <1>7, <1>8, <1>10, <1>11 DEF IInv

\* A granted batch: new epochs start with their permits and without slots, and
\* their sessions had none.
LEMMA IInvGrantEpochs ==
    ASSUME IInv, TypeOK', NEW b \in Batches, GrantEpochs(b)
    PROVE  IInv'
<1> DEFINE n == Len(b)
           new == NewEpochs(n)
<1>0a. TypeOK /\ nextEpoch \in Nat
    BY BoundsAssumption DEF IInv, TypeOK
<1>0b. b \in Seq(Request) /\ n > 0
    BY BatchesAssumption
<1>0c. n \in Nat
    BY <1>0b
<1>0d. /\ cpc = "ready" /\ nextEpoch + n - 1 <= MaxEpochs
       /\ BindAndEmplace(b, n) /\ permits' = QueueWith(b)
    BY DEF GrantEpochs
<1>0e. UNCHANGED <<registered, revoked, active, draining, paused, activeLeases,
                   threadVars, controllerVars>>
    BY DEF GrantEpochs
<1>0. /\ TypeOK /\ cpc = "ready" /\ n \in Nat /\ nextEpoch \in Nat /\ n > 0
      /\ nextEpoch + n - 1 <= MaxEpochs
      /\ BindAndEmplace(b, n) /\ permits' = QueueWith(b)
      /\ UNCHANGED <<registered, revoked, active, draining, paused, activeLeases,
                     threadVars, controllerVars>>
    BY <1>0a, <1>0b, <1>0c, <1>0d, <1>0e
<1>1. /\ bound' = bound \cup {b[i].session : i \in 1 .. n}
      /\ live' = live \cup new /\ nextEpoch' = nextEpoch + n
      /\ owner' = [e \in EpochId |-> IF e \in new THEN RequestOf(b, e).session ELSE owner[e]]
      /\ pending' = [e \in EpochId |-> IF e \in new THEN RequestOf(b, e).permits ELSE pending[e]]
    BY <1>0, Zenon DEF BindAndEmplace
<1>2. \A e \in new : e >= nextEpoch /\ e < nextEpoch + n /\ e \notin live
    BY <1>0 DEF NewEpochs, IInv, IssuedEpochs
<1>3. toDrain = {} /\ draining = {} /\ toClose = {} /\ ~paused
    BY <1>0 DEF IInv, ControllerInv
<1>4. \A e \in EpochId : IsFiniteSet(permits'[e])
                        /\ Cardinality(permits'[e]) = pending'[e]
                        /\ (e \notin live' => permits'[e] = {})
    <2> SUFFICES ASSUME NEW e \in EpochId
                 PROVE  IsFiniteSet(permits'[e]) /\ Cardinality(permits'[e]) = pending'[e]
                        /\ (e \notin live' => permits'[e] = {})
        OBVIOUS
    <2> DEFINE m == Cardinality(permits[e]) +
                        (IF e \in new THEN RequestOf(b, e).permits ELSE 0)
    <2>1. permits'[e] = 1 .. m
        BY <1>0 DEF QueueWith
    <2>2. Cardinality(permits[e]) \in Nat /\ pending[e] = Cardinality(permits[e])
            /\ (e \notin live => Cardinality(permits[e]) = 0)
        BY FS_CardinalityType, FS_EmptySet DEF IInv, QueuesFinite, PermitsCounted
    <2>3. e \in new => RequestOf(b, e).permits \in Nat
        BY <1>0, RequestTyped
    <2>4. m \in Nat
        BY <2>2, <2>3
    <2>5. \A k \in Nat : IsFiniteSet(1 .. k) /\ Cardinality(1 .. k) = k
        BY FS_Interval
    <2>6. m = pending'[e]
        BY <1>1, <1>2, <2>2, <2>3
    <2>7. e \notin live' => m = 0
        BY <1>1, <2>2
    <2> HIDE DEF m
    <2>. QED BY <2>1, <2>4, <2>5, <2>6, <2>7
<1>5. QueuesFinite' /\ PermitsCounted'
    BY <1>4 DEF QueuesFinite, PermitsCounted
<1>6. IdleHoldsNothing'
    BY <1>0 DEF IInv, IdleHoldsNothing, threadVars
<1>7. Busy' = Busy /\ \A f : Holders(f)' = Holders(f)
    BY <1>0 DEF Busy, Holders, threadVars
<1>8. SlotsCounted' /\ SlotsLive'
    BY <1>0, <1>1, <1>7 DEF IInv, SlotsCounted, SlotsLive, threadVars
<1>9. \A e \in live : e \in live' /\ e \notin new /\ owner'[e] = owner[e]
    BY <1>0, <1>1, <1>2 DEF TypeOK
<1>10. \A e \in new : \E i \in 1 .. n : /\ e = nextEpoch + i - 1
                                       /\ owner'[e] = b[i].session
                                       /\ Emplaceable(b, i)
    <2> SUFFICES ASSUME NEW e \in new
                 PROVE  \E i \in 1 .. n : /\ e = nextEpoch + i - 1
                                          /\ owner'[e] = b[i].session
                                          /\ Emplaceable(b, i)
        OBVIOUS
    <2>1. e - nextEpoch + 1 \in 1 .. n /\ e = nextEpoch + (e - nextEpoch + 1) - 1
        BY <1>0 DEF NewEpochs
    <2>2. e \in EpochId
        BY <1>0, <1>1 DEF TypeOK
    <2>3. owner'[e] = b[e - nextEpoch + 1].session
        BY <1>1, <2>2 DEF RequestOf
    <2>4. \A i \in 1 .. n : Emplaceable(b, i)
        BY DEF GrantEpochs
    <2>. QED BY <2>1, <2>3, <2>4
<1>11. OwnersBound' /\ RevokedForgotten'
    <2>1. \A e \in new : owner'[e] \in bound' \ revoked'
        BY SMTT(30), <1>0, <1>1, <1>10 DEF Emplaceable, IInv, RevokedForgotten
    <2>2. \A e \in live : owner'[e] \in bound' \ revoked'
        <3>1. bound \subseteq bound' /\ revoked' = revoked
            BY <1>0, <1>1
        <3>. QED BY <3>1, <1>9 DEF IInv, OwnersBound
    <2>. QED BY <1>0, <1>1, <2>1, <2>2 DEF OwnersBound, IInv, RevokedForgotten
<1>12. OneEpochPerSession'
    <2>1. \A e, f \in live : owner'[e] = owner'[f] => e = f
        BY <1>9 DEF IInv, OneEpochPerSession
    <2>2. \A e \in new, f \in live : owner'[e] # owner'[f]
        BY <1>3, <1>9, <1>10 DEF Emplaceable, LiveEpochsOf
    <2>3. \A e, f \in new : owner'[e] = owner'[f] => e = f
        <3> SUFFICES ASSUME NEW e \in new, NEW f \in new, owner'[e] = owner'[f]
                     PROVE  e = f
            OBVIOUS
        <3>1. PICK i \in 1 .. n : e = nextEpoch + i - 1 /\ owner'[e] = b[i].session
                                  /\ Emplaceable(b, i)
            BY <1>10
        <3>2. PICK j \in 1 .. n : f = nextEpoch + j - 1 /\ owner'[f] = b[j].session
                                  /\ Emplaceable(b, j)
            BY <1>10
        <3>3. ~(i < j) /\ ~(j < i)
            BY <3>1, <3>2 DEF Emplaceable
        <3>. QED BY <3>1, <3>2, <3>3
    <2>4. \A e \in live' : e \in live \/ e \in new
        BY <1>1
    <2> HIDE DEF new
    <2>. QED BY <2>1, <2>2, <2>3, <2>4 DEF OneEpochPerSession
<1>13. IssuedEpochs'
    BY <1>0, <1>1, <1>2 DEF IInv, IssuedEpochs, TypeOK, EpochId
<1>14. ControllerInv'
    BY <1>0, <1>3, Zenon DEF IInv, ControllerInv, controllerVars
<1>15. LiveOpened'
    <2>1. epochOpen' = [s \in Sessions |->
                s \in {b[i].session : i \in 1 .. n} \cap Forests \/ epochOpen[s]]
        BY DEF GrantEpochs, OpenEpochs
    <2>2. \A e \in new : owner'[e] \in Forests => epochOpen'[owner'[e]]
        BY <1>10, <2>1 DEF Forests
    <2>3. \A e \in live : owner'[e] \in Forests => epochOpen'[owner'[e]]
        <3>1. \A e \in live : owner[e] \in Forests => epochOpen[owner[e]] /\ owner[e] \in Sessions
            BY DEF IInv, LiveOpened, Forests
        <3>. QED BY <1>9, <2>1, <3>1, Zenon
    <2>. QED BY <1>1, <2>2, <2>3 DEF LiveOpened
<1>. QED BY <1>5, <1>6, <1>8, <1>11, <1>12, <1>13, <1>14, <1>15 DEF IInv

\* One step per action of the controller.
LEMMA IInvController ==
    ASSUME IInv, Continue \/ Call
    PROVE  IInv'
<1>0. TypeOK /\ TypeOK' /\ ControllerInv
    BY TypeController DEF IInv
<1>1. ASSUME NEW e \in EpochId, DrainErases(e) PROVE IInv'
    BY <1>0, <1>1, IInvDrainErases
<1>2. ASSUME NEW b \in Batches, GrantEpochs(b) PROVE IInv'
    BY <1>0, <1>2, IInvGrantEpochs
<1>3. CASE \/ \E e \in EpochId : DrainSleeps(e)
           \/ \E s \in Sessions : CloseSession(s) \/ Register(s) \/ BindSession(s)
                                    \/ UnregisterBegin(s)
           \/ QuiesceSleeps \/ QuiesceDone \/ Resume \/ Retire
           \/ \E E \in SUBSET EpochId : DrainBegin(E)
           \/ CheckpointBegin \/ Destroy
    <2>1. UNCHANGED <<owner, pending, active, permits, nextEpoch, live,
                      activeLeases, threadVars>>
        BY <1>3 DEF DrainSleeps, CloseSession, Register, BindSession, UnregisterBegin,
                    QuiesceSleeps, QuiesceDone, Resume, Retire, DrainBegin,
                    CheckpointBegin, Destroy, epochVars, poolVars
    <2>2. /\ QueuesFinite' /\ PermitsCounted' /\ IdleHoldsNothing'
          /\ SlotsCounted' /\ SlotsLive' /\ Busy' = Busy
          /\ OneEpochPerSession' /\ IssuedEpochs'
        BY <2>1, SlotsKept
    <2>3. OwnersBound' /\ RevokedForgotten'
        <3>1. CASE Retire
            BY <3>1, <2>1 DEF Retire, Forget, IInv, OwnersBound, RevokedForgotten, LiveEpochsOf
        <3>2. CASE ~Retire
            <4>1. revoked' = revoked /\ bound \subseteq bound'
                BY <1>3, <3>2 DEF DrainSleeps, CloseSession, Register, BindSession,
                        UnregisterBegin, QuiesceSleeps, QuiesceDone, Resume, DrainBegin,
                        CheckpointBegin, Destroy, registryVars
            <4>2. registered' \ registered \subseteq Sessions \ revoked
                BY <1>3, <3>2 DEF DrainSleeps, CloseSession, Register, BindSession,
                        UnregisterBegin, QuiesceSleeps, QuiesceDone, Resume, DrainBegin,
                        CheckpointBegin, Destroy, registryVars
            <4>. QED BY <2>1, <4>1, <4>2 DEF IInv, OwnersBound, RevokedForgotten
        <3>. QED BY <3>1, <3>2
    <2>4. ControllerInv'
        <3>1. CASE (\E e \in EpochId : DrainSleeps(e)) \/ QuiesceSleeps
                    \/ \E s \in Sessions : Register(s) \/ BindSession(s)
            <4>1. UNCHANGED <<cpc, live, owner, draining, paused, toDrain, toClose, target>>
                BY <3>1 DEF DrainSleeps, QuiesceSleeps, Register, BindSession, epochVars,
                        poolVars, controllerVars
            <4>. QED BY <1>0, <2>2, <4>1, Zenon DEF ControllerInv
        <3>2. ASSUME NEW s \in Sessions, CloseSession(s) PROVE ControllerInv'
            <4>1. /\ cpc = "closing" /\ toDrain = {} /\ draining = {} /\ ~paused
                  /\ toClose' = toClose \ {s}
                  /\ cpc' = IF toClose' = {} THEN "ready" ELSE "closing"
                  /\ UNCHANGED <<live, owner, draining, paused, toDrain>>
                BY <1>0, <3>2 DEF CloseSession, ControllerInv, epochVars, poolVars
            <4>. QED BY <1>0, <4>1 DEF ControllerInv
        <3>4. CASE (\E s \in Sessions : UnregisterBegin(s)) \/ CheckpointBegin
            <4>1. /\ cpc = "ready" /\ cpc' = "quiescing" /\ paused' = TRUE
                  /\ UNCHANGED <<live, owner, draining, toDrain, toClose>>
                BY <3>4 DEF UnregisterBegin, CheckpointBegin, epochVars
            <4>. QED BY <1>0, <4>1 DEF ControllerInv
        <3>6. CASE QuiesceDone
            <4>1. Busy = {}
                <5>1. IsFiniteSet(Busy) /\ Cardinality(Busy) = 0
                    BY <3>6, ThreadsAssumption, FS_Subset DEF QuiesceDone, AtRest, IInv,
                            SlotsCounted, Busy
                <5>. QED BY <5>1, FS_EmptySet
            <4>2. /\ cpc = "quiescing"
                  /\ cpc' = IF target = NoSession THEN "snapshotting" ELSE "retiring"
                  /\ UNCHANGED <<live, owner, draining, paused, toDrain, toClose, target>>
                BY <3>6 DEF QuiesceDone, epochVars, poolVars
            <4>. QED BY <1>0, <2>2, <4>1, <4>2 DEF ControllerInv
        <3>7. CASE Resume
            <4>1. /\ cpc \in {"resuming", "snapshotting"} /\ cpc' = "ready"
                  /\ paused' = FALSE
                  /\ UNCHANGED <<live, owner, draining, toDrain, toClose>>
                BY <3>7 DEF Resume, epochVars
            <4>. QED BY <1>0, <4>1 DEF ControllerInv
        <3>8. CASE Retire
            <4>1. /\ cpc = "retiring" /\ cpc' = "resuming"
                  /\ UNCHANGED <<live, owner, draining, paused, toDrain, toClose>>
                BY <3>8 DEF Retire, epochVars, poolVars
            <4>. QED BY <1>0, <2>2, <4>1 DEF ControllerInv
        <3>9. ASSUME NEW E \in SUBSET EpochId, DrainBegin(E) PROVE ControllerInv'
            <4>1. /\ cpc = "ready" /\ cpc' = "draining" /\ E # {} /\ toDrain' = E
                  /\ draining' = draining \cup E
                  /\ UNCHANGED <<live, owner, paused, toClose>>
                BY <3>9 DEF DrainBegin, poolVars
            <4>. QED BY <1>0, <4>1 DEF ControllerInv
        <3>10. CASE Destroy
            <4>1. /\ cpc = "ready" /\ cpc' = "destroyed"
                  /\ UNCHANGED <<live, owner, draining, paused, toDrain, toClose>>
                BY <3>10 DEF Destroy, epochVars
            <4>. QED BY <1>0, <4>1 DEF ControllerInv
        <3>. QED BY <1>3, <3>1, <3>2, <3>4, <3>6, <3>7, <3>8, <3>9, <3>10
    <2>5. LiveOpened'
        <3>1. CASE \E s \in Sessions : CloseSession(s)
            <4>1. PICK s \in Sessions : CloseSession(s)
                BY <3>1
            <4>2. s \in toClose /\ epochOpen' = [epochOpen EXCEPT ![s] = FALSE]
                BY <4>1 DEF CloseSession
            <4>3. \A e \in live : owner[e] # s
                BY <1>0, <4>2 DEF ControllerInv
            <4>. QED BY <1>0, <2>1, <4>2, <4>3 DEF IInv, LiveOpened, TypeOK, Forests
        <3>2. CASE ~\E s \in Sessions : CloseSession(s)
            <4>1. epochOpen' = epochOpen
                BY <1>3, <3>2 DEF DrainSleeps, Register, BindSession, UnregisterBegin,
                        QuiesceSleeps, QuiesceDone, Resume, Retire, DrainBegin,
                        CheckpointBegin, Destroy, sessionVars
            <4>. QED BY <2>1, <4>1 DEF IInv, LiveOpened
        <3>. QED BY <3>1, <3>2
    <2>. QED BY <1>0, <2>2, <2>3, <2>4, <2>5 DEF IInv
<1>. QED BY <1>1, <1>2, <1>3 DEF Continue, Call
-----------------------------------------------------------------------------
\* The theorems.

\* IInv holds in every reachable state.
THEOREM Invariance == Spec => []IInv
<1>1. Init => IInv
    BY IInvInitial
<1>2. IInv /\ [Next]_vars => IInv'
    <2> SUFFICES ASSUME IInv, [Next]_vars PROVE IInv'
        OBVIOUS
    <2>1. ASSUME NEW t \in Threads, Task(t) PROVE IInv'
        BY <2>1, IInvTask
    <2>2. CASE Continue \/ Call
        BY <2>2, IInvController
    <2>3. CASE UNCHANGED vars
        <3>1. UNCHANGED <<registryVars, epochVars, poolVars, threadVars, sessionVars,
                          controllerVars>>
            BY <2>3 DEF vars
        <3>2. TypeOK'
            BY <3>1 DEF IInv, TypeOK, registryVars, epochVars, poolVars, threadVars,
                        sessionVars, controllerVars
        <3>3. \A u \in Threads : pc'[u] = "idle" <=> pc[u] = "idle"
            BY <3>1 DEF threadVars
        <3>. QED BY <3>1, <3>2, <3>3, QuietStep DEF poolVars, threadVars, sessionVars
    <2>. QED BY <2>1, <2>2, <2>3 DEF Next
<1>. QED BY <1>1, <1>2, PTL DEF Spec

\* The type invariant.
THEOREM TypeCorrect == Spec => []TypeOK
<1>1. IInv => TypeOK
    BY DEF IInv
<1>. QED BY <1>1, Invariance, PTL

\* active and active_leases_ count the threads that hold slots, so the waits of
\* drain_epochs and quiesce_all test what they mean to test.
THEOREM SlotAccounting == Spec => []SlotsCounted
<1>1. IInv => SlotsCounted
    BY DEF IInv
<1>. QED BY <1>1, Invariance, PTL

\* pending counts the epoch's permits in the deque, and only live epochs have any.
THEOREM PermitAccounting == Spec => []PermitsCounted
<1>1. IInv => PermitsCounted
    BY DEF IInv
<1>. QED BY <1>1, Invariance, PTL

\* No task works on an erased epoch or in an unregistered session.
THEOREM SlotSafety == Spec => []SlotsOnLiveEpochs
<1>1. IInv => SlotsOnLiveEpochs
    BY DEF IInv, SlotsLive, OwnersBound, SlotsOnLiveEpochs
<1>. QED BY <1>1, Invariance, PTL

\* The controller closes a session's epoch when no task is in the session.
THEOREM CloseSafety == Spec => []ClosedSessionsUnused
<1>1. IInv => ClosedSessionsUnused
    BY DEF IInv, SlotsLive, ControllerInv, ClosedSessionsUnused, Busy, TypeOK
<1>. QED BY <1>1, Invariance, PTL

\* A lease always finds its forest's epoch open.
THEOREM LeaseSafety == Spec => []LeasesFindOpenEpoch
<1>1. IInv => LeasesFindOpenEpoch
    BY DEF IInv, SlotsLive, LiveOpened, IdleHoldsNothing, LeasesFindOpenEpoch, Busy
<1>. QED BY <1>1, Invariance, PTL

\* In a quiescent pool a task can only return: it holds no slot and may take none.
LEMMA QuiescentTasks ==
    ASSUME IInv, cpc \in {"snapshotting", "retiring", "resuming"},
           NEW t \in Threads, Task(t)
    PROVE  TaskReturns(t)
<1>1. paused /\ Busy = {}
    BY DEF IInv, ControllerInv
<1>2. pc[t] = "idle"
    BY <1>1 DEF IInv, IdleHoldsNothing, Busy
<1>. QED BY <1>1, <1>2 DEF Task, TaskClaims, LeaseEntered, LeaseRefused, ForestClaims,
             ForestReturns, ForestLeaseEnds, OneShotEnds, Classify, Steal,
             StealLoopEnds, TaskFinishes

\* Between the end of quiesce_all and resume, sessions and epochs stand still.
THEOREM QuiescenceFreezes == Spec => FrozenWhileQuiesced
<1>1. IInv /\ [Next]_vars =>
        [(cpc \in {"snapshotting", "retiring"}) => UNCHANGED <<sessionVars, epochVars>>]_vars
    <2> SUFFICES ASSUME IInv, Next, cpc \in {"snapshotting", "retiring"}
                 PROVE  UNCHANGED <<sessionVars, epochVars>>
        BY Zenon
    <2>1. ASSUME NEW t \in Threads, Task(t) PROVE UNCHANGED <<sessionVars, epochVars>>
        <3>1. TaskReturns(t)
            BY <2>1, QuiescentTasks
        <3>. QED BY <3>1 DEF TaskReturns
    <2>2. CASE Continue \/ Call
        BY <2>2 DEF Continue, Call, DrainErases, DrainSleeps, CloseSession,
                    QuiesceSleeps, QuiesceDone, Retire, Resume, Register, BindSession,
                    UnregisterBegin, GrantEpochs, DrainBegin, CheckpointBegin, Destroy
    <2>. QED BY <2>1, <2>2 DEF Next
<1>. QED BY <1>1, Invariance, PTL DEF Spec, FrozenWhileQuiesced
-----------------------------------------------------------------------------
\* The executor implements SessionService.

OpenNow   == {owner[e] : e \in live}
UserNow   == [t \in Threads |-> IF on[t] = NoEpoch THEN NoSession ELSE owner[on[t]]]
FrozenNow == cpc \in {"snapshotting", "retiring", "resuming"}

\* Steps that move no slot and admit or erase no epoch show nothing to a session.
LEMMA ServiceStutters ==
    ASSUME UNCHANGED <<owner, live, on>>
    PROVE  OpenNow' = OpenNow /\ UserNow' = UserNow
BY DEF OpenNow, UserNow

\* A task step takes, moves or gives back a slot, or shows nothing.
LEMMA ServiceTask ==
    ASSUME IInv, NEW t \in Threads, Task(t)
    PROVE  \/ UNCHANGED <<OpenNow, UserNow, FrozenNow>>
           \/ Service!Leave(t)
           \/ \E s \in Sessions : Service!Use(t, s)
<1>0. TypeOK /\ UNCHANGED cpc
    BY DEF IInv, Task, TaskReturns, TaskClaims, LeaseEntered, LeaseRefused, ForestClaims,
           ForestReturns, ForestLeaseEnds, OneShotEnds, Classify, Steal, StealLoopEnds,
           TaskFinishes, controllerVars
<1>1. ASSUME NEW e \in live, on' = [on EXCEPT ![t] = e], UNCHANGED <<owner, live>>,
             ~FrozenNow
      PROVE  \E s \in Sessions : Service!Use(t, s)
    <2>1. e \in EpochId /\ e # NoEpoch /\ owner[e] \in Sessions
        BY <1>0, BoundsAssumption DEF TypeOK, IInv, OwnersBound, EpochId, NoEpoch
    <2>2. UserNow' = [UserNow EXCEPT ![t] = owner[e]]
        BY <1>0, <1>1, <2>1 DEF UserNow, TypeOK
    <2>3. OpenNow' = OpenNow /\ owner[e] \in OpenNow
        BY <1>1 DEF OpenNow
    <2>4. FrozenNow' = FrozenNow
        BY <1>0 DEF FrozenNow
    <2>. QED BY <1>1, <2>1, <2>2, <2>3, <2>4 DEF Service!Use, OpenNow, UserNow, FrozenNow
<1>2. CASE TaskClaims(t)
    <2>1. PICK e \in EpochId : permits[e] # {} /\ on' = [on EXCEPT ![t] = e]
        BY <1>2 DEF TaskClaims
    <2>2. e \in live /\ ~FrozenNow /\ UNCHANGED <<owner, live>>
        BY <1>2, <2>1 DEF TaskClaims, IInv, PermitsCounted, ControllerInv, FrozenNow
    <2>. QED BY <1>1, <2>1, <2>2
<1>3. CASE Steal(t)
    <2>1. PICK e \in Candidates(t) : on' = [on EXCEPT ![t] = e]
        BY <1>3 DEF Steal
    <2>2. e \in live /\ UNCHANGED <<owner, live>>
        BY <1>3 DEF Steal, Candidates
    <2>3. ~FrozenNow
        BY <1>3 DEF Steal, IInv, IdleHoldsNothing, ControllerInv, FrozenNow, Busy
    <2>. QED BY <1>1, <2>1, <2>2, <2>3
<1>4. CASE TaskFinishes(t)
    <2>1. on' = [on EXCEPT ![t] = NoEpoch] /\ UNCHANGED <<owner, live>>
        BY <1>4 DEF TaskFinishes
    <2>2. UserNow' = [UserNow EXCEPT ![t] = NoSession]
        BY <1>0, <2>1 DEF UserNow, TypeOK
    <2>3. OpenNow' = OpenNow
        BY <2>1 DEF OpenNow
    <2>4. FrozenNow' = FrozenNow
        BY <1>0 DEF FrozenNow
    <2>. QED BY <2>2, <2>3, <2>4 DEF Service!Leave, OpenNow, UserNow, FrozenNow
<1>5. CASE ~TaskClaims(t) /\ ~Steal(t) /\ ~TaskFinishes(t)
    <2>1. UNCHANGED <<owner, live, on>>
        BY <1>5 DEF Task, TaskReturns, LeaseEntered, LeaseRefused, ForestClaims,
                    ForestReturns, ForestLeaseEnds, OneShotEnds, Classify, StealLoopEnds,
                    epochVars, threadVars
    <2>2. FrozenNow' = FrozenNow
        BY <1>0 DEF FrozenNow
    <2>. QED BY <2>1, <2>2, ServiceStutters
<1>. QED BY <1>2, <1>3, <1>4, <1>5

\* A grant opens the sessions of its batch.
LEMMA ServiceGrant ==
    ASSUME IInv, IInv', NEW b \in Batches, GrantEpochs(b)
    PROVE  \E S \in SUBSET Sessions : Service!Open(S)
<1> DEFINE n == Len(b)
           new == NewEpochs(n)
           S == {owner'[e] : e \in new}
<1>1. b \in Seq(Request) /\ n > 0
    BY BatchesAssumption
<1>2. n \in Nat /\ nextEpoch \in Nat
    BY <1>1, BoundsAssumption DEF IInv, TypeOK
<1>3. /\ live' = live \cup new
      /\ owner' = [e \in EpochId |-> IF e \in new THEN RequestOf(b, e).session ELSE owner[e]]
      /\ cpc = "ready" /\ cpc' = cpc /\ on' = on
    BY DEF GrantEpochs, BindAndEmplace, controllerVars, threadVars
<1>4. \A e \in live : e \notin new /\ e \in EpochId /\ owner'[e] = owner[e]
    BY <1>2, <1>3 DEF NewEpochs, IInv, IssuedEpochs, TypeOK
<1>5. \A e \in new : e \in live' /\ owner'[e] \in Sessions
    BY <1>3 DEF IInv, OwnersBound, TypeOK
<1>6. nextEpoch \in new
    BY <1>1, <1>2 DEF NewEpochs
<1>7. S # {} /\ S \in SUBSET Sessions
    BY <1>5, <1>6
<1>8. OpenNow' = OpenNow \cup S
    BY <1>3, <1>4 DEF OpenNow
<1>9. S \cap OpenNow = {}
    <2>1. \A e \in new, f \in live : owner'[e] # owner'[f]
        BY <1>3, <1>4, <1>5 DEF IInv, OneEpochPerSession
    <2>. QED BY <1>4, <2>1 DEF OpenNow
<1>10. UserNow' = UserNow
    <2>1. \A t \in Threads : on[t] # NoEpoch => owner'[on[t]] = owner[on[t]]
        BY <1>4 DEF IInv, SlotsLive, Busy
    <2>. QED BY <1>3, <2>1 DEF UserNow
<1>11. ~FrozenNow /\ FrozenNow' = FrozenNow
    BY <1>3 DEF FrozenNow
<1> HIDE DEF S
<1>. QED BY <1>7, <1>8, <1>9, <1>10, <1>11 DEF Service!Open, OpenNow, UserNow, FrozenNow

\* Erasing an epoch closes its session, in which no thread is left.
LEMMA ServiceClose ==
    ASSUME IInv, IInv', NEW e \in EpochId, DrainErases(e)
    PROVE  \E s \in Sessions : Service!Close(s)
<1>1. /\ cpc = "draining" /\ cpc' \in {"draining", "closing"}
      /\ e \in live /\ live' = live \ {e} /\ owner' = owner
      /\ on' = on
    BY DEF DrainErases, IsNext, IInv, ControllerInv, TypeOK, threadVars
<1>2. owner[e] \in Sessions /\ owner[e] \in OpenNow
    BY <1>1 DEF IInv, TypeOK, OwnersBound, OpenNow
<1>3. \A f \in live \ {e} : owner'[f] = owner[f] /\ owner[f] # owner[e]
    BY <1>1 DEF IInv, TypeOK, OneEpochPerSession
<1>4. OpenNow' = OpenNow \ {owner[e]}
    BY <1>1, <1>3 DEF OpenNow
<1>5. \A t \in Threads : on[t] # NoEpoch => on[t] \in live \ {e}
    BY <1>1 DEF IInv, SlotsLive, Busy
<1>6. UserNow' = UserNow /\ \A t \in Threads : UserNow[t] # owner[e]
    BY <1>1, <1>2, <1>3, <1>5, SessionsAssumption DEF UserNow
<1>7. ~FrozenNow /\ FrozenNow' = FrozenNow
    BY <1>1 DEF FrozenNow
<1>. QED BY <1>2, <1>4, <1>6, <1>7 DEF Service!Close, OpenNow, UserNow, FrozenNow

\* Every step of the executor is a step of SessionService or shows nothing.
LEMMA ServiceStep ==
    ASSUME IInv, IInv', [Next]_vars
    PROVE  [Service!ServiceNext]_(Service!serviceVars)
<1> SUFFICES ASSUME ~UNCHANGED <<OpenNow, UserNow, FrozenNow>>
             PROVE  Service!ServiceNext
    BY DEF Service!serviceVars, OpenNow, UserNow, FrozenNow
<1>1. ASSUME NEW t \in Threads, Task(t) PROVE Service!ServiceNext
    BY <1>1, ServiceTask DEF Service!ServiceNext
<1>2. ASSUME NEW b \in Batches, GrantEpochs(b) PROVE Service!ServiceNext
    BY <1>2, ServiceGrant DEF Service!ServiceNext
<1>3. ASSUME NEW e \in EpochId, DrainErases(e) PROVE Service!ServiceNext
    BY <1>3, ServiceClose DEF Service!ServiceNext
<1>4. CASE QuiesceDone
    <2>1. UNCHANGED <<owner, live, on>> /\ cpc = "quiescing" /\ cpc' \in {"snapshotting", "retiring"}
        BY <1>4 DEF QuiesceDone, epochVars, threadVars
    <2>2. Busy' = {}
        BY <2>1 DEF IInv, ControllerInv
    <2>3. \A t \in Threads : UserNow[t] = NoSession
        BY <2>1, <2>2 DEF UserNow, Busy
    <2>4. OpenNow' = OpenNow /\ UserNow' = UserNow
        BY <2>1, ServiceStutters
    <2>. QED BY <2>1, <2>3, <2>4 DEF Service!ServiceNext, Service!Freeze, OpenNow, UserNow
<1>5. CASE Resume
    <2>1. UNCHANGED <<owner, live, on>> /\ cpc' = "ready"
        BY <1>5 DEF Resume, epochVars, threadVars
    <2>2. OpenNow' = OpenNow /\ UserNow' = UserNow
        BY <2>1, ServiceStutters
    <2>. QED BY <2>1, <2>2 DEF Service!ServiceNext, Service!Thaw, OpenNow, UserNow
<1>6. CASE \/ \E e \in EpochId : DrainSleeps(e)
           \/ \E s \in Sessions : CloseSession(s) \/ Register(s) \/ BindSession(s)
                                    \/ UnregisterBegin(s)
           \/ QuiesceSleeps \/ Retire
           \/ \E E \in SUBSET EpochId : DrainBegin(E)
           \/ CheckpointBegin \/ Destroy
    <2>1. UNCHANGED <<owner, live, on>>
        BY <1>6 DEF DrainSleeps, CloseSession, Register, BindSession, UnregisterBegin,
                    QuiesceSleeps, Retire, DrainBegin, CheckpointBegin, Destroy,
                    epochVars, threadVars
    <2>2. FrozenNow' = FrozenNow
        BY <1>6 DEF DrainSleeps, CloseSession, Register, BindSession, UnregisterBegin,
                    QuiesceSleeps, Retire, DrainBegin, CheckpointBegin, Destroy,
                    controllerVars, FrozenNow
    <2>. QED BY <2>1, <2>2, ServiceStutters
<1>7. CASE UNCHANGED vars
    <2>1. UNCHANGED <<owner, live, on, cpc>>
        BY <1>7 DEF vars, epochVars, threadVars, controllerVars
    <2>. QED BY <2>1, ServiceStutters DEF FrozenNow
<1>. QED BY <1>1, <1>2, <1>3, <1>4, <1>5, <1>6, <1>7 DEF Next, Continue, Call

\* The executor implements SessionService: sessions are used only while open,
\* closed only when unused, and found empty by every pause.
THEOREM Implementation == Spec => ServesSessions
<1>1. Init => Service!ServiceInit
    BY DEF Init, Service!ServiceInit
<1>2. IInv /\ IInv' /\ [Next]_vars => [Service!ServiceNext]_(Service!serviceVars)
    BY ServiceStep
<1>. QED BY <1>1, <1>2, Invariance, PTL DEF Spec, ServesSessions, Service!ServiceSpec


-----------------------------------------------------------------------------
\* The inductive invariants.

\* The ids in use are those of the threads that hold a slot, one each.
IdsExact == idsInUse = {wid[t] : t \in Busy} /\ WorkerIdsExclusive

\* Every generation handed out at a threshold is counted there.
GenerationsCounted ==
    /\ GenerationsDistinct
    /\ \A s \in Sessions : generation[s] <= generations[Threshold[s]]

\* An epoch's permits are in successive rounds, and before the second of two
\* permits of an epoch comes one of every other epoch that has any.
Successive ==
    \A e \in EpochId : \A r, q \in permits[e] : \A k \in Nat :
        r <= k /\ k <= q => k \in permits[e]
TakesTurns ==
    \A e, f \in EpochId : permits[f] # {} =>
        \A r, s \in permits[e] : r < s =>
            \E q \in permits[f] : q < s \/ (q = s /\ f <= e)
Rounds == Successive /\ TakesTurns

\* The steps that touch none of this.
Still ==
    /\ UNCHANGED <<on, wid, idsInUse, permits, tasks, generation, generations>>
    /\ paused => paused'
    /\ stopping => stopping'

LEMMA StepKinds ==
    ASSUME Next
    PROVE  \/ Still
           \/ \E t \in Threads : TaskClaims(t) \/ TaskReturns(t) \/ Steal(t) \/ TaskFinishes(t)
           \/ \E s \in Sessions : BindSession(s)
           \/ \E b \in Batches : GrantEpochs(b)
           \/ Resume
<1>1. ASSUME NEW t \in Threads, Task(t),
             ~(TaskClaims(t) \/ TaskReturns(t) \/ Steal(t) \/ TaskFinishes(t))
      PROVE  Still
    BY <1>1 DEF Still, Task, LeaseEntered, LeaseRefused, ForestClaims, ForestReturns,
                ForestLeaseEnds, OneShotEnds, Classify, StealLoopEnds,
                poolVars, epochVars, registryVars
<1>2. ASSUME Continue, ~Resume PROVE Still
    BY <1>2 DEF Still, Continue, DrainErases, DrainSleeps, CloseSession, QuiesceSleeps,
                QuiesceDone, Retire, poolVars, epochVars, registryVars, threadVars
<1>3. ASSUME Call, ~\E s \in Sessions : BindSession(s), ~\E b \in Batches : GrantEpochs(b)
      PROVE  Still
    BY <1>3 DEF Still, Call, Register, UnregisterBegin, DrainBegin, CheckpointBegin, Destroy,
                poolVars, epochVars, registryVars, threadVars
<1>. QED BY <1>1, <1>2, <1>3 DEF Next

-----------------------------------------------------------------------------
\* Worker ids.

\* As long as a thread is idle an id is free: the closure never falls back on 0.
LEMMA IdleLeavesId ==
    ASSUME IInv, IdsExact, NEW t \in Threads, pc[t] = "idle"
    PROVE  ~(WorkerId \subseteq idsInUse)
<1>. SUFFICES ASSUME WorkerId \subseteq idsInUse PROVE FALSE
    OBVIOUS
<1>1. IsFiniteSet(Threads) /\ Workers \in Nat
    BY ThreadsAssumption, FS_CardinalityType DEF Workers
<1>2. Busy \subseteq Threads \ {t}
    BY DEF IInv, IdleHoldsNothing, Busy
<1>3. IsFiniteSet(Threads \ {t}) /\ Cardinality(Threads \ {t}) = Workers - 1
    BY <1>1, FS_RemoveElement DEF Workers
<1>4. IsFiniteSet(Busy) /\ Cardinality(Busy) <= Workers - 1
    BY <1>2, <1>3, FS_Subset
<1>5. PICK f : f = [u \in Busy |-> wid[u]]
    OBVIOUS
<1>6. f \in Surjection(Busy, idsInUse)
    BY <1>5 DEF IdsExact, Surjection
<1>7. IsFiniteSet(idsInUse) /\ Cardinality(idsInUse) <= Cardinality(Busy)
    BY <1>4, <1>6, FS_Surjection
<1>8. Cardinality(WorkerId) = Workers
    BY <1>1, FS_Interval DEF WorkerId
<1>9. Cardinality(WorkerId) <= Cardinality(idsInUse)
    BY <1>7, FS_Subset
<1>10. Cardinality(Busy) \in Int /\ Cardinality(idsInUse) \in Int
    BY <1>4, <1>7, FS_CardinalityType
<1>. QED BY <1>1, <1>4, <1>7, <1>8, <1>9, <1>10

LEMMA IdsStep ==
    ASSUME IInv, IdsExact, [Next]_vars
    PROVE  IdsExact'
<1>0. TypeOK
    BY DEF IInv
<1>1. CASE UNCHANGED <<on, wid, idsInUse>>
    BY <1>1 DEF IdsExact, WorkerIdsExclusive, Busy
<1>2. ASSUME NEW t \in Threads, TaskClaims(t) PROVE IdsExact'
    <2>1. pc[t] = "idle" /\ t \notin Busy
        BY <1>2 DEF TaskClaims, IInv, IdleHoldsNothing, Busy
    <2>2. PICK i \in WorkerId :
            /\ FreeId(i) \/ (WorkerId \subseteq idsInUse /\ i = 0)
            /\ wid' = [wid EXCEPT ![t] = i] /\ idsInUse' = idsInUse \cup {i}
        BY <1>2 DEF TaskClaims
    <2>3. i \notin idsInUse
        BY <2>1, <2>2, IdleLeavesId DEF FreeId
    <2>4. PICK e \in EpochId : on' = [on EXCEPT ![t] = e]
        BY <1>2 DEF TaskClaims
    <2>5. e # NoEpoch
        BY BoundsAssumption DEF EpochId, NoEpoch
    <2>6. Busy' = Busy \cup {t}
        BY <1>0, <2>4, <2>5 DEF Busy, TypeOK
    <2>7. wid'[t] = i /\ \A u \in Busy : wid'[u] = wid[u]
        BY <1>0, <2>1, <2>2 DEF TypeOK, Busy
    <2>. QED BY <2>1, <2>2, <2>3, <2>6, <2>7 DEF IdsExact, WorkerIdsExclusive
<1>3. ASSUME NEW t \in Threads, TaskFinishes(t) PROVE IdsExact'
    <2>1. t \in Busy
        BY <1>3 DEF TaskFinishes, IInv, IdleHoldsNothing, Busy
    <2>2. /\ idsInUse' = idsInUse \ {wid[t]} /\ wid' = [wid EXCEPT ![t] = 0]
          /\ on' = [on EXCEPT ![t] = NoEpoch]
        BY <1>3 DEF TaskFinishes
    <2>3. Busy' = Busy \ {t}
        BY <1>0, <2>2 DEF Busy, TypeOK
    <2>4. \A u \in Busy' : wid'[u] = wid[u]
        BY <1>0, <2>2, <2>3 DEF TypeOK, Busy
    <2>. QED BY <2>1, <2>2, <2>3, <2>4 DEF IdsExact, WorkerIdsExclusive
<1>4. ASSUME NEW t \in Threads, Steal(t) PROVE IdsExact'
    <2>1. on[t] # NoEpoch
        BY <1>4 DEF Steal, IInv, IdleHoldsNothing
    <2>2. PICK e \in EpochId : on' = [on EXCEPT ![t] = e]
        BY <1>0, <1>4 DEF Steal, Candidates, TypeOK
    <2>3. e # NoEpoch
        BY BoundsAssumption DEF EpochId, NoEpoch
    <2>4. Busy' = Busy
        BY <1>0, <2>1, <2>2, <2>3 DEF Busy, TypeOK
    <2>5. wid' = wid /\ idsInUse' = idsInUse
        BY <1>4 DEF Steal, poolVars
    <2>. QED BY <2>4, <2>5 DEF IdsExact, WorkerIdsExclusive
<1>5. CASE UNCHANGED vars
    BY <1>1, <1>5 DEF vars, poolVars, threadVars
<1>6. CASE Next
    <2>1. ASSUME \/ \E t \in Threads : TaskReturns(t)
                 \/ \E s \in Sessions : BindSession(s)
                 \/ \E b \in Batches : GrantEpochs(b)
                 \/ Resume
          PROVE  UNCHANGED <<on, wid, idsInUse>>
        BY <2>1 DEF TaskReturns, BindSession, GrantEpochs, Resume, poolVars, threadVars
    <2>. QED BY <1>1, <1>2, <1>3, <1>4, <1>6, <2>1, StepKinds DEF Still
<1>. QED BY <1>5, <1>6

\* No two tasks that hold a slot have the same worker id: the fallback to id 0
\* in the closure is never taken, and no per-worker slot of a forest is shared.
THEOREM IdsExclusive == Spec => []WorkerIdsExclusive
<1>1. Init => IdsExact
    BY DEF Init, IdsExact, WorkerIdsExclusive, Busy
<1>2. IInv /\ IdsExact /\ [Next]_vars => IdsExact'
    BY IdsStep
<1>3. IdsExact => WorkerIdsExclusive
    BY DEF IdsExact
<1>. QED BY <1>1, <1>2, <1>3, Invariance, PTL DEF Spec

-----------------------------------------------------------------------------
\* Generations.

\* Of the requests F, at the thresholds at: those up to i at its threshold, and
\* those at threshold k.
RankIn(F, at, i) == Cardinality({j \in F : j <= i /\ at[j] = at[i]})
SizeAt(F, at, k) == Cardinality({j \in F : at[j] = k})

\* The rank of a request among those of the batch that bind at its threshold:
\* at least 1, at most their number, and larger for a later request.
LEMMA RankGrows ==
    ASSUME NEW n \in Nat, NEW F \in SUBSET (1 .. n), NEW at, NEW i \in F
    PROVE  /\ RankIn(F, at, i) \in Nat
           /\ 1 <= RankIn(F, at, i)
           /\ RankIn(F, at, i) <= SizeAt(F, at, at[i])
           /\ \A k \in F : k < i /\ at[k] = at[i] => RankIn(F, at, k) < RankIn(F, at, i)
<1> DEFINE upto(k) == {j \in F : j <= k /\ at[j] = at[k]}
<1>0. /\ \A k \in F : RankIn(F, at, k) = Cardinality(upto(k))
      /\ SizeAt(F, at, at[i]) = Cardinality({j \in F : at[j] = at[i]})
    BY DEF RankIn, SizeAt
<1>1. IsFiniteSet(F)
    <2>1. IsFiniteSet(1 .. n)
        BY FS_Interval
    <2>. QED BY <2>1, FS_Subset
<1>2. \A T \in SUBSET F : IsFiniteSet(T) /\ Cardinality(T) \in Nat
    BY <1>1, FS_Subset, FS_CardinalityType
<1>3. upto(i) \in SUBSET F /\ i \in upto(i)
    OBVIOUS
<1>4. 1 <= Cardinality(upto(i))
    <2>1. Cardinality({i}) = 1 /\ {i} \in SUBSET upto(i)
        BY <1>3, FS_Singleton
    <2>. QED BY <1>2, <1>3, <2>1, FS_Subset
<1>5. Cardinality(upto(i)) <= Cardinality({j \in F : at[j] = at[i]})
    <2>1. upto(i) \in SUBSET {j \in F : at[j] = at[i]}
        OBVIOUS
    <2>. QED BY <1>2, <2>1, FS_Subset
<1>6. ASSUME NEW k \in F, k < i, at[k] = at[i]
      PROVE  Cardinality(upto(k)) < Cardinality(upto(i))
    <2>1. i \in Nat /\ k \in Nat /\ \A j \in F : j \in Nat
        OBVIOUS
    <2>1a. \A j \in F : j <= k => j <= i
        BY <1>6, <2>1
    <2>1b. upto(k) \in SUBSET upto(i)
        BY <1>6, <2>1a
    <2>1c. i \notin upto(k)
        BY <1>6, <2>1
    <2>2. upto(k) # upto(i)
        BY <1>3, <2>1c
    <2>3. /\ Cardinality(upto(k)) <= Cardinality(upto(i))
          /\ Cardinality(upto(k)) # Cardinality(upto(i))
        BY <1>2, <2>1b, <2>2, FS_Subset
    <2>4. Cardinality(upto(k)) \in Nat /\ Cardinality(upto(i)) \in Nat
        BY <1>2
    <2>. QED BY <2>3, <2>4
<1>7. RankIn(F, at, i) = Cardinality(upto(i)) /\ Cardinality(upto(i)) \in Nat
    BY <1>0, <1>2
<1> HIDE DEF upto
<1>. QED BY <1>0, <1>4, <1>5, <1>6, <1>7

\* The generations a grant hands out are new, and different for two sessions.
LEMMA GrantedGenerations ==
    ASSUME IInv, GenerationsCounted, NEW b \in Batches, GrantEpochs(b)
    PROVE  \E F \in SUBSET Sessions :
             /\ \A s \in Sessions \ F : generation'[s] = generation[s]
             /\ \A s \in F : /\ generations[Threshold[s]] < generation'[s]
                              /\ generation'[s] <= generations'[Threshold[s]]
             /\ \A s, u \in F : Threshold[s] = Threshold[u] /\ generation'[s] = generation'[u]
                                => s = u
             /\ \A k \in Thresholds : generations[k] <= generations'[k]
<1>0. TypeOK
    BY DEF IInv
<1>1. b \in Seq(Request) /\ Len(b) \in Nat
    BY BatchesAssumption
<1>2. \A i \in 1 .. Len(b) : b[i].session \in Sessions
    <2>1. \A i \in 1 .. Len(b) : b[i] \in Request
        BY <1>1
    <2>. QED BY <2>1 DEF Request
<1>3. \A i, j \in 1 .. Len(b) : i # j => b[i].session # b[j].session
    <2>1. \A i \in 1 .. Len(b) : \A j \in 1 .. i - 1 : b[j].session # b[i].session
        BY DEF GrantEpochs, Emplaceable
    <2>2. \A i, j \in 1 .. Len(b) : i < j => i \in 1 .. j - 1
        BY <1>1
    <2>3. \A i, j \in 1 .. Len(b) : i < j => b[i].session # b[j].session
        BY <2>1, <2>2
    <2>4. \A i, j \in 1 .. Len(b) : i # j => i < j \/ j < i
        BY <1>1
    <2>. QED BY <2>3, <2>4
<1>4. PICK fresh : fresh = {i \in 1 .. Len(b) : b[i].session \notin bound}
    OBVIOUS
<1>5. PICK at : at = [i \in 1 .. Len(b) |-> Threshold[b[i].session]]
    OBVIOUS
<1>6. PICK rank : rank = [i \in fresh |-> RankIn(fresh, at, i)]
    OBVIOUS
<1>7. fresh \in SUBSET (1 .. Len(b))
    BY <1>4
<1>8. \A i \in fresh : /\ rank[i] \in Nat /\ 1 <= rank[i]
                       /\ rank[i] <= SizeAt(fresh, at, at[i])
    <2> SUFFICES ASSUME NEW i \in fresh
                 PROVE  /\ rank[i] \in Nat /\ 1 <= rank[i]
                        /\ rank[i] <= SizeAt(fresh, at, at[i])
        OBVIOUS
    <2>1. rank[i] = RankIn(fresh, at, i)
        BY <1>6
    <2>. QED BY <1>1, <1>7, <2>1, RankGrows
<1>9. \A i, k \in fresh : at[i] = at[k] /\ rank[i] = rank[k] => i = k
    <2>1. \A i, k \in fresh : k < i /\ at[k] = at[i] => rank[k] < rank[i]
        <3> SUFFICES ASSUME NEW i \in fresh, NEW k \in fresh, k < i, at[k] = at[i]
                     PROVE  rank[k] < rank[i]
            OBVIOUS
        <3>1. rank[i] = RankIn(fresh, at, i) /\ rank[k] = RankIn(fresh, at, k)
            BY <1>6
        <3>. QED BY <1>1, <1>7, <3>1, RankGrows
    <2>2. \A i, k \in fresh : i = k \/ i < k \/ k < i
        BY <1>1, <1>7
    <2>2a. \A i \in fresh : rank[i] \in Nat
        BY <1>8
    <2>3. \A i \in fresh : ~(rank[i] < rank[i])
        BY <2>2a
    <2>. QED BY <2>1, <2>2, <2>3
<1>10. \A k \in Thresholds :
        /\ generations'[k] = generations[k] + SizeAt(fresh, at, k)
        /\ generations[k] \in Nat
        /\ SizeAt(fresh, at, k) \in Nat
    <2>1. generations' = [k \in Thresholds |-> generations[k] +
                Cardinality({i \in {i \in 1 .. Len(b) : b[i].session \notin bound} :
                                Threshold[b[i].session] = k})]
        BY DEF GrantEpochs, BindAndEmplace
    <2>2. \A k \in Thresholds : {i \in fresh : at[i] = k} =
            {i \in {i \in 1 .. Len(b) : b[i].session \notin bound} : Threshold[b[i].session] = k}
        BY <1>4, <1>5
    <2>3. IsFiniteSet(fresh)
        <3>1. IsFiniteSet(1 .. Len(b))
            BY <1>1, FS_Interval
        <3>. QED BY <1>7, <3>1, FS_Subset
    <2>4. \A k \in Thresholds : {i \in fresh : at[i] = k} \in SUBSET fresh
        OBVIOUS
    <2>5. \A k \in Thresholds : Cardinality({i \in fresh : at[i] = k}) \in Nat
        BY <2>3, <2>4, FS_Subset, FS_CardinalityType
    <2>6. \A k \in Thresholds : SizeAt(fresh, at, k) = Cardinality({i \in fresh : at[i] = k})
        BY DEF SizeAt
    <2>. QED BY <1>0, <2>1, <2>2, <2>5, <2>6 DEF TypeOK
<1>11. PICK F : F = {b[i].session : i \in fresh}
    OBVIOUS
<1>12. \A s \in F : /\ IndexOf(b, s) \in fresh /\ b[IndexOf(b, s)].session = s
                    /\ at[IndexOf(b, s)] = Threshold[s]
    <2> SUFFICES ASSUME NEW s \in F
                 PROVE  /\ IndexOf(b, s) \in fresh /\ b[IndexOf(b, s)].session = s
                        /\ at[IndexOf(b, s)] = Threshold[s]
        OBVIOUS
    <2>1. PICK i \in fresh : b[i].session = s
        BY <1>11
    <2>2. IndexOf(b, s) \in 1 .. Len(b) /\ b[IndexOf(b, s)].session = s
        BY <1>7, <2>1 DEF IndexOf
    <2>3. IndexOf(b, s) = i
        BY <1>3, <1>7, <2>1, <2>2
    <2>. QED BY <1>5, <1>7, <2>1, <2>2, <2>3
<1>13. \A s \in Sessions :
        generation'[s] = IF s \in F THEN generations[Threshold[s]] + rank[IndexOf(b, s)]
                         ELSE generation[s]
    <2> SUFFICES ASSUME NEW s \in Sessions
                 PROVE  generation'[s] = IF s \in F
                            THEN generations[Threshold[s]] + rank[IndexOf(b, s)]
                            ELSE generation[s]
        OBVIOUS
    <2> DEFINE fr == {i \in 1 .. Len(b) : b[i].session \notin bound}
               rk(i) == Cardinality({j \in fr : j <= i /\
                                Threshold[b[j].session] = Threshold[b[i].session]})
    <2>1. generation'[s] = IF \E i \in fr : b[i].session = s
                           THEN generations[Threshold[s]] + rk(IndexOf(b, s))
                           ELSE generation[s]
        BY DEF GrantEpochs, BindAndEmplace
    <2>2. (\E i \in fr : b[i].session = s) <=> s \in F
        BY <1>4, <1>11
    <2>3. ASSUME NEW i \in fresh PROVE rk(i) = rank[i]
        <3>1. {j \in fr : j <= i /\ Threshold[b[j].session] = Threshold[b[i].session]}
                = {j \in fresh : j <= i /\ at[j] = at[i]}
            BY <1>4, <1>5, <1>7
        <3>. QED BY <1>6, <3>1 DEF RankIn
    <2> HIDE DEF rk, fr
    <2>4. s \in F => rk(IndexOf(b, s)) = rank[IndexOf(b, s)]
        BY <1>12, <2>3
    <2>. QED BY <2>1, <2>2, <2>4
<1>14. F \in SUBSET Sessions
    BY <1>2, <1>7, <1>11
<1>15. \A s \in Sessions : Threshold[s] \in Thresholds
    BY DEF Thresholds
<1>16. ASSUME NEW s \in F
       PROVE  /\ generations[Threshold[s]] < generation'[s]
              /\ generation'[s] <= generations'[Threshold[s]]
    <2>1. PICK i \in fresh : i = IndexOf(b, s) /\ at[i] = Threshold[s]
        BY <1>12
    <2>2. PICK k \in Thresholds : k = Threshold[s]
        BY <1>14, <1>15
    <2>3. generation'[s] = generations[k] + rank[i]
        BY <1>13, <1>14, <2>1, <2>2
    <2>4. /\ rank[i] \in Nat /\ 1 <= rank[i]
          /\ rank[i] <= SizeAt(fresh, at, k)
        BY <1>8, <2>1, <2>2
    <2>5. PICK c \in Nat : c = SizeAt(fresh, at, k)
        BY <1>10
    <2>. QED BY <1>10, <2>2, <2>3, <2>4, <2>5
<1>17. ASSUME NEW s \in F, NEW u \in F, Threshold[s] = Threshold[u],
              generation'[s] = generation'[u]
       PROVE  s = u
    <2>1. PICK i \in fresh : i = IndexOf(b, s) /\ at[i] = Threshold[s] /\ b[i].session = s
        BY <1>12
    <2>2. PICK j \in fresh : j = IndexOf(b, u) /\ at[j] = Threshold[u] /\ b[j].session = u
        BY <1>12
    <2>3. PICK g \in Nat : g = generations[Threshold[s]]
        BY <1>10, <1>14, <1>15
    <2>3a. PICK p \in Nat : p = rank[i]
        BY <1>8
    <2>3b. PICK q \in Nat : q = rank[j]
        BY <1>8
    <2>4. generation'[s] = g + p /\ generation'[u] = g + q
        BY <1>13, <1>14, <1>17, <2>1, <2>2, <2>3, <2>3a, <2>3b
    <2>4a. g + p = g + q
        BY <1>17, <2>4
    <2>5. rank[i] = rank[j]
        BY <2>3a, <2>3b, <2>4a
    <2>. QED BY <1>9, <1>17, <2>1, <2>2, <2>5
<1>18. \A k \in Thresholds : generations[k] <= generations'[k]
    <2> SUFFICES ASSUME NEW k \in Thresholds PROVE generations[k] <= generations'[k]
        OBVIOUS
    <2>1. PICK c \in Nat : c = SizeAt(fresh, at, k)
        BY <1>10
    <2>. QED BY <1>10, <2>1
<1>19. \A s \in Sessions \ F : generation'[s] = generation[s]
    BY <1>13
<1>. QED BY <1>14, <1>16, <1>17, <1>18, <1>19

\* Sessions that receive new generations keep the invariant.
LEMMA NewGenerations ==
    ASSUME IInv, GenerationsCounted, NEW F \in SUBSET Sessions,
           \A s \in Sessions \ F : generation'[s] = generation[s],
           \A s \in F : /\ generations[Threshold[s]] < generation'[s]
                        /\ generation'[s] <= generations'[Threshold[s]],
           \A s, u \in F : Threshold[s] = Threshold[u] /\ generation'[s] = generation'[u]
                                => s = u,
           \A k \in Thresholds : generations[k] <= generations'[k],
           generations' \in [Thresholds -> Nat], generation' \in [Sessions -> Nat]
    PROVE  GenerationsCounted'
<1>0. TypeOK
    BY DEF IInv
<1>1. \A s \in Sessions : Threshold[s] \in Thresholds
    BY DEF Thresholds
<1>2. \A s \in Sessions : /\ generation[s] \in Nat /\ generation'[s] \in Nat
                          /\ generations[Threshold[s]] \in Nat
                          /\ generations'[Threshold[s]] \in Nat
    BY <1>0, <1>1 DEF TypeOK
<1>3. \A s \in Sessions \ F : generation'[s] <= generations[Threshold[s]]
    BY DEF GenerationsCounted
<1>4. \A s \in Sessions : generations[Threshold[s]] <= generations'[Threshold[s]]
    BY <1>1
<1>5. \A s \in Sessions : generation'[s] <= generations'[Threshold[s]]
    BY <1>2, <1>3, <1>4
<1>6. ASSUME NEW s \in Sessions, NEW u \in Sessions, generation'[s] # 0,
             Threshold[s] = Threshold[u], generation'[s] = generation'[u]
      PROVE  s = u
    <2>1. CASE s \in F /\ u \in F
        BY <1>6, <2>1
    <2>2. CASE s \notin F /\ u \notin F
        BY <1>6, <2>2 DEF GenerationsCounted, GenerationsDistinct
    <2>3. CASE (s \in F /\ u \notin F) \/ (u \in F /\ s \notin F)
        BY <1>2, <1>3, <1>6, <2>3
    <2>. QED BY <2>1, <2>2, <2>3
<1>. QED BY <1>5, <1>6 DEF GenerationsCounted, GenerationsDistinct

LEMMA GenerationsStep ==
    ASSUME IInv, IInv', GenerationsCounted, [Next]_vars
    PROVE  GenerationsCounted'
<1>0. TypeOK /\ generations' \in [Thresholds -> Nat] /\ generation' \in [Sessions -> Nat]
    BY DEF IInv, TypeOK
<1>1. CASE UNCHANGED <<generation, generations>>
    BY <1>1 DEF GenerationsCounted, GenerationsDistinct
<1>2. ASSUME NEW s \in Sessions, BindSession(s) PROVE GenerationsCounted'
    <2>1. /\ generations' = [generations EXCEPT ![Threshold[s]] = @ + 1]
          /\ generation' = [generation EXCEPT ![s] = generations[Threshold[s]] + 1]
        BY <1>2 DEF BindSession, Bump
    <2>2. Threshold[s] \in Thresholds /\ \A k \in Thresholds : generations[k] \in Nat
        BY <1>0 DEF Thresholds, TypeOK
    <2>3. /\ generation'[s] = generations[Threshold[s]] + 1
          /\ generations'[Threshold[s]] = generations[Threshold[s]] + 1
          /\ \A u \in Sessions \ {s} : generation'[u] = generation[u]
          /\ \A k \in Thresholds : generations[k] <= generations'[k]
        BY <1>0, <2>1, <2>2 DEF TypeOK
    <2>4. \A u \in {s} : /\ generations[Threshold[u]] < generation'[u]
                         /\ generation'[u] <= generations'[Threshold[u]]
        BY <2>2, <2>3
    <2>5. PICK F \in SUBSET Sessions : F = {s}
        OBVIOUS
    <2>. QED BY <1>0, <2>3, <2>4, <2>5, NewGenerations
<1>3. ASSUME NEW b \in Batches, GrantEpochs(b) PROVE GenerationsCounted'
    <2>1. PICK F \in SUBSET Sessions :
             /\ \A s \in Sessions \ F : generation'[s] = generation[s]
             /\ \A s \in F : /\ generations[Threshold[s]] < generation'[s]
                              /\ generation'[s] <= generations'[Threshold[s]]
             /\ \A s, u \in F : Threshold[s] = Threshold[u] /\ generation'[s] = generation'[u]
                                => s = u
             /\ \A k \in Thresholds : generations[k] <= generations'[k]
        BY <1>3, GrantedGenerations
    <2>2. /\ \A s \in Sessions \ F : generation'[s] = generation[s]
          /\ \A k \in Thresholds : generations[k] <= generations'[k]
        BY <2>1
    <2>3. \A s \in F : /\ generations[Threshold[s]] < generation'[s]
                       /\ generation'[s] <= generations'[Threshold[s]]
        BY <2>1
    <2>4. \A s, u \in F : Threshold[s] = Threshold[u] /\ generation'[s] = generation'[u]
                                => s = u
        BY <2>1
    <2>. QED BY <1>0, <2>2, <2>3, <2>4, NewGenerations
<1>4. CASE UNCHANGED vars
    BY <1>1, <1>4 DEF vars, registryVars
<1>5. CASE Next
    <2>1. ASSUME \/ \E t \in Threads : TaskClaims(t) \/ TaskReturns(t) \/ Steal(t) \/ TaskFinishes(t)
                 \/ Resume
          PROVE  UNCHANGED <<generation, generations>>
        BY <2>1 DEF TaskClaims, TaskReturns, Steal, TaskFinishes, Resume, registryVars
    <2>. QED BY <1>1, <1>2, <1>3, <1>5, <2>1, StepKinds DEF Still
<1>. QED BY <1>4, <1>5

\* A generation identifies a binding among all its threshold ever had, whether
\* it was made by bind_session or by a grant that binds several at once.
THEOREM GenerationsIdentify == Spec => []GenerationsDistinct
<1>1. Init => GenerationsCounted
    <2>1. \A s \in Sessions : Threshold[s] \in Thresholds
        BY DEF Thresholds
    <2>. QED BY <2>1 DEF Init, GenerationsCounted, GenerationsDistinct
<1>2. IInv /\ IInv' /\ GenerationsCounted /\ [Next]_vars => GenerationsCounted'
    BY GenerationsStep
<1>3. GenerationsCounted => GenerationsDistinct
    BY DEF GenerationsCounted
<1>. QED BY <1>1, <1>2, <1>3, Invariance, PTL DEF Spec

-----------------------------------------------------------------------------
\* Rounds.

\* The epochs a batch may be given are numbered from the counter on.
LEMMA BatchNumbers ==
    ASSUME TypeOK, NEW b \in Batches
    PROVE  Len(b) \in Nat /\ nextEpoch \in Nat /\ EpochId \subseteq Nat
<1>1. b \in Seq(Request)
    BY BatchesAssumption
<1>2. Len(b) \in Nat
    BY <1>1
<1>3. nextEpoch \in Nat
    BY DEF TypeOK
<1>4. EpochId \subseteq Nat
    BY BoundsAssumption DEF EpochId
<1>. QED BY <1>2, <1>3, <1>4

LEMMA RoundsStep ==
    ASSUME IInv, Rounds, [Next]_vars
    PROVE  Rounds'
<1>0. permits \in [EpochId -> SUBSET (Nat \ {0})] /\ EpochId \subseteq Nat
    BY BoundsAssumption DEF IInv, TypeOK, EpochId
<1>1. CASE permits' = permits
    BY <1>1 DEF Rounds, Successive, TakesTurns
<1>2. ASSUME NEW t \in Threads, TaskClaims(t) PROVE Rounds'
    <2>1. PICK c \in EpochId : \E r \in permits[c] :
            IsFront(c, r) /\ permits' = [permits EXCEPT ![c] = @ \ {r}]
        BY <1>2 DEF TaskClaims
    <2>2. PICK d \in permits[c] : IsFront(c, d) /\ permits' = [permits EXCEPT ![c] = @ \ {d}]
        BY <2>1
    <2>3. d \in Nat /\ \A e \in EpochId : \A r \in permits[e] : r \in Nat
        BY <1>0, <2>2
    <2>4. \A e \in EpochId : \A r \in permits[e] : d < r \/ (d = r /\ c <= e)
        BY <2>2 DEF IsFront
    <2>5. permits'[c] = permits[c] \ {d} /\ \A e \in EpochId \ {c} : permits'[e] = permits[e]
        BY <1>0, <2>2
    <2>6. \A e \in EpochId : \A r \in permits'[e] : r \in permits[e]
        BY <2>5
    <2>7. ASSUME NEW e \in EpochId, NEW r \in permits'[e], NEW q \in permits'[e],
                 NEW k \in Nat, r <= k, k <= q
          PROVE  k \in permits'[e]
        <3>1. k \in permits[e]
            BY <2>6, <2>7 DEF Rounds, Successive
        <3>2. CASE e = c
            <4>1. r \in permits[c] /\ r # d
                BY <2>5, <3>2
            <4>2. d < r
                BY <2>4, <4>1
            <4>. QED BY <2>3, <2>5, <2>7, <3>1, <3>2, <4>1, <4>2
        <3>. QED BY <2>5, <3>1, <3>2
    <2>8. ASSUME NEW e \in EpochId, NEW f \in EpochId, permits'[f] # {},
                 NEW r \in permits'[e], NEW s \in permits'[e], r < s
          PROVE  \E q \in permits'[f] : q < s \/ (q = s /\ f <= e)
        <3>1. permits[f] # {} /\ r \in permits[e] /\ s \in permits[e]
            BY <2>6, <2>8
        <3>2. PICK q \in permits[f] : q < s \/ (q = s /\ f <= e)
            BY <2>8, <3>1 DEF Rounds, TakesTurns
        <3>3. CASE q \in permits'[f]
            BY <3>2, <3>3
        <3>4. CASE q \notin permits'[f]
            <4>1. f = c /\ q = d
                BY <2>5, <3>4
            <4>2. PICK p \in permits'[c] : p # d
                BY <2>5, <2>8, <4>1
            <4>3. p \in permits[c] /\ p \in Nat /\ d < p
                BY <2>3, <2>4, <2>6, <4>2
            <4>4. d + 1 \in permits[c]
                BY <2>2, <2>3, <4>3 DEF Rounds, Successive
            <4>5. d + 1 \in permits'[f]
                BY <2>3, <2>5, <4>1, <4>4
            <4>6. d < r \/ (d = r /\ c <= e)
                BY <2>4, <3>1
            <4>7. r \in Nat /\ s \in Nat
                BY <2>3, <3>1
            <4>8. d + 1 < s \/ (d + 1 = s /\ f <= e)
                BY <2>3, <2>8, <4>1, <4>6, <4>7
            <4>. QED BY <4>5, <4>8
        <3>. QED BY <3>3, <3>4
    <2>. QED BY <2>7, <2>8 DEF Rounds, Successive, TakesTurns
<1>3. ASSUME NEW b \in Batches, GrantEpochs(b) PROVE Rounds'
    <2>1. PICK size : size = [e \in EpochId |-> Cardinality(permits[e]) +
             (IF e \in NewEpochs(Len(b)) THEN RequestOf(b, e).permits ELSE 0)]
        OBVIOUS
    <2>2. permits' = [e \in EpochId |-> 1 .. size[e]]
        BY <1>3, <2>1 DEF GrantEpochs, QueueWith
    <2>3. \A e \in EpochId : size[e] \in Nat
        <3> SUFFICES ASSUME NEW e \in EpochId PROVE size[e] \in Nat
            OBVIOUS
        <3>1. Cardinality(permits[e]) \in Nat
            BY FS_CardinalityType DEF IInv, QueuesFinite
        <3>2. Len(b) \in Nat /\ nextEpoch \in Nat
            <4>1. TypeOK
                BY DEF IInv
            <4>. QED BY <4>1, BatchNumbers
        <3>3. e \in NewEpochs(Len(b)) => RequestOf(b, e).permits \in Nat
            BY <3>2, RequestTyped
        <3>. QED BY <2>1, <3>1, <3>3
    <2>4. \A e \in EpochId : permits'[e] = 1 .. size[e]
        BY <2>2
    <2>5. ASSUME NEW e \in EpochId, NEW r \in permits'[e], NEW q \in permits'[e],
                 NEW k \in Nat, r <= k, k <= q
          PROVE  k \in permits'[e]
        BY <2>3, <2>4, <2>5
    <2>6. ASSUME NEW e \in EpochId, NEW f \in EpochId, permits'[f] # {},
                 NEW r \in permits'[e], NEW s \in permits'[e], r < s
          PROVE  \E q \in permits'[f] : q < s \/ (q = s /\ f <= e)
        <3>1. 1 \in permits'[f]
            BY <2>3, <2>4, <2>6
        <3>2. 1 < s
            BY <2>3, <2>4, <2>6
        <3>. QED BY <3>1, <3>2
    <2>. QED BY <2>5, <2>6 DEF Rounds, Successive, TakesTurns
<1>4. CASE UNCHANGED vars
    BY <1>1, <1>4 DEF vars, epochVars
<1>5. CASE Next
    <2>1. ASSUME \/ \E t \in Threads : TaskReturns(t) \/ Steal(t) \/ TaskFinishes(t)
                 \/ \E s \in Sessions : BindSession(s)
                 \/ Resume
          PROVE  permits' = permits
        BY <2>1 DEF TaskReturns, Steal, TaskFinishes, BindSession, Resume, epochVars
    <2>. QED BY <1>1, <1>2, <1>3, <1>5, <2>1, StepKinds DEF Still
<1>. QED BY <1>4, <1>5

\* Recurring service: whatever was granted and served so far, at most one permit
\* of an epoch is ahead of the first permit of any other epoch.
THEOREM ServedInTurn == Spec => []RoundRobin
<1>1. Init => Rounds
    BY DEF Init, Rounds, Successive, TakesTurns
<1>2. IInv /\ Rounds /\ [Next]_vars => Rounds'
    BY RoundsStep
<1>3. IInv /\ Rounds => RoundRobin
    <2> SUFFICES ASSUME IInv, Rounds, NEW e \in EpochId, NEW f \in EpochId,
                        permits[e] # {}, permits[f] # {}
                 PROVE  Cardinality({r \in permits[e] :
                            \A q \in permits[f] : r < q \/ (r = q /\ e < f)}) <= 1
        BY DEF RoundRobin
    <2> DEFINE ahead == {r \in permits[e] : \A q \in permits[f] : r < q \/ (r = q /\ e < f)}
    <2>1. /\ \A r \in permits[e] : r \in Nat
          /\ \A q \in permits[f] : q \in Nat
          /\ e \in Nat /\ f \in Nat
        BY BoundsAssumption DEF IInv, TypeOK, EpochId
    <2>2. \A r, s \in ahead : ~(r < s)
        <3> SUFFICES ASSUME NEW r \in ahead, NEW s \in ahead, r < s PROVE FALSE
            OBVIOUS
        <3>1. PICK q \in permits[f] : q < s \/ (q = s /\ f <= e)
            BY DEF Rounds, TakesTurns
        <3>. QED BY <2>1, <3>1
    <2>3. \A r, s \in ahead : r = s
        BY <2>1, <2>2
    <2>4. ahead = {} \/ \E x : ahead = {x}
        BY <2>3
    <2>5. Cardinality(ahead) = 0 \/ Cardinality(ahead) = 1
        BY <2>4, FS_EmptySet, FS_Singleton
    <2>. QED BY <2>5
<1>. QED BY <1>1, <1>2, <1>3, Invariance, PTL DEF Spec

-----------------------------------------------------------------------------
\* Scheduled closures.

LEMMA QueueFinite == QueuesFinite => IsFiniteSet(Queue)
<1> SUFFICES ASSUME QueuesFinite PROVE IsFiniteSet(Queue)
    OBVIOUS
<1>1. PICK G : G = [e \in EpochId |-> {e} \X permits[e]]
    OBVIOUS
<1>2. IsFiniteSet(EpochId)
    BY BoundsAssumption, FS_Interval DEF EpochId
<1>3. \A e \in EpochId : IsFiniteSet(G[e])
    BY <1>1, SliceFinite DEF QueuesFinite
<1>4. Queue = UNION {G[e] : e \in EpochId}
    BY <1>1 DEF Queue
<1>5. PICK P : P = {G[e] : e \in EpochId}
    OBVIOUS
<1>6. G \in Surjection(EpochId, P)
    BY <1>1, <1>5 DEF Surjection
<1>7. IsFiniteSet(P)
    BY <1>2, <1>6, FS_Surjection
<1>8. \A T \in P : IsFiniteSet(T)
    BY <1>3, <1>5
<1>. QED BY <1>4, <1>5, <1>7, <1>8, FS_UNION

LEMMA RequestFinite ==
    ASSUME NEW b \in Batches
    PROVE  IsFiniteSet(RequestedPermits(b))
<1>1. b \in Seq(Request) /\ Len(b) \in Nat
    BY BatchesAssumption
<1>2. PICK G : G = [i \in 1 .. Len(b) |-> {i} \X (1 .. b[i].permits)]
    OBVIOUS
<1>3. \A i \in 1 .. Len(b) : b[i].permits \in Nat
    <2>1. \A i \in 1 .. Len(b) : b[i] \in Request
        BY <1>1
    <2>. QED BY <2>1 DEF Request
<1>4. IsFiniteSet(1 .. Len(b)) /\ \A n \in Nat : IsFiniteSet(1 .. n)
    BY <1>1, FS_Interval
<1>5. \A i \in 1 .. Len(b) : IsFiniteSet(G[i])
    BY <1>2, <1>3, <1>4, SliceFinite
<1>6. RequestedPermits(b) = UNION {G[i] : i \in 1 .. Len(b)}
    BY <1>2 DEF RequestedPermits
<1>7. PICK P : P = {G[i] : i \in 1 .. Len(b)}
    OBVIOUS
<1>8. G \in Surjection(1 .. Len(b), P)
    BY <1>2, <1>7 DEF Surjection
<1>9. IsFiniteSet(P)
    BY <1>4, <1>8, FS_Surjection
<1>10. \A T \in P : IsFiniteSet(T)
    BY <1>5, <1>7
<1>. QED BY <1>6, <1>7, <1>9, <1>10, FS_UNION

\* Renumbering an epoch's rounds from 1 keeps their number.
LEMMA Renumbered ==
    ASSUME QueuesFinite
    PROVE  LET A == UNION {{e} \X (1 .. Cardinality(permits[e])) : e \in EpochId}
           IN  IsFiniteSet(A) /\ Cardinality(A) <= Cardinality(Queue)
<1> DEFINE A == UNION {{e} \X (1 .. Cardinality(permits[e])) : e \in EpochId}
<1>1. \A e \in EpochId : ExistsBijection(1 .. Cardinality(permits[e]), permits[e])
    BY FS_CardinalityType DEF QueuesFinite
<1>2. PICK g : g = [e \in EpochId |->
                CHOOSE h : h \in Bijection(1 .. Cardinality(permits[e]), permits[e])]
    OBVIOUS
<1>3. \A e \in EpochId : g[e] \in Bijection(1 .. Cardinality(permits[e]), permits[e])
    BY <1>1, <1>2 DEF ExistsBijection
<1>4. \A e \in EpochId : \A i \in 1 .. Cardinality(permits[e]) : g[e][i] \in permits[e]
    BY <1>3 DEF Bijection, Injection
<1>5. \A e \in EpochId : \A i, j \in 1 .. Cardinality(permits[e]) : g[e][i] = g[e][j] => i = j
    BY <1>3 DEF Bijection, Injection, IsInjective
<1>6. \A p \in A : /\ p = <<p[1], p[2]>> /\ p[1] \in EpochId
                   /\ p[2] \in 1 .. Cardinality(permits[p[1]])
    OBVIOUS
<1>7. PICK f : f = [p \in A |-> <<p[1], g[p[1]][p[2]]>>]
    OBVIOUS
<1>8. \A p \in A : f[p] \in Queue
    <2> SUFFICES ASSUME NEW p \in A PROVE f[p] \in Queue
        OBVIOUS
    <2>1. PICK e \in EpochId : e = p[1]
        BY <1>6
    <2>2. PICK r \in permits[e] : r = g[e][p[2]]
        BY <1>4, <1>6, <2>1
    <2>3. f[p] = <<e, r>>
        BY <1>7, <2>1, <2>2
    <2>4. <<e, r>> \in {e} \X permits[e]
        OBVIOUS
    <2>. QED BY <2>3, <2>4 DEF Queue
<1>9. \A p, q \in A : f[p] = f[q] => p = q
    <2> SUFFICES ASSUME NEW p \in A, NEW q \in A, f[p] = f[q] PROVE p = q
        OBVIOUS
    <2>1. PICK a, c : a = g[p[1]][p[2]] /\ c = g[q[1]][q[2]]
        OBVIOUS
    <2>1a. f[p] = <<p[1], a>> /\ f[q] = <<q[1], c>>
        BY <1>7, <2>1
    <2>1b. <<p[1], a>> = <<q[1], c>>
        BY <2>1a
    <2>1c. p[1] = q[1] /\ a = c
        BY ONLY <2>1b
    <2>2. p[1] = q[1] /\ g[p[1]][p[2]] = g[q[1]][q[2]]
        BY <2>1, <2>1c
    <2>3. p[2] = q[2]
        BY <1>5, <1>6, <2>2
    <2>. QED BY <1>6, <2>2, <2>3
<1>10. f \in Injection(A, Queue)
    <2> HIDE DEF A
    <2>. QED BY <1>7, <1>8, <1>9 DEF Injection, IsInjective
<1>11. IsFiniteSet(Queue)
    BY QueueFinite
<1> HIDE DEF A
<1>12. IsFiniteSet(A) /\ Cardinality(A) <= Cardinality(Queue)
    BY <1>10, <1>11, FS_Injection
<1>. QED BY <1>12 DEF A

\* A grant lengthens the deque by no more than the permits it schedules for.
LEMMA GrantedQueue ==
    ASSUME IInv, IInv', NEW b \in Batches, GrantEpochs(b)
    PROVE  /\ IsFiniteSet(Queue')
           /\ Cardinality(Queue') <= Cardinality(Queue) + Cardinality(RequestedPermits(b))
<1> DEFINE A == UNION {{e} \X (1 .. Cardinality(permits[e])) : e \in EpochId}
           new == EpochId \cap NewEpochs(Len(b))
           B == UNION {{e} \X (1 .. RequestOf(b, e).permits) : e \in new}
           R == RequestedPermits(b)
<1>1. Len(b) \in Nat /\ nextEpoch \in Nat /\ EpochId \subseteq Nat
    <2> HIDE DEF A, new, B, R
    <2>1. TypeOK
        BY DEF IInv
    <2>. QED BY <2>1, BatchNumbers
<1>2. \A e \in new : permits[e] = {} /\ Cardinality(permits[e]) = 0
    <2>1. \A e \in new : e \notin live
        BY <1>1 DEF IInv, IssuedEpochs, NewEpochs
    <2>. QED BY <2>1, FS_EmptySet DEF IInv, PermitsCounted
<1>3. \A e \in EpochId : permits'[e] =
        1 .. IF e \in new THEN RequestOf(b, e).permits ELSE Cardinality(permits[e])
    <2> SUFFICES ASSUME NEW e \in EpochId
                 PROVE  permits'[e] = 1 .. IF e \in new THEN RequestOf(b, e).permits
                                           ELSE Cardinality(permits[e])
        OBVIOUS
    <2>1. permits'[e] = 1 .. Cardinality(permits[e]) +
             (IF e \in new THEN RequestOf(b, e).permits ELSE 0)
        BY DEF GrantEpochs, QueueWith
    <2>2. CASE e \in new
        <3>1. RequestOf(b, e).permits \in Nat
            BY <1>1, <2>2, RequestTyped
        <3>. QED BY <1>2, <2>1, <2>2, <3>1
    <2>3. CASE e \notin new
        <3>1. Cardinality(permits[e]) \in Nat
            BY FS_CardinalityType DEF IInv, QueuesFinite
        <3>. QED BY <2>1, <2>3, <3>1
    <2>. QED BY <2>2, <2>3
<1>4. Queue' \in SUBSET (A \cup B)
    <2> SUFFICES ASSUME NEW e \in EpochId, NEW p \in {e} \X permits'[e]
                 PROVE  p \in A \cup B
        BY DEF Queue
    <2>1. CASE e \in new
        <3>1. p \in {e} \X (1 .. RequestOf(b, e).permits)
            BY <1>3, <2>1
        <3>. QED BY <2>1, <3>1
    <2>2. CASE e \notin new
        <3>1. p \in {e} \X (1 .. Cardinality(permits[e]))
            BY <1>3, <2>2
        <3>. QED BY <3>1
    <2>. QED BY <2>1, <2>2
<1>5. IsFiniteSet(A) /\ Cardinality(A) <= Cardinality(Queue)
    BY Renumbered DEF IInv
<1>6. IsFiniteSet(B) /\ Cardinality(B) <= Cardinality(R)
    <2>1. PICK f : f = [p \in B |-> <<p[1] - nextEpoch + 1, p[2]>>]
        OBVIOUS
    <2>2. \A p \in B : /\ p = <<p[1], p[2]>> /\ p[1] \in new
                       /\ p[2] \in 1 .. RequestOf(b, p[1]).permits
        OBVIOUS
    <2>3. \A p \in B : f[p] \in R
        <3> SUFFICES ASSUME NEW p \in B PROVE f[p] \in R
            OBVIOUS
        <3>1. PICK i \in 1 .. Len(b) : i = p[1] - nextEpoch + 1
            BY <1>1, <2>2 DEF NewEpochs
        <3>2. PICK r \in 1 .. b[i].permits : r = p[2]
            BY <2>2, <3>1 DEF RequestOf
        <3>3. f[p] = <<i, r>>
            BY <2>1, <3>1, <3>2
        <3>4. <<i, r>> \in {i} \X (1 .. b[i].permits)
            OBVIOUS
        <3>. QED BY <3>3, <3>4 DEF RequestedPermits
    <2>4. \A p, q \in B : f[p] = f[q] => p = q
        <3> SUFFICES ASSUME NEW p \in B, NEW q \in B, f[p] = f[q] PROVE p = q
            OBVIOUS
        <3>1. p[1] \in Nat /\ q[1] \in Nat
            BY <1>1, <2>2
        <3>2. PICK c, d : c = p[1] - nextEpoch + 1 /\ d = q[1] - nextEpoch + 1
            OBVIOUS
        <3>3. f[p] = <<c, p[2]>> /\ f[q] = <<d, q[2]>>
            BY <2>1, <3>2
        <3>4. <<c, p[2]>> = <<d, q[2]>>
            BY <3>3
        <3>5. c = d /\ p[2] = q[2]
            BY ONLY <3>4
        <3>6. p[1] = q[1]
            BY <1>1, <3>1, <3>2, <3>5
        <3>. QED BY <2>2, <3>5, <3>6
    <2> HIDE DEF B, R
    <2>5. f \in Injection(B, R)
        BY <2>1, <2>3, <2>4 DEF Injection, IsInjective
    <2>6. IsFiniteSet(R)
        BY RequestFinite DEF R
    <2>. QED BY <2>5, <2>6, FS_Injection
<1> HIDE DEF A, B, R
<1>7. /\ IsFiniteSet(A \cup B)
      /\ Cardinality(A \cup B) = Cardinality(A) + Cardinality(B) - Cardinality(A \cap B)
    BY <1>5, <1>6, FS_Union
<1>8. Cardinality(Queue') <= Cardinality(A \cup B)
    BY <1>4, <1>7, FS_Subset
<1>9. IsFiniteSet(Queue) /\ IsFiniteSet(Queue') /\ IsFiniteSet(R)
    <2>1. IsFiniteSet(Queue)
        BY QueueFinite DEF IInv
    <2>2. IsFiniteSet(Queue')
        BY <1>4, <1>7, FS_Subset
    <2>. QED BY <2>1, <2>2, RequestFinite DEF R
<1>10. IsFiniteSet(A \cap B)
    BY <1>5, FS_Subset
<1>11. /\ Cardinality(A) \in Nat /\ Cardinality(B) \in Nat /\ Cardinality(A \cap B) \in Nat
       /\ Cardinality(Queue) \in Nat /\ Cardinality(Queue') \in Nat /\ Cardinality(R) \in Nat
    BY <1>5, <1>6, <1>9, <1>10, FS_CardinalityType
<1>12. Cardinality(Queue') <= Cardinality(Queue) + Cardinality(R)
    BY <1>5, <1>6, <1>7, <1>8, <1>11
<1>. QED BY <1>9, <1>12 DEF R

LEMMA StrandedStep ==
    ASSUME IInv, IInv', NoStrandedPermit, [Next]_vars
    PROVE  NoStrandedPermit'
<1>0. /\ tasks \in Nat /\ tasks' \in Nat /\ Cardinality(Queue) \in Nat
      /\ IsFiniteSet(Queue)
    BY QueueSize, QueueFinite DEF IInv, TypeOK
<1>1. ASSUME permits' = permits, tasks' = tasks, paused => paused', stopping => stopping'
      PROVE  NoStrandedPermit'
    BY <1>1 DEF NoStrandedPermit, Queue
<1>2. ASSUME NEW t \in Threads, TaskClaims(t) PROVE NoStrandedPermit'
    <2>1. PICK c \in EpochId : \E r \in permits[c] : permits' = [permits EXCEPT ![c] = @ \ {r}]
        BY <1>2 DEF TaskClaims
    <2>2. PICK d \in permits[c] : permits' = [permits EXCEPT ![c] = @ \ {d}]
        BY <2>1
    <2>3. permits'[c] = permits[c] \ {d} /\ \A e \in EpochId \ {c} : permits'[e] = permits[e]
        BY <2>2 DEF IInv, TypeOK
    <2>4. <<c, d>> \in Queue
        BY DEF Queue
    <2>5. Queue' \in SUBSET (Queue \ {<<c, d>>})
        <3> SUFFICES ASSUME NEW e \in EpochId, NEW p \in {e} \X permits'[e]
                     PROVE  p \in Queue /\ p # <<c, d>>
            BY DEF Queue
        <3>1. PICK r \in permits'[e] : p = <<e, r>>
            OBVIOUS
        <3>2. r \in permits[e] /\ (e = c => r # d)
            BY <2>3, <3>1
        <3>3. <<e, r>> \in {e} \X permits[e]
            BY <3>2
        <3>. QED BY <3>1, <3>2, <3>3 DEF Queue
    <2>6. IsFiniteSet(Queue \ {<<c, d>>}) /\ Cardinality(Queue \ {<<c, d>>}) = Cardinality(Queue) - 1
        BY <1>0, <2>4, FS_RemoveElement
    <2>7. IsFiniteSet(Queue') /\ Cardinality(Queue') <= Cardinality(Queue) - 1
        BY <2>5, <2>6, FS_Subset
    <2>8. Cardinality(Queue') \in Nat
        BY <2>7, FS_CardinalityType
    <2>9. tasks' = tasks - 1 /\ tasks >= Cardinality(Queue)
        BY <1>2 DEF TaskClaims, NoStrandedPermit
    <2>. QED BY <1>0, <2>7, <2>8, <2>9 DEF NoStrandedPermit
<1>3. ASSUME NEW t \in Threads, TaskReturns(t) PROVE NoStrandedPermit'
    <2>1. /\ stopping \/ paused \/ Queue = {}
          /\ permits' = permits /\ paused' = paused /\ stopping' = stopping
        BY <1>3 DEF TaskReturns, epochVars
    <2>2. Queue' = Queue
        BY <2>1 DEF Queue
    <2>3. Queue = {} => Cardinality(Queue') = 0
        BY <2>2, FS_EmptySet
    <2>. QED BY <1>0, <2>1, <2>3 DEF NoStrandedPermit
<1>4. CASE Resume
    <2>1. permits' = permits /\ tasks' = tasks + Cardinality(Queue)
        BY <1>4 DEF Resume, QueueClosures, epochVars
    <2>2. Queue' = Queue
        BY <2>1 DEF Queue
    <2>3. tasks' >= Cardinality(Queue)
        BY <1>0, <2>1
    <2>. QED BY <2>2, <2>3 DEF NoStrandedPermit
<1>5. ASSUME NEW b \in Batches, GrantEpochs(b) PROVE NoStrandedPermit'
    <2>1. /\ paused' = paused /\ stopping' = stopping
          /\ ~paused => tasks' = tasks + Cardinality(RequestedPermits(b))
        BY <1>5 DEF GrantEpochs
    <2>2. /\ IsFiniteSet(Queue')
          /\ Cardinality(Queue') <= Cardinality(Queue) + Cardinality(RequestedPermits(b))
        BY <1>5, GrantedQueue
    <2>3. Cardinality(Queue') \in Nat /\ Cardinality(RequestedPermits(b)) \in Nat
        BY <2>2, RequestSize, FS_CardinalityType
    <2>4. SUFFICES ASSUME ~paused', ~stopping' PROVE tasks' >= Cardinality(Queue')
        BY DEF NoStrandedPermit
    <2>5. tasks >= Cardinality(Queue) /\ tasks' = tasks + Cardinality(RequestedPermits(b))
        BY <2>1, <2>4 DEF NoStrandedPermit
    <2>. QED BY <1>0, <2>2, <2>3, <2>5
<1>6. CASE UNCHANGED vars
    <2>1. permits' = permits /\ tasks' = tasks /\ paused' = paused /\ stopping' = stopping
        BY <1>6 DEF vars, epochVars, poolVars
    <2>. QED BY <1>1, <2>1
<1>7. CASE Next
    <2>1. ASSUME \/ \E t \in Threads : Steal(t) \/ TaskFinishes(t)
                 \/ \E s \in Sessions : BindSession(s)
          PROVE  permits' = permits /\ tasks' = tasks /\ paused' = paused /\ stopping' = stopping
        BY <2>1 DEF Steal, TaskFinishes, BindSession, epochVars, poolVars
    <2>2. Still => permits' = permits /\ tasks' = tasks /\ (paused => paused') /\ (stopping => stopping')
        BY DEF Still
    <2>. QED BY <1>1, <1>2, <1>3, <1>4, <1>5, <1>7, <2>1, <2>2, StepKinds
<1>. QED BY <1>6, <1>7

\* No permit is left without a closure to serve it: across claims, pauses that
\* make closures return unserved, resumes that schedule again, and grants.
THEOREM PermitsScheduled == Spec => []NoStrandedPermit
<1>1. Init => NoStrandedPermit
    <2> SUFFICES ASSUME Init PROVE NoStrandedPermit
        OBVIOUS
    <2>1. Queue = {} /\ tasks = 0
        BY DEF Init, Queue
    <2>2. Cardinality(Queue) = 0
        BY <2>1, FS_EmptySet
    <2>. QED BY <2>1, <2>2 DEF NoStrandedPermit
<1>2. IInv /\ IInv' /\ NoStrandedPermit /\ [Next]_vars => NoStrandedPermit'
    BY StrandedStep
<1>. QED BY <1>1, <1>2, Invariance, PTL DEF Spec

=============================================================================
