-------------------------- MODULE WorkerPoolProofs --------------------------
(***************************************************************************)
(* service() returns only when every thread has been through its epoch, for *)
(* any number of threads, regions, epochs and any work. The invariant ties  *)
(* the counters of an epoch to the places of the threads: what a counter    *)
(* says is how many threads are past the step that counts, and a thread is  *)
(* past it in this epoch or not at all.                                     *)
(***************************************************************************)
EXTENDS WorkerPool, SolverLemmas

Points == {"loop", "start", "gate", "top", "round", "pick", "empty", "idle", "claim", "count",
           "enter", "serve", "leave", "end", "gone"}
Typed == TypeOK /\ pc \in [Workers -> Points]

\* Outside an epoch every thread is at the head of its loop, or has returned.
Calling ==
    /\ opened <=> ctl \in {"armed", "waiting"}
    /\ stopping <=> ctl \in {"stopping", "joining", "gone"}
    /\ \A w \in Workers : /\ ~opened => pc[w] \in {"loop", "gone"}
                          /\ ~stopping => pc[w] # "gone"

\* A thread on its way is on its way through this epoch, and holds a region from
\* the pop to the end of the service.
OnItsWay ==
    \A w \in Workers :
        /\ seen[w] <= epoch
        /\ pc[w] \notin {"loop", "gone"} => seen[w] = epoch
        /\ Held(w) <=> pc[w] \in {"claim", "count", "enter", "serve"}
        /\ pc[w] = "count" => ~used[w]

Through == {w \in Workers : pc[w] = "loop" /\ seen[w] = epoch}
Arrived == {w \in Workers : pc[w] # "start" /\ seen[w] = epoch}
Claimed == {w \in Workers : seen[w] = epoch /\ (used[w] \/ pc[w] = "enter")}
Serving == {w \in Workers : pc[w] \in {"serve", "leave"}}

\* What the counters count; a thread that finds the search decided ends without
\* having arrived, and only the recursive kernel counts first claims.
Counters ==
    /\ opened => finished = Cardinality(Through)
    /\ arrivals <= Cardinality(Arrived)
    /\ firstClaims <= Cardinality(Claimed)
    /\ active = Cardinality(Serving)

IInv == Typed /\ Calling /\ OnItsWay /\ Counters

-----------------------------------------------------------------------------
LEMMA Sizes ==
    /\ Width \in Nat \ {0}
    /\ \A S \in SUBSET Workers :
         /\ IsFiniteSet(S) /\ Cardinality(S) \in 0..Width
         /\ Cardinality(S) = Width => S = Workers
<1>1. IsFiniteSet(Workers) /\ Workers # {}
  BY PoolAssumption
<1>2. Width \in Nat /\ Width # 0
  BY <1>1, FS_CardinalityType, FS_EmptySet DEF Width
<1>3. ASSUME NEW S \in SUBSET Workers
      PROVE  IsFiniteSet(S) /\ Cardinality(S) \in 0..Width /\ (Cardinality(S) = Width => S = Workers)
  <2>1. /\ IsFiniteSet(S) /\ Cardinality(S) <= Cardinality(Workers)
        /\ Cardinality(S) = Cardinality(Workers) => S = Workers
    BY <1>1, FS_Subset
  <2>2. Cardinality(S) \in Nat
    BY <2>1, FS_CardinalityType
  <2> QED BY <1>2, <2>1, <2>2 DEF Width
<1> QED BY <1>2, <1>3

LEMMA Grown ==
    ASSUME NEW S \in SUBSET Workers, NEW w \in Workers, w \notin S
    PROVE  Cardinality(S \cup {w}) = Cardinality(S) + 1
BY Sizes, FS_AddElement

LEMMA Shrunk ==
    ASSUME NEW S \in SUBSET Workers, NEW w \in S
    PROVE  Cardinality(S \ {w}) = Cardinality(S) - 1
BY Sizes, FS_RemoveElement

\* The counters follow the sets of threads they count.
LEMMA Recounted ==
    ASSUME IInv,
           opened' => finished' = Cardinality(Through'),
           arrivals' - arrivals <= Cardinality(Arrived') - Cardinality(Arrived),
           firstClaims' - firstClaims <= Cardinality(Claimed') - Cardinality(Claimed),
           active' - active = Cardinality(Serving') - Cardinality(Serving),
           arrivals' \in Nat, firstClaims' \in Nat, active' \in Int
    PROVE  /\ Counters'
           /\ arrivals' \in 0..Width /\ firstClaims' \in 0..Width /\ active' \in 0..Width
<1>1. /\ Arrived \in SUBSET Workers /\ Claimed \in SUBSET Workers /\ Serving \in SUBSET Workers
      /\ Arrived' \in SUBSET Workers /\ Claimed' \in SUBSET Workers /\ Serving' \in SUBSET Workers
  BY DEF Arrived, Claimed, Serving
<1>2. /\ Cardinality(Arrived) \in 0..Width /\ Cardinality(Claimed) \in 0..Width
      /\ Cardinality(Serving) \in 0..Width
      /\ Cardinality(Arrived') \in 0..Width /\ Cardinality(Claimed') \in 0..Width
      /\ Cardinality(Serving') \in 0..Width /\ Width \in Nat
  BY <1>1, Sizes
<1>3. /\ arrivals \in Nat /\ firstClaims \in Nat /\ active \in Nat
      /\ arrivals <= Cardinality(Arrived) /\ firstClaims <= Cardinality(Claimed)
      /\ active = Cardinality(Serving)
  BY DEF IInv, Typed, TypeOK, Counters
<1>4. /\ arrivals' \in 0..Width /\ arrivals' <= Cardinality(Arrived')
      /\ firstClaims' \in 0..Width /\ firstClaims' <= Cardinality(Claimed')
      /\ active' \in 0..Width /\ active' = Cardinality(Serving')
  BY <1>2, <1>3
<1> QED BY <1>4 DEF Counters

LEMMA NoneIsNoRegion == None \notin Regions
BY PoolAssumption DEF Regions

LEMMA ShareIsWork ==
    ASSUME IInv, NEW n \in Nat
    PROVE  Share(n) \in Nat
<1>1. Width \in Nat \ {0}
  BY Sizes
<1>2. Width * Width \in Nat \ {0}
  BY <1>1
<1>3. ASSUME NEW m \in Nat, NEW d \in Nat \ {0} PROVE (m + d - 1) \div d \in Nat
  BY <1>3
<1> QED BY <1>2, <1>3 DEF Share

\* Nothing that is counted changes.
LEMMA Uncounted ==
    ASSUME IInv, UNCHANGED <<pc, seen, used, epoch, barrier, active>>, opened' => opened
    PROVE  Counters'
BY DEF IInv, Counters, Through, Arrived, Claimed, Serving, barrier

-----------------------------------------------------------------------------

LEMMA SleepsStep == ASSUME IInv, NEW w \in Workers, NEW p, NEW x, Sleeps(w, p, x) PROVE IInv'
<1>1. Typed'
  BY DEF IInv, Typed, TypeOK, Points, Sleeps, forest, counts, barrier, control, flags,
     threads
<1>2. Calling'
  BY DEF IInv, Typed, TypeOK, Points, Calling, OnItsWay, Sleeps, forest, counts, barrier,
     control, flags, threads
<1>3. OnItsWay'
  BY DEF IInv, Typed, TypeOK, Points, Calling, OnItsWay, Held, Sleeps, forest, counts,
     barrier, control, flags, threads
<1>4. Counters'
  BY Uncounted DEF Sleeps, forest, counts, barrier, control, flags, threads
<1> QED BY <1>1, <1>2, <1>3, <1>4 DEF IInv

LEMMA DozesStep == ASSUME IInv, NEW w \in Workers, NEW p, NEW x, Dozes(w, p, x) PROVE IInv'
<1>1. Typed'
  BY DEF IInv, Typed, TypeOK, Points, Dozes, Free, forest, counts, barrier, control, flags,
     threads
<1>2. Calling'
  BY DEF IInv, Typed, TypeOK, Points, Calling, OnItsWay, Dozes, Free, forest, counts,
     barrier, control, flags, threads
<1>3. OnItsWay'
  BY DEF IInv, Typed, TypeOK, Points, Calling, OnItsWay, Held, Dozes, Free, forest, counts,
     barrier, control, flags, threads
<1>4. Counters'
  BY Uncounted DEF Dozes, Free, forest, counts, barrier, control, flags, threads
<1> QED BY <1>1, <1>2, <1>3, <1>4 DEF IInv

LEMMA FallsAsleepStep == ASSUME IInv, NEW w \in Workers, FallsAsleep(w) PROVE IInv'
<1>1. Typed'
  BY DEF IInv, Typed, TypeOK, Points, FallsAsleep, forest, counts, barrier, control, flags,
     threads
<1>2. Calling'
  BY DEF IInv, Typed, TypeOK, Points, Calling, OnItsWay, FallsAsleep, forest, counts,
     barrier, control, flags, threads
<1>3. OnItsWay'
  BY DEF IInv, Typed, TypeOK, Points, Calling, OnItsWay, Held, FallsAsleep, forest, counts,
     barrier, control, flags, threads
<1>4. Counters'
  BY Uncounted DEF FallsAsleep, forest, counts, barrier, control, flags, threads
<1> QED BY <1>1, <1>2, <1>3, <1>4 DEF IInv

LEMMA TimesOutStep == ASSUME IInv, NEW w \in Workers, TimesOut(w) PROVE IInv'
<1>1. Typed'
  BY DEF IInv, Typed, TypeOK, Points, TimesOut, forest, counts, barrier, control, flags,
     threads
<1>2. Calling'
  BY DEF IInv, Typed, TypeOK, Points, Calling, OnItsWay, TimesOut, forest, counts, barrier,
     control, flags, threads
<1>3. OnItsWay'
  BY DEF IInv, Typed, TypeOK, Points, Calling, OnItsWay, Held, TimesOut, forest, counts,
     barrier, control, flags, threads
<1>4. Counters'
  BY Uncounted DEF TimesOut, forest, counts, barrier, control, flags, threads
<1> QED BY <1>1, <1>2, <1>3, <1>4 DEF IInv

LEMMA NotifiesStep == ASSUME IInv, Notifies PROVE IInv'
<1>1. Typed'
  BY DEF IInv, Typed, TypeOK, Points, Notifies, NotifiesAll, forest, counts, barrier,
     control, flags, threads
<1>2. Calling'
  BY DEF IInv, Typed, TypeOK, Points, Calling, OnItsWay, Notifies, NotifiesAll, forest,
     counts, barrier, control, flags, threads
<1>3. OnItsWay'
  BY DEF IInv, Typed, TypeOK, Points, Calling, OnItsWay, Held, Notifies, NotifiesAll,
     forest, counts, barrier, control, flags, threads
<1>4. Counters'
  BY Uncounted DEF Notifies, NotifiesAll, forest, counts, barrier, control, flags, threads
<1> QED BY <1>1, <1>2, <1>3, <1>4 DEF IInv

LEMMA JoinsStep == ASSUME IInv, Joins PROVE IInv'
<1>1. Typed'
  BY DEF IInv, Typed, TypeOK, Points, Joins, forest, counts, barrier, control, flags,
     threads
<1>2. Calling'
  BY DEF IInv, Typed, TypeOK, Points, Calling, OnItsWay, Joins, forest, counts, barrier,
     control, flags, threads
<1>3. OnItsWay'
  BY DEF IInv, Typed, TypeOK, Points, Calling, OnItsWay, Held, Joins, forest, counts,
     barrier, control, flags, threads
<1>4. Counters'
  BY Uncounted DEF Joins, forest, counts, barrier, control, flags, threads
<1> QED BY <1>1, <1>2, <1>3, <1>4 DEF IInv

LEMMA DeadlinePassesStep == ASSUME IInv, DeadlinePasses PROVE IInv'
<1>1. Typed'
  BY DEF IInv, Typed, TypeOK, Points, DeadlinePasses, forest, counts, barrier, control,
     flags, threads
<1>2. Calling'
  BY DEF IInv, Typed, TypeOK, Points, Calling, OnItsWay, DeadlinePasses, forest, counts,
     barrier, control, flags, threads
<1>3. OnItsWay'
  BY DEF IInv, Typed, TypeOK, Points, Calling, OnItsWay, Held, DeadlinePasses, forest,
     counts, barrier, control, flags, threads
<1>4. Counters'
  BY Uncounted DEF DeadlinePasses, forest, counts, barrier, control, flags, threads
<1> QED BY <1>1, <1>2, <1>3, <1>4 DEF IInv

LEMMA RequestYieldStep == ASSUME IInv, RequestYield PROVE IInv'
<1>1. Typed'
  BY DEF IInv, Typed, TypeOK, Points, RequestYield, NotifiesAll, forest, counts, barrier,
     control, flags, threads
<1>2. Calling'
  BY DEF IInv, Typed, TypeOK, Points, Calling, OnItsWay, RequestYield, NotifiesAll, forest,
     counts, barrier, control, flags, threads
<1>3. OnItsWay'
  BY DEF IInv, Typed, TypeOK, Points, Calling, OnItsWay, Held, RequestYield, NotifiesAll,
     forest, counts, barrier, control, flags, threads
<1>4. Counters'
  BY Uncounted DEF RequestYield, NotifiesAll, forest, counts, barrier, control, flags,
     threads
<1> QED BY <1>1, <1>2, <1>3, <1>4 DEF IInv

LEMMA CancelStep == ASSUME IInv, Cancel PROVE IInv'
<1>1. Typed'
  BY DEF IInv, Typed, TypeOK, Points, Cancel, NotifiesAll, forest, counts, barrier, control,
     flags, threads
<1>2. Calling'
  BY DEF IInv, Typed, TypeOK, Points, Calling, OnItsWay, Cancel, NotifiesAll, forest,
     counts, barrier, control, flags, threads
<1>3. OnItsWay'
  BY DEF IInv, Typed, TypeOK, Points, Calling, OnItsWay, Held, Cancel, NotifiesAll, forest,
     counts, barrier, control, flags, threads
<1>4. Counters'
  BY Uncounted DEF Cancel, NotifiesAll, forest, counts, barrier, control, flags, threads
<1> QED BY <1>1, <1>2, <1>3, <1>4 DEF IInv

LEMMA DestroysStep == ASSUME IInv, Destroys PROVE IInv'
<1>1. Typed'
  BY DEF IInv, Typed, TypeOK, Points, Destroys, forest, counts, barrier, control, flags,
     threads
<1>2. Calling'
  BY DEF IInv, Typed, TypeOK, Points, Calling, OnItsWay, Destroys, forest, counts, barrier,
     control, flags, threads
<1>3. OnItsWay'
  BY DEF IInv, Typed, TypeOK, Points, Calling, OnItsWay, Held, Destroys, forest, counts,
     barrier, control, flags, threads
<1>4. Counters'
  BY Uncounted DEF Destroys, forest, counts, barrier, control, flags, threads
<1> QED BY <1>1, <1>2, <1>3, <1>4 DEF IInv

LEMMA JoinsEpochStep == ASSUME IInv, NEW w \in Workers, JoinsEpoch(w) PROVE IInv'
<1>1. Typed'
  BY DEF IInv, Typed, TypeOK, Points, JoinsEpoch, LoopReady, At, Goes, forest, counts,
     barrier, control, flags, threads
<1>2. Calling'
  BY DEF IInv, Typed, TypeOK, Points, Calling, OnItsWay, JoinsEpoch, LoopReady, At, Goes,
     forest, counts, barrier, control, flags, threads
<1>3. OnItsWay'
  BY DEF IInv, Typed, TypeOK, Points, Calling, OnItsWay, Held, JoinsEpoch, LoopReady, At,
     Goes, forest, counts, barrier, control, flags, threads
<1>4. Counters'
  <2>1. opened => Through' = Through
    BY DEF IInv, Typed, TypeOK, Points, Calling, OnItsWay, Through, JoinsEpoch, LoopReady,
       At, Goes, forest, counts, barrier, control, flags, threads
  <2>2. Arrived' = Arrived
    BY DEF IInv, Typed, TypeOK, Points, Calling, OnItsWay, Arrived, JoinsEpoch, LoopReady,
       At, Goes, forest, counts, barrier, control, flags, threads
  <2>3. Claimed' = Claimed
    BY DEF IInv, Typed, TypeOK, Points, Calling, OnItsWay, Claimed, JoinsEpoch, LoopReady,
       At, Goes, forest, counts, barrier, control, flags, threads
  <2>4. Serving' = Serving
    BY DEF IInv, Typed, TypeOK, Points, Calling, OnItsWay, Serving, JoinsEpoch, LoopReady,
       At, Goes, forest, counts, barrier, control, flags, threads
  <2>5. /\ Cardinality(Through) \in Nat /\ Cardinality(Arrived) \in Nat
        /\ Cardinality(Claimed) \in Nat /\ Cardinality(Serving) \in Nat
    BY Sizes DEF Through, Arrived, Claimed, Serving
  <2>6. /\ opened' => finished' = Cardinality(Through')
        /\ arrivals' - arrivals <= Cardinality(Arrived') - Cardinality(Arrived)
        /\ firstClaims' - firstClaims <= Cardinality(Claimed') - Cardinality(Claimed)
        /\ active' - active = Cardinality(Serving') - Cardinality(Serving)
        /\ arrivals' \in Nat /\ firstClaims' \in Nat /\ active' \in Int
    BY <2>1, <2>2, <2>3, <2>4, <2>5 DEF IInv, Typed, TypeOK, Counters, JoinsEpoch,
       LoopReady, At, Goes, forest, counts, barrier, control, flags, threads
  <2> QED BY <2>6, Recounted
<1> QED BY <1>1, <1>2, <1>3, <1>4 DEF IInv

LEMMA ArrivesStep == ASSUME IInv, NEW w \in Workers, Arrives(w) PROVE IInv'
<1>0. Counters' /\ arrivals' \in 0..Width /\ firstClaims' \in 0..Width /\ active' \in 0..Width
  <2>1. Through' = Through
    BY DEF IInv, Typed, TypeOK, Points, Calling, OnItsWay, Through, Arrives, NotifiesAll,
       At, Goes, forest, counts, barrier, control, flags, threads
  <2>2. Arrived' = Arrived \cup {w} /\ w \notin Arrived
    BY DEF IInv, Typed, TypeOK, Points, Calling, OnItsWay, Arrived, Arrives, NotifiesAll,
       At, Goes, forest, counts, barrier, control, flags, threads
  <2>3. Claimed' = Claimed
    BY DEF IInv, Typed, TypeOK, Points, Calling, OnItsWay, Claimed, Arrives, NotifiesAll,
       At, Goes, forest, counts, barrier, control, flags, threads
  <2>4. Serving' = Serving
    BY DEF IInv, Typed, TypeOK, Points, Calling, OnItsWay, Serving, Arrives, NotifiesAll,
       At, Goes, forest, counts, barrier, control, flags, threads
  <2>5. Cardinality(Arrived') = Cardinality(Arrived) + 1
    BY <2>2, Grown DEF Arrived
  <2>6. /\ Cardinality(Through) \in Nat /\ Cardinality(Arrived) \in Nat
        /\ Cardinality(Claimed) \in Nat /\ Cardinality(Serving) \in Nat
    BY Sizes DEF Through, Arrived, Claimed, Serving
  <2>7. /\ opened' => finished' = Cardinality(Through')
        /\ arrivals' - arrivals <= Cardinality(Arrived') - Cardinality(Arrived)
        /\ firstClaims' - firstClaims <= Cardinality(Claimed') - Cardinality(Claimed)
        /\ active' - active = Cardinality(Serving') - Cardinality(Serving)
        /\ arrivals' \in Nat /\ firstClaims' \in Nat /\ active' \in Int
    BY <2>1, <2>2, <2>3, <2>4, <2>5, <2>6 DEF IInv, Typed, TypeOK, Counters, Arrives,
       NotifiesAll, At, Goes, forest, counts, barrier, control, flags, threads
  <2> QED BY <2>7, Recounted
<1>1. Typed'
  <2>1. mode' \in [Workers -> {"awake", "dozing", "asleep"}] /\ pc' \in [Workers -> Points]
    BY DEF IInv, Typed, TypeOK, Points, Arrives, NotifiesAll, At, Goes, threads
  <2>2. released' \in BOOLEAN
    BY DEF IInv, Typed, TypeOK, Arrives
  <2> QED BY <1>0, <2>1, <2>2 DEF IInv, Typed, TypeOK, Arrives, forest, counts, control,
     flags, threads
<1>2. Calling'
  BY DEF IInv, Typed, TypeOK, Points, Calling, OnItsWay, Arrives, NotifiesAll, At, Goes,
     forest, counts, barrier, control, flags, threads
<1>3. OnItsWay'
  BY DEF IInv, Typed, TypeOK, Points, Calling, OnItsWay, Held, Arrives, NotifiesAll, At,
     Goes, forest, counts, barrier, control, flags, threads
<1> QED BY <1>0, <1>1, <1>2, <1>3 DEF IInv

LEMMA PassesGateStep == ASSUME IInv, NEW w \in Workers, PassesGate(w) PROVE IInv'
<1>1. Typed'
  BY DEF IInv, Typed, TypeOK, Points, PassesGate, At, Goes, forest, counts, barrier,
     control, flags, threads
<1>2. Calling'
  BY DEF IInv, Typed, TypeOK, Points, Calling, OnItsWay, PassesGate, At, Goes, forest,
     counts, barrier, control, flags, threads
<1>3. OnItsWay'
  BY DEF IInv, Typed, TypeOK, Points, Calling, OnItsWay, Held, PassesGate, At, Goes, forest,
     counts, barrier, control, flags, threads
<1>4. Counters'
  <2>1. Through' = Through
    BY DEF IInv, Typed, TypeOK, Points, Calling, OnItsWay, Through, PassesGate, At, Goes,
       forest, counts, barrier, control, flags, threads
  <2>2. Arrived' = Arrived
    BY DEF IInv, Typed, TypeOK, Points, Calling, OnItsWay, Arrived, PassesGate, At, Goes,
       forest, counts, barrier, control, flags, threads
  <2>3. Claimed' = Claimed
    BY DEF IInv, Typed, TypeOK, Points, Calling, OnItsWay, Claimed, PassesGate, At, Goes,
       forest, counts, barrier, control, flags, threads
  <2>4. Serving' = Serving
    BY DEF IInv, Typed, TypeOK, Points, Calling, OnItsWay, Serving, PassesGate, At, Goes,
       forest, counts, barrier, control, flags, threads
  <2>5. /\ Cardinality(Through) \in Nat /\ Cardinality(Arrived) \in Nat
        /\ Cardinality(Claimed) \in Nat /\ Cardinality(Serving) \in Nat
    BY Sizes DEF Through, Arrived, Claimed, Serving
  <2>6. /\ opened' => finished' = Cardinality(Through')
        /\ arrivals' - arrivals <= Cardinality(Arrived') - Cardinality(Arrived)
        /\ firstClaims' - firstClaims <= Cardinality(Claimed') - Cardinality(Claimed)
        /\ active' - active = Cardinality(Serving') - Cardinality(Serving)
        /\ arrivals' \in Nat /\ firstClaims' \in Nat /\ active' \in Int
    BY <2>1, <2>2, <2>3, <2>4, <2>5 DEF IInv, Typed, TypeOK, Counters, PassesGate, At, Goes,
       forest, counts, barrier, control, flags, threads
  <2> QED BY <2>6, Recounted
<1> QED BY <1>1, <1>2, <1>3, <1>4 DEF IInv

LEMMA PassesRoundStep == ASSUME IInv, NEW w \in Workers, PassesRound(w) PROVE IInv'
<1>1. Typed'
  BY DEF IInv, Typed, TypeOK, Points, PassesRound, At, Goes, forest, counts, barrier,
     control, flags, threads
<1>2. Calling'
  BY DEF IInv, Typed, TypeOK, Points, Calling, OnItsWay, PassesRound, At, Goes, forest,
     counts, barrier, control, flags, threads
<1>3. OnItsWay'
  BY DEF IInv, Typed, TypeOK, Points, Calling, OnItsWay, Held, PassesRound, At, Goes,
     forest, counts, barrier, control, flags, threads
<1>4. Counters'
  <2>1. Through' = Through
    BY DEF IInv, Typed, TypeOK, Points, Calling, OnItsWay, Through, PassesRound, At, Goes,
       forest, counts, barrier, control, flags, threads
  <2>2. Arrived' = Arrived
    BY DEF IInv, Typed, TypeOK, Points, Calling, OnItsWay, Arrived, PassesRound, At, Goes,
       forest, counts, barrier, control, flags, threads
  <2>3. Claimed' = Claimed
    BY DEF IInv, Typed, TypeOK, Points, Calling, OnItsWay, Claimed, PassesRound, At, Goes,
       forest, counts, barrier, control, flags, threads
  <2>4. Serving' = Serving
    BY DEF IInv, Typed, TypeOK, Points, Calling, OnItsWay, Serving, PassesRound, At, Goes,
       forest, counts, barrier, control, flags, threads
  <2>5. /\ Cardinality(Through) \in Nat /\ Cardinality(Arrived) \in Nat
        /\ Cardinality(Claimed) \in Nat /\ Cardinality(Serving) \in Nat
    BY Sizes DEF Through, Arrived, Claimed, Serving
  <2>6. /\ opened' => finished' = Cardinality(Through')
        /\ arrivals' - arrivals <= Cardinality(Arrived') - Cardinality(Arrived)
        /\ firstClaims' - firstClaims <= Cardinality(Claimed') - Cardinality(Claimed)
        /\ active' - active = Cardinality(Serving') - Cardinality(Serving)
        /\ arrivals' \in Nat /\ firstClaims' \in Nat /\ active' \in Int
    BY <2>1, <2>2, <2>3, <2>4, <2>5 DEF IInv, Typed, TypeOK, Counters, PassesRound, At,
       Goes, forest, counts, barrier, control, flags, threads
  <2> QED BY <2>6, Recounted
<1> QED BY <1>1, <1>2, <1>3, <1>4 DEF IInv

LEMMA LooksOnceStep == ASSUME IInv, NEW w \in Workers, LooksOnce(w) PROVE IInv'
<1>1. Typed'
  BY DEF IInv, Typed, TypeOK, Points, LooksOnce, At, Goes, forest, counts, barrier, control,
     flags, threads
<1>2. Calling'
  BY DEF IInv, Typed, TypeOK, Points, Calling, OnItsWay, LooksOnce, At, Goes, forest,
     counts, barrier, control, flags, threads
<1>3. OnItsWay'
  BY DEF IInv, Typed, TypeOK, Points, Calling, OnItsWay, Held, LooksOnce, At, Goes, forest,
     counts, barrier, control, flags, threads
<1>4. Counters'
  <2>1. Through' = Through
    BY DEF IInv, Typed, TypeOK, Points, Calling, OnItsWay, Through, LooksOnce, At, Goes,
       forest, counts, barrier, control, flags, threads
  <2>2. Arrived' = Arrived
    BY DEF IInv, Typed, TypeOK, Points, Calling, OnItsWay, Arrived, LooksOnce, At, Goes,
       forest, counts, barrier, control, flags, threads
  <2>3. Claimed' = Claimed
    BY DEF IInv, Typed, TypeOK, Points, Calling, OnItsWay, Claimed, LooksOnce, At, Goes,
       forest, counts, barrier, control, flags, threads
  <2>4. Serving' = Serving
    BY DEF IInv, Typed, TypeOK, Points, Calling, OnItsWay, Serving, LooksOnce, At, Goes,
       forest, counts, barrier, control, flags, threads
  <2>5. /\ Cardinality(Through) \in Nat /\ Cardinality(Arrived) \in Nat
        /\ Cardinality(Claimed) \in Nat /\ Cardinality(Serving) \in Nat
    BY Sizes DEF Through, Arrived, Claimed, Serving
  <2>6. /\ opened' => finished' = Cardinality(Through')
        /\ arrivals' - arrivals <= Cardinality(Arrived') - Cardinality(Arrived)
        /\ firstClaims' - firstClaims <= Cardinality(Claimed') - Cardinality(Claimed)
        /\ active' - active = Cardinality(Serving') - Cardinality(Serving)
        /\ arrivals' \in Nat /\ firstClaims' \in Nat /\ active' \in Int
    BY <2>1, <2>2, <2>3, <2>4, <2>5 DEF IInv, Typed, TypeOK, Counters, LooksOnce, At, Goes,
       forest, counts, barrier, control, flags, threads
  <2> QED BY <2>6, Recounted
<1> QED BY <1>1, <1>2, <1>3, <1>4 DEF IInv

LEMMA PopsStep == ASSUME IInv, NEW w \in Workers, Pops(w) PROVE IInv'
<1>1. Typed'
  <2>1. pc' \in [Workers -> Points]
    BY DEF IInv, Typed, Points, Pops, Goes
  <2>2. /\ region' \in [Regions -> {"absent", "ready", "held", "waiting", "closed"}]
        /\ held' \in [Workers -> Regions \cup {None}]
    BY DEF IInv, Typed, TypeOK, Pops, Ready
  <2> QED BY <2>1, <2>2 DEF IInv, Typed, TypeOK, Pops, counts, barrier, control, flags
<1>2. Calling'
  BY DEF IInv, Typed, TypeOK, Points, Calling, OnItsWay, Pops, At, Goes, forest, counts,
     barrier, control, flags, threads
<1>3. OnItsWay'
  <2>1. CASE pc' = [pc EXCEPT ![w] = "empty"] /\ held' = held
    BY <2>1 DEF IInv, Typed, TypeOK, OnItsWay, Held, Pops, At, control
  <2>2. CASE \E r \in Ready : held' = [held EXCEPT ![w] = r] /\ pc' = [pc EXCEPT ![w] = "claim"]
    <3>1. PICK r \in Regions : held' = [held EXCEPT ![w] = r] /\ pc' = [pc EXCEPT ![w] = "claim"]
      BY <2>2 DEF Ready
    <3>2. r # None
      BY NoneIsNoRegion
    <3> QED BY <3>1, <3>2 DEF IInv, Typed, TypeOK, OnItsWay, Held, Pops, At, control
  <2> QED BY <2>1, <2>2 DEF Pops, Goes
<1>4. Counters'
  <2>1. Through' = Through
    BY DEF IInv, Typed, TypeOK, Points, Calling, OnItsWay, Through, Pops, At, Goes, forest,
       counts, barrier, control, flags, threads
  <2>2. Arrived' = Arrived
    BY DEF IInv, Typed, TypeOK, Points, Calling, OnItsWay, Arrived, Pops, At, Goes, forest,
       counts, barrier, control, flags, threads
  <2>3. Claimed' = Claimed
    BY DEF IInv, Typed, TypeOK, Points, Calling, OnItsWay, Claimed, Pops, At, Goes, forest,
       counts, barrier, control, flags, threads
  <2>4. Serving' = Serving
    BY DEF IInv, Typed, TypeOK, Points, Calling, OnItsWay, Serving, Pops, At, Goes, forest,
       counts, barrier, control, flags, threads
  <2>5. /\ Cardinality(Through) \in Nat /\ Cardinality(Arrived) \in Nat
        /\ Cardinality(Claimed) \in Nat /\ Cardinality(Serving) \in Nat
    BY Sizes DEF Through, Arrived, Claimed, Serving
  <2>6. /\ opened' => finished' = Cardinality(Through')
        /\ arrivals' - arrivals <= Cardinality(Arrived') - Cardinality(Arrived)
        /\ firstClaims' - firstClaims <= Cardinality(Claimed') - Cardinality(Claimed)
        /\ active' - active = Cardinality(Serving') - Cardinality(Serving)
        /\ arrivals' \in Nat /\ firstClaims' \in Nat /\ active' \in Int
    BY <2>1, <2>2, <2>3, <2>4, <2>5 DEF IInv, Typed, TypeOK, Counters, Pops, At, Goes,
       forest, counts, barrier, control, flags, threads
  <2> QED BY <2>6, Recounted
<1> QED BY <1>1, <1>2, <1>3, <1>4 DEF IInv

LEMMA LooksForOthersStep == ASSUME IInv, NEW w \in Workers, LooksForOthers(w) PROVE IInv'
<1>1. Typed'
  BY DEF IInv, Typed, TypeOK, Points, LooksForOthers, At, Goes, forest, counts, barrier,
     control, flags, threads
<1>2. Calling'
  BY DEF IInv, Typed, TypeOK, Points, Calling, OnItsWay, LooksForOthers, At, Goes, forest,
     counts, barrier, control, flags, threads
<1>3. OnItsWay'
  BY DEF IInv, Typed, TypeOK, Points, Calling, OnItsWay, Held, LooksForOthers, At, Goes,
     forest, counts, barrier, control, flags, threads
<1>4. Counters'
  <2>1. Through' = Through
    BY DEF IInv, Typed, TypeOK, Points, Calling, OnItsWay, Through, LooksForOthers, At,
       Goes, forest, counts, barrier, control, flags, threads
  <2>2. Arrived' = Arrived
    BY DEF IInv, Typed, TypeOK, Points, Calling, OnItsWay, Arrived, LooksForOthers, At,
       Goes, forest, counts, barrier, control, flags, threads
  <2>3. Claimed' = Claimed
    BY DEF IInv, Typed, TypeOK, Points, Calling, OnItsWay, Claimed, LooksForOthers, At,
       Goes, forest, counts, barrier, control, flags, threads
  <2>4. Serving' = Serving
    BY DEF IInv, Typed, TypeOK, Points, Calling, OnItsWay, Serving, LooksForOthers, At,
       Goes, forest, counts, barrier, control, flags, threads
  <2>5. /\ Cardinality(Through) \in Nat /\ Cardinality(Arrived) \in Nat
        /\ Cardinality(Claimed) \in Nat /\ Cardinality(Serving) \in Nat
    BY Sizes DEF Through, Arrived, Claimed, Serving
  <2>6. /\ opened' => finished' = Cardinality(Through')
        /\ arrivals' - arrivals <= Cardinality(Arrived') - Cardinality(Arrived)
        /\ firstClaims' - firstClaims <= Cardinality(Claimed') - Cardinality(Claimed)
        /\ active' - active = Cardinality(Serving') - Cardinality(Serving)
        /\ arrivals' \in Nat /\ firstClaims' \in Nat /\ active' \in Int
    BY <2>1, <2>2, <2>3, <2>4, <2>5 DEF IInv, Typed, TypeOK, Counters, LooksForOthers, At,
       Goes, forest, counts, barrier, control, flags, threads
  <2> QED BY <2>6, Recounted
<1> QED BY <1>1, <1>2, <1>3, <1>4 DEF IInv

LEMMA LeavesIdleStep == ASSUME IInv, NEW w \in Workers, LeavesIdle(w) PROVE IInv'
<1>1. Typed'
  BY DEF IInv, Typed, TypeOK, Points, LeavesIdle, At, Goes, forest, counts, barrier,
     control, flags, threads
<1>2. Calling'
  BY DEF IInv, Typed, TypeOK, Points, Calling, OnItsWay, LeavesIdle, At, Goes, forest,
     counts, barrier, control, flags, threads
<1>3. OnItsWay'
  BY DEF IInv, Typed, TypeOK, Points, Calling, OnItsWay, Held, LeavesIdle, At, Goes, forest,
     counts, barrier, control, flags, threads
<1>4. Counters'
  <2>1. Through' = Through
    BY DEF IInv, Typed, TypeOK, Points, Calling, OnItsWay, Through, LeavesIdle, At, Goes,
       forest, counts, barrier, control, flags, threads
  <2>2. Arrived' = Arrived
    BY DEF IInv, Typed, TypeOK, Points, Calling, OnItsWay, Arrived, LeavesIdle, At, Goes,
       forest, counts, barrier, control, flags, threads
  <2>3. Claimed' = Claimed
    BY DEF IInv, Typed, TypeOK, Points, Calling, OnItsWay, Claimed, LeavesIdle, At, Goes,
       forest, counts, barrier, control, flags, threads
  <2>4. Serving' = Serving
    BY DEF IInv, Typed, TypeOK, Points, Calling, OnItsWay, Serving, LeavesIdle, At, Goes,
       forest, counts, barrier, control, flags, threads
  <2>5. /\ Cardinality(Through) \in Nat /\ Cardinality(Arrived) \in Nat
        /\ Cardinality(Claimed) \in Nat /\ Cardinality(Serving) \in Nat
    BY Sizes DEF Through, Arrived, Claimed, Serving
  <2>6. /\ opened' => finished' = Cardinality(Through')
        /\ arrivals' - arrivals <= Cardinality(Arrived') - Cardinality(Arrived)
        /\ firstClaims' - firstClaims <= Cardinality(Claimed') - Cardinality(Claimed)
        /\ active' - active = Cardinality(Serving') - Cardinality(Serving)
        /\ arrivals' \in Nat /\ firstClaims' \in Nat /\ active' \in Int
    BY <2>1, <2>2, <2>3, <2>4, <2>5 DEF IInv, Typed, TypeOK, Counters, LeavesIdle, At, Goes,
       forest, counts, barrier, control, flags, threads
  <2> QED BY <2>6, Recounted
<1> QED BY <1>1, <1>2, <1>3, <1>4 DEF IInv

LEMMA TakesWorkStep == ASSUME IInv, NEW w \in Workers, TakesWork(w) PROVE IInv'
<1>1. Typed'
  <2>1. PICK n \in 1..granted : work' = work - Claim(n) /\ claimed' = [claimed EXCEPT ![w] = Claim(n)]
    BY DEF TakesWork
  <2>2. Claim(n) \in Nat /\ Claim(n) <= work
    BY <2>1, ShareIsWork DEF IInv, Typed, TypeOK, Claim
  <2>3. work' \in Nat /\ claimed' \in [Workers -> Nat]
    BY <2>1, <2>2 DEF IInv, Typed, TypeOK
  <2>4. pc' \in [Workers -> Points]
    BY DEF IInv, Typed, Points, TakesWork, Goes
  <2> QED BY <2>3, <2>4 DEF IInv, Typed, TypeOK, TakesWork, forest, barrier, control, flags
<1>2. Calling'
  BY DEF IInv, Typed, TypeOK, Points, Calling, OnItsWay, TakesWork, At, Goes, forest,
     counts, barrier, control, flags, threads
<1>3. OnItsWay'
  BY DEF IInv, Typed, TypeOK, Points, Calling, OnItsWay, Held, TakesWork, At, Goes, forest,
     counts, barrier, control, flags, threads
<1>4. Counters'
  <2>1. Through' = Through
    BY DEF IInv, Typed, TypeOK, Points, Calling, OnItsWay, Through, TakesWork, At, Goes,
       forest, counts, barrier, control, flags, threads
  <2>2. Arrived' = Arrived
    BY DEF IInv, Typed, TypeOK, Points, Calling, OnItsWay, Arrived, TakesWork, At, Goes,
       forest, counts, barrier, control, flags, threads
  <2>3. Claimed \subseteq Claimed'
    BY DEF IInv, Typed, TypeOK, Points, Calling, OnItsWay, Claimed, TakesWork, At, Goes,
       forest, counts, barrier, control, flags, threads
  <2>4. Serving' = Serving
    BY DEF IInv, Typed, TypeOK, Points, Calling, OnItsWay, Serving, TakesWork, At, Goes,
       forest, counts, barrier, control, flags, threads
  <2>5. Cardinality(Claimed) <= Cardinality(Claimed')
    <3>1. IsFiniteSet(Claimed')
      BY Sizes DEF Claimed
    <3> QED BY <2>3, <3>1, FS_Subset
  <2>6. Cardinality(Claimed') \in Nat
    BY Sizes DEF Claimed
  <2>7. /\ Cardinality(Through) \in Nat /\ Cardinality(Arrived) \in Nat
        /\ Cardinality(Claimed) \in Nat /\ Cardinality(Serving) \in Nat
    BY Sizes DEF Through, Arrived, Claimed, Serving
  <2>8. /\ opened' => finished' = Cardinality(Through')
        /\ arrivals' - arrivals <= Cardinality(Arrived') - Cardinality(Arrived)
        /\ firstClaims' - firstClaims <= Cardinality(Claimed') - Cardinality(Claimed)
        /\ active' - active = Cardinality(Serving') - Cardinality(Serving)
        /\ arrivals' \in Nat /\ firstClaims' \in Nat /\ active' \in Int
    BY <2>1, <2>2, <2>3, <2>4, <2>5, <2>6, <2>7 DEF IInv, Typed, TypeOK, Counters,
       TakesWork, At, Goes, forest, counts, barrier, control, flags, threads
  <2> QED BY <2>8, Recounted
<1> QED BY <1>1, <1>2, <1>3, <1>4 DEF IInv

LEMMA FindsNoWorkStep == ASSUME IInv, NEW w \in Workers, FindsNoWork(w) PROVE IInv'
<1>1. Typed'
  BY DEF IInv, Typed, TypeOK, Points, FindsNoWork, Requeue, NotifiesOne, At, Goes, forest,
     counts, barrier, control, flags, threads
<1>2. Calling'
  BY DEF IInv, Typed, TypeOK, Points, Calling, OnItsWay, FindsNoWork, Requeue, NotifiesOne,
     At, Goes, forest, counts, barrier, control, flags, threads
<1>3. OnItsWay'
  BY DEF IInv, Typed, TypeOK, Points, Calling, OnItsWay, Held, FindsNoWork, Requeue,
     NotifiesOne, At, Goes, forest, counts, barrier, control, flags, threads
<1>4. Counters'
  <2>1. Through' = Through
    BY DEF IInv, Typed, TypeOK, Points, Calling, OnItsWay, Through, FindsNoWork, Requeue,
       NotifiesOne, At, Goes, forest, counts, barrier, control, flags, threads
  <2>2. Arrived' = Arrived
    BY DEF IInv, Typed, TypeOK, Points, Calling, OnItsWay, Arrived, FindsNoWork, Requeue,
       NotifiesOne, At, Goes, forest, counts, barrier, control, flags, threads
  <2>3. Claimed' = Claimed
    BY DEF IInv, Typed, TypeOK, Points, Calling, OnItsWay, Claimed, FindsNoWork, Requeue,
       NotifiesOne, At, Goes, forest, counts, barrier, control, flags, threads
  <2>4. Serving' = Serving
    BY DEF IInv, Typed, TypeOK, Points, Calling, OnItsWay, Serving, FindsNoWork, Requeue,
       NotifiesOne, At, Goes, forest, counts, barrier, control, flags, threads
  <2>5. /\ Cardinality(Through) \in Nat /\ Cardinality(Arrived) \in Nat
        /\ Cardinality(Claimed) \in Nat /\ Cardinality(Serving) \in Nat
    BY Sizes DEF Through, Arrived, Claimed, Serving
  <2>6. /\ opened' => finished' = Cardinality(Through')
        /\ arrivals' - arrivals <= Cardinality(Arrived') - Cardinality(Arrived)
        /\ firstClaims' - firstClaims <= Cardinality(Claimed') - Cardinality(Claimed)
        /\ active' - active = Cardinality(Serving') - Cardinality(Serving)
        /\ arrivals' \in Nat /\ firstClaims' \in Nat /\ active' \in Int
    BY <2>1, <2>2, <2>3, <2>4, <2>5 DEF IInv, Typed, TypeOK, Counters, FindsNoWork, Requeue,
       NotifiesOne, At, Goes, forest, counts, barrier, control, flags, threads
  <2> QED BY <2>6, Recounted
<1> QED BY <1>1, <1>2, <1>3, <1>4 DEF IInv

LEMMA CountsFirstClaimStep == ASSUME IInv, NEW w \in Workers, CountsFirstClaim(w) PROVE IInv'
<1>0. Counters' /\ arrivals' \in 0..Width /\ firstClaims' \in 0..Width /\ active' \in 0..Width
  <2>1. Through' = Through
    BY DEF IInv, Typed, TypeOK, Points, Calling, OnItsWay, Through, CountsFirstClaim,
       NotifiesAll, At, Goes, forest, counts, barrier, control, flags, threads
  <2>2. Arrived' = Arrived
    BY DEF IInv, Typed, TypeOK, Points, Calling, OnItsWay, Arrived, CountsFirstClaim,
       NotifiesAll, At, Goes, forest, counts, barrier, control, flags, threads
  <2>3. Claimed' = Claimed \cup {w} /\ w \notin Claimed
    BY DEF IInv, Typed, TypeOK, Points, Calling, OnItsWay, Claimed, CountsFirstClaim,
       NotifiesAll, At, Goes, forest, counts, barrier, control, flags, threads
  <2>4. Serving' = Serving
    BY DEF IInv, Typed, TypeOK, Points, Calling, OnItsWay, Serving, CountsFirstClaim,
       NotifiesAll, At, Goes, forest, counts, barrier, control, flags, threads
  <2>5. Cardinality(Claimed') = Cardinality(Claimed) + 1
    BY <2>3, Grown DEF Claimed
  <2>6. /\ Cardinality(Through) \in Nat /\ Cardinality(Arrived) \in Nat
        /\ Cardinality(Claimed) \in Nat /\ Cardinality(Serving) \in Nat
    BY Sizes DEF Through, Arrived, Claimed, Serving
  <2>7. /\ opened' => finished' = Cardinality(Through')
        /\ arrivals' - arrivals <= Cardinality(Arrived') - Cardinality(Arrived)
        /\ firstClaims' - firstClaims <= Cardinality(Claimed') - Cardinality(Claimed)
        /\ active' - active = Cardinality(Serving') - Cardinality(Serving)
        /\ arrivals' \in Nat /\ firstClaims' \in Nat /\ active' \in Int
    BY <2>1, <2>2, <2>3, <2>4, <2>5, <2>6 DEF IInv, Typed, TypeOK, Counters,
       CountsFirstClaim, NotifiesAll, At, Goes, forest, counts, barrier, control, flags,
       threads
  <2> QED BY <2>7, Recounted
<1>1. Typed'
  BY <1>0 DEF IInv, Typed, TypeOK, Points, CountsFirstClaim, NotifiesAll, At, Goes, forest,
     counts, barrier, control, flags, threads
<1>2. Calling'
  BY DEF IInv, Typed, TypeOK, Points, Calling, OnItsWay, CountsFirstClaim, NotifiesAll, At,
     Goes, forest, counts, barrier, control, flags, threads
<1>3. OnItsWay'
  BY DEF IInv, Typed, TypeOK, Points, Calling, OnItsWay, Held, CountsFirstClaim,
     NotifiesAll, At, Goes, forest, counts, barrier, control, flags, threads
<1> QED BY <1>0, <1>1, <1>2, <1>3 DEF IInv

LEMMA EntersStep == ASSUME IInv, NEW w \in Workers, Enters(w) PROVE IInv'
<1>0. Counters' /\ arrivals' \in 0..Width /\ firstClaims' \in 0..Width /\ active' \in 0..Width
  <2>1. Through' = Through
    BY DEF IInv, Typed, TypeOK, Points, Calling, OnItsWay, Through, Enters, At, Goes,
       forest, counts, barrier, control, flags, threads
  <2>2. Arrived' = Arrived
    BY DEF IInv, Typed, TypeOK, Points, Calling, OnItsWay, Arrived, Enters, At, Goes,
       forest, counts, barrier, control, flags, threads
  <2>3. Claimed' = Claimed
    BY DEF IInv, Typed, TypeOK, Points, Calling, OnItsWay, Claimed, Enters, At, Goes,
       forest, counts, barrier, control, flags, threads
  <2>4. Serving' = Serving \cup {w} /\ w \notin Serving
    BY DEF IInv, Typed, TypeOK, Points, Calling, OnItsWay, Serving, Enters, At, Goes,
       forest, counts, barrier, control, flags, threads
  <2>5. Cardinality(Serving') = Cardinality(Serving) + 1
    BY <2>4, Grown DEF Serving
  <2>6. /\ Cardinality(Through) \in Nat /\ Cardinality(Arrived) \in Nat
        /\ Cardinality(Claimed) \in Nat /\ Cardinality(Serving) \in Nat
    BY Sizes DEF Through, Arrived, Claimed, Serving
  <2>7. /\ opened' => finished' = Cardinality(Through')
        /\ arrivals' - arrivals <= Cardinality(Arrived') - Cardinality(Arrived)
        /\ firstClaims' - firstClaims <= Cardinality(Claimed') - Cardinality(Claimed)
        /\ active' - active = Cardinality(Serving') - Cardinality(Serving)
        /\ arrivals' \in Nat /\ firstClaims' \in Nat /\ active' \in Int
    BY <2>1, <2>2, <2>3, <2>4, <2>5, <2>6 DEF IInv, Typed, TypeOK, Counters, Enters, At,
       Goes, forest, counts, barrier, control, flags, threads
  <2> QED BY <2>7, Recounted
<1>1. Typed'
  BY <1>0 DEF IInv, Typed, TypeOK, Points, Enters, At, Goes, forest, counts, barrier,
     control, flags, threads
<1>2. Calling'
  BY DEF IInv, Typed, TypeOK, Points, Calling, OnItsWay, Enters, At, Goes, forest, counts,
     barrier, control, flags, threads
<1>3. OnItsWay'
  BY DEF IInv, Typed, TypeOK, Points, Calling, OnItsWay, Held, Enters, At, Goes, forest,
     counts, barrier, control, flags, threads
<1> QED BY <1>0, <1>1, <1>2, <1>3 DEF IInv

LEMMA ServesStep == ASSUME IInv, NEW w \in Workers, Serves(w) PROVE IInv'
<1>1. Typed'
  <2> DEFINE r == held[w]
  <2>1. r \in Regions
    BY DEF IInv, Typed, TypeOK, OnItsWay, Held, Serves, At
  <2>2. /\ region' \in [Regions -> {"absent", "ready", "held", "waiting", "closed"}]
        /\ parent' \in [Regions -> Regions \cup {None}]
        /\ status' \in {"unresolved", "feasible", "infeasible", "cancelled"}
        /\ stop' \in BOOLEAN
    <3>1. CASE Yields(r)
      BY <2>1, <3>1 DEF IInv, Typed, TypeOK, Yields
    <3>2. CASE Donates(r)
      BY <2>1, <3>2 DEF IInv, Typed, TypeOK, Donates
    <3>3. CASE Waits(r)
      BY <2>1, <3>3 DEF IInv, Typed, TypeOK, Waits
    <3>4. CASE Fails(r)
      <4>1. PICK failing : region' = [x \in Regions |-> IF x \in failing THEN "closed" ELSE region[x]]
        BY <3>4 DEF Fails
      <4> QED BY <3>4, <4>1 DEF IInv, Typed, TypeOK, Fails
    <3>5. CASE Finds(r)
      BY <2>1, <3>5 DEF IInv, Typed, TypeOK, Finds
    <3> QED BY <3>1, <3>2, <3>3, <3>4, <3>5 DEF Serves
  <2>3. work' \in Nat
    <3>1. PICK spent \in LeastSpent(held[w])..claimed[w] : work' = work + claimed[w] - spent
      BY DEF Serves
    <3> QED BY <3>1 DEF IInv, Typed, TypeOK, LeastSpent
  <2>4. /\ claimed' \in [Workers -> Nat] /\ held' \in [Workers -> Regions \cup {None}]
        /\ mode' \in [Workers -> {"awake", "dozing", "asleep"}] /\ pc' \in [Workers -> Points]
    BY DEF IInv, Typed, TypeOK, Points, Serves, NotifiesAll, Goes
  <2> QED BY <2>2, <2>3, <2>4 DEF IInv, Typed, TypeOK, Serves, barrier, control
<1>2. Calling'
  BY DEF IInv, Typed, TypeOK, Points, Calling, OnItsWay, Serves, NotifiesAll, At, Goes,
     forest, counts, barrier, control, flags, threads
<1>3. OnItsWay'
  BY DEF IInv, Typed, TypeOK, Points, Calling, OnItsWay, Held, Serves, NotifiesAll, At,
     Goes, forest, counts, barrier, control, flags, threads
<1>4. Counters'
  <2>1. Through' = Through
    BY DEF IInv, Typed, TypeOK, Points, Calling, OnItsWay, Through, Serves, NotifiesAll, At,
       Goes, forest, counts, barrier, control, flags, threads
  <2>2. Arrived' = Arrived
    BY DEF IInv, Typed, TypeOK, Points, Calling, OnItsWay, Arrived, Serves, NotifiesAll, At,
       Goes, forest, counts, barrier, control, flags, threads
  <2>3. Claimed' = Claimed
    BY DEF IInv, Typed, TypeOK, Points, Calling, OnItsWay, Claimed, Serves, NotifiesAll, At,
       Goes, forest, counts, barrier, control, flags, threads
  <2>4. Serving' = Serving
    BY DEF IInv, Typed, TypeOK, Points, Calling, OnItsWay, Serving, Serves, NotifiesAll, At,
       Goes, forest, counts, barrier, control, flags, threads
  <2>5. /\ Cardinality(Through) \in Nat /\ Cardinality(Arrived) \in Nat
        /\ Cardinality(Claimed) \in Nat /\ Cardinality(Serving) \in Nat
    BY Sizes DEF Through, Arrived, Claimed, Serving
  <2>6. /\ opened' => finished' = Cardinality(Through')
        /\ arrivals' - arrivals <= Cardinality(Arrived') - Cardinality(Arrived)
        /\ firstClaims' - firstClaims <= Cardinality(Claimed') - Cardinality(Claimed)
        /\ active' - active = Cardinality(Serving') - Cardinality(Serving)
        /\ arrivals' \in Nat /\ firstClaims' \in Nat /\ active' \in Int
    BY <2>1, <2>2, <2>3, <2>4, <2>5 DEF IInv, Typed, TypeOK, Counters, Serves, NotifiesAll,
       At, Goes, forest, counts, barrier, control, flags, threads
  <2> QED BY <2>6, Recounted
<1> QED BY <1>1, <1>2, <1>3, <1>4 DEF IInv

LEMMA ThrowsStep == ASSUME IInv, NEW w \in Workers, Throws(w) PROVE IInv'
<1>0. Counters' /\ arrivals' \in 0..Width /\ firstClaims' \in 0..Width /\ active' \in 0..Width
  <2>1. Through' = Through
    BY DEF IInv, Typed, TypeOK, Points, Calling, OnItsWay, Through, Throws, NotifiesAll, At,
       Goes, forest, counts, barrier, control, flags, threads
  <2>2. Arrived' = Arrived
    BY DEF IInv, Typed, TypeOK, Points, Calling, OnItsWay, Arrived, Throws, NotifiesAll, At,
       Goes, forest, counts, barrier, control, flags, threads
  <2>3. Claimed' = Claimed
    BY DEF IInv, Typed, TypeOK, Points, Calling, OnItsWay, Claimed, Throws, NotifiesAll, At,
       Goes, forest, counts, barrier, control, flags, threads
  <2>4. Serving' = Serving \ {w} /\ w \in Serving
    BY DEF IInv, Typed, TypeOK, Points, Calling, OnItsWay, Serving, Throws, NotifiesAll, At,
       Goes, forest, counts, barrier, control, flags, threads
  <2>5. Cardinality(Serving') = Cardinality(Serving) - 1
    BY <2>4, Shrunk DEF Serving
  <2>6. /\ Cardinality(Through) \in Nat /\ Cardinality(Arrived) \in Nat
        /\ Cardinality(Claimed) \in Nat /\ Cardinality(Serving) \in Nat
    BY Sizes DEF Through, Arrived, Claimed, Serving
  <2>7. /\ opened' => finished' = Cardinality(Through')
        /\ arrivals' - arrivals <= Cardinality(Arrived') - Cardinality(Arrived)
        /\ firstClaims' - firstClaims <= Cardinality(Claimed') - Cardinality(Claimed)
        /\ active' - active = Cardinality(Serving') - Cardinality(Serving)
        /\ arrivals' \in Nat /\ firstClaims' \in Nat /\ active' \in Int
    BY <2>1, <2>2, <2>3, <2>4, <2>5, <2>6 DEF IInv, Typed, TypeOK, Counters, Throws,
       NotifiesAll, At, Goes, forest, counts, barrier, control, flags, threads
  <2> QED BY <2>7, Recounted
<1>1. Typed'
  BY <1>0 DEF IInv, Typed, TypeOK, Points, Throws, NotifiesAll, At, Goes, forest, counts,
     barrier, control, flags, threads
<1>2. Calling'
  BY DEF IInv, Typed, TypeOK, Points, Calling, OnItsWay, Throws, NotifiesAll, At, Goes,
     forest, counts, barrier, control, flags, threads
<1>3. OnItsWay'
  BY DEF IInv, Typed, TypeOK, Points, Calling, OnItsWay, Held, Throws, NotifiesAll, At,
     Goes, forest, counts, barrier, control, flags, threads
<1> QED BY <1>0, <1>1, <1>2, <1>3 DEF IInv

LEMMA ReleasesStep == ASSUME IInv, NEW w \in Workers, Releases(w) PROVE IInv'
<1>0. Counters' /\ arrivals' \in 0..Width /\ firstClaims' \in 0..Width /\ active' \in 0..Width
  <2>1. Through' = Through
    BY DEF IInv, Typed, TypeOK, Points, Calling, OnItsWay, Through, Releases, NotifiesAll,
       At, Goes, forest, counts, barrier, control, flags, threads
  <2>2. Arrived' = Arrived
    BY DEF IInv, Typed, TypeOK, Points, Calling, OnItsWay, Arrived, Releases, NotifiesAll,
       At, Goes, forest, counts, barrier, control, flags, threads
  <2>3. Claimed' = Claimed
    BY DEF IInv, Typed, TypeOK, Points, Calling, OnItsWay, Claimed, Releases, NotifiesAll,
       At, Goes, forest, counts, barrier, control, flags, threads
  <2>4. Serving' = Serving \ {w} /\ w \in Serving
    BY DEF IInv, Typed, TypeOK, Points, Calling, OnItsWay, Serving, Releases, NotifiesAll,
       At, Goes, forest, counts, barrier, control, flags, threads
  <2>5. Cardinality(Serving') = Cardinality(Serving) - 1
    BY <2>4, Shrunk DEF Serving
  <2>6. /\ Cardinality(Through) \in Nat /\ Cardinality(Arrived) \in Nat
        /\ Cardinality(Claimed) \in Nat /\ Cardinality(Serving) \in Nat
    BY Sizes DEF Through, Arrived, Claimed, Serving
  <2>7. /\ opened' => finished' = Cardinality(Through')
        /\ arrivals' - arrivals <= Cardinality(Arrived') - Cardinality(Arrived)
        /\ firstClaims' - firstClaims <= Cardinality(Claimed') - Cardinality(Claimed)
        /\ active' - active = Cardinality(Serving') - Cardinality(Serving)
        /\ arrivals' \in Nat /\ firstClaims' \in Nat /\ active' \in Int
    BY <2>1, <2>2, <2>3, <2>4, <2>5, <2>6 DEF IInv, Typed, TypeOK, Counters, Releases,
       NotifiesAll, At, Goes, forest, counts, barrier, control, flags, threads
  <2> QED BY <2>7, Recounted
<1>1. Typed'
  BY <1>0 DEF IInv, Typed, TypeOK, Points, Releases, NotifiesAll, At, Goes, forest, counts,
     barrier, control, flags, threads
<1>2. Calling'
  BY DEF IInv, Typed, TypeOK, Points, Calling, OnItsWay, Releases, NotifiesAll, At, Goes,
     forest, counts, barrier, control, flags, threads
<1>3. OnItsWay'
  BY DEF IInv, Typed, TypeOK, Points, Calling, OnItsWay, Held, Releases, NotifiesAll, At,
     Goes, forest, counts, barrier, control, flags, threads
<1> QED BY <1>0, <1>1, <1>2, <1>3 DEF IInv

LEMMA EndsStep == ASSUME IInv, NEW w \in Workers, Ends(w) PROVE IInv'
<1>0. Counters'
  <2>1. Through' = Through \cup {w} /\ w \notin Through
    BY DEF IInv, Typed, TypeOK, Points, Calling, OnItsWay, Through, Ends, At, Goes, forest,
       counts, barrier, control, flags, threads
  <2>2. Arrived' = Arrived
    BY DEF IInv, Typed, TypeOK, Points, Calling, OnItsWay, Arrived, Ends, At, Goes, forest,
       counts, barrier, control, flags, threads
  <2>3. Claimed' = Claimed
    BY DEF IInv, Typed, TypeOK, Points, Calling, OnItsWay, Claimed, Ends, At, Goes, forest,
       counts, barrier, control, flags, threads
  <2>4. Serving' = Serving
    BY DEF IInv, Typed, TypeOK, Points, Calling, OnItsWay, Serving, Ends, At, Goes, forest,
       counts, barrier, control, flags, threads
  <2>5. Cardinality(Through') = Cardinality(Through) + 1
    BY <2>1, Grown DEF Through
  <2>6. /\ Cardinality(Through) \in Nat /\ Cardinality(Arrived) \in Nat
        /\ Cardinality(Claimed) \in Nat /\ Cardinality(Serving) \in Nat
    BY Sizes DEF Through, Arrived, Claimed, Serving
  <2>7. /\ opened' => finished' = Cardinality(Through')
        /\ arrivals' - arrivals <= Cardinality(Arrived') - Cardinality(Arrived)
        /\ firstClaims' - firstClaims <= Cardinality(Claimed') - Cardinality(Claimed)
        /\ active' - active = Cardinality(Serving') - Cardinality(Serving)
        /\ arrivals' \in Nat /\ firstClaims' \in Nat /\ active' \in Int
    BY <2>1, <2>2, <2>3, <2>4, <2>5, <2>6 DEF IInv, Typed, TypeOK, Counters, Ends, At, Goes,
       forest, counts, barrier, control, flags, threads
  <2> QED BY <2>7, Recounted
<1>1. Typed'
  <2>1. finished' \in 0..Width
    <3>1. opened /\ opened'
      BY DEF IInv, Calling, Ends, At, control
    <3>2. finished' = Cardinality(Through') /\ Through' \in SUBSET Workers
      BY <1>0, <3>1 DEF Counters, Through
    <3> QED BY <3>2, Sizes
  <2>2. pc' \in [Workers -> Points]
    BY DEF IInv, Typed, Points, Ends, Goes
  <2> QED BY <2>1, <2>2 DEF IInv, Typed, TypeOK, Ends, forest, counts, control, flags,
     threads
<1>2. Calling'
  BY DEF IInv, Typed, TypeOK, Points, Calling, OnItsWay, Ends, At, Goes, forest, counts,
     barrier, control, flags, threads
<1>3. OnItsWay'
  BY DEF IInv, Typed, TypeOK, Points, Calling, OnItsWay, Held, Ends, At, Goes, forest,
     counts, barrier, control, flags, threads
<1> QED BY <1>0, <1>1, <1>2, <1>3 DEF IInv

LEMMA ReturnsStep == ASSUME IInv, Returns PROVE IInv'
<1>1. Typed'
  BY DEF IInv, Typed, TypeOK, Returns, forest, counts, barrier, flags, threads
<1>2. Calling'
  <2>1. Through = Workers
    <3>1. Cardinality(Through) = Width
      BY DEF IInv, Calling, Counters, Returns
    <3> QED BY <3>1, Sizes DEF Through
  <2>2. \A w \in Workers : pc[w] = "loop"
    BY <2>1 DEF Through
  <2> QED BY <2>2 DEF IInv, Calling, Returns
<1>3. OnItsWay'
  BY DEF IInv, OnItsWay, Held, Returns, threads
<1>4. Counters'
  BY Uncounted DEF Returns, threads, counts
<1> QED BY <1>1, <1>2, <1>3, <1>4 DEF IInv

LEMMA CallsStep == ASSUME IInv, NEW q \in Quanta, Calls(q) PROVE IInv'
<1>0. /\ \A w \in Workers : pc[w] = "loop" /\ seen[w] <= epoch /\ ~Held(w)
      /\ ctl = "idle" /\ ~stopping /\ epoch \in Nat /\ epoch' = epoch + 1
  BY DEF IInv, Typed, TypeOK, Calling, OnItsWay, Calls
<1>1. Typed'
  <2>1. granted' \in Nat
    BY PoolAssumption, Sizes DEF Calls
  <2>2. epoch' \in 0..MaxEpochs /\ seen' = seen
    BY PoolAssumption DEF IInv, Typed, TypeOK, Calls, threads
  <2>3. finished' \in 0..Width /\ arrivals' \in 0..Width /\ firstClaims' \in 0..Width
    BY Sizes DEF Calls, Resets
  <2> QED BY <2>1, <2>2, <2>3 DEF IInv, Typed, TypeOK, Calls, Resets, forest, threads
<1>2. Calling'
  BY <1>0 DEF Calling, Calls
<1>3. OnItsWay'
  BY <1>0 DEF IInv, Typed, TypeOK, OnItsWay, Held, Calls, threads
<1>4. Counters'
  <2>1. \A w \in Workers : seen'[w] # epoch'
    BY <1>0 DEF IInv, Typed, TypeOK, Calls, threads
  <2>2. Through' = {} /\ Arrived' = {} /\ Claimed' = {}
    BY <2>1 DEF Through, Arrived, Claimed
  <2>3. Serving' = Serving
    BY DEF Calls, Serving
  <2>4. Cardinality({}) = 0
    BY FS_EmptySet
  <2> QED BY <2>2, <2>3, <2>4 DEF IInv, Counters, Calls, Resets
<1> QED BY <1>1, <1>2, <1>3, <1>4 DEF IInv

LEMMA Stutter == IInv /\ UNCHANGED vars => IInv'
<1> SUFFICES ASSUME IInv, UNCHANGED vars PROVE IInv'
  OBVIOUS
<1>1. Counters'
  BY Uncounted DEF vars, threads, counts, control
<1> QED BY <1>1 DEF IInv, Typed, TypeOK, Calling, OnItsWay, Held, vars, forest, counts,
   barrier,
      control, flags, threads

LEMMA InitIInv == Init => IInv
<1> SUFFICES ASSUME Init PROVE IInv
  OBVIOUS
<1>1. 0 \in 0..Width /\ 0 \in 0..MaxEpochs /\ 1 \in Regions
  BY Sizes, PoolAssumption DEF Regions
<1>2. Typed
  BY <1>1 DEF Init, Typed, TypeOK, Points
<1>3. Calling /\ OnItsWay
  BY DEF Init, Calling, OnItsWay, Held
<1>4. Counters
  <2>1. Serving = {}
    BY DEF Init, Serving
  <2>2. Cardinality(Serving) = 0
    BY <2>1, FS_EmptySet
  <2>3. Cardinality(Arrived) \in Nat /\ Cardinality(Claimed) \in Nat
    BY Sizes DEF Arrived, Claimed
  <2> QED BY <2>2, <2>3 DEF Init, Counters
<1> QED BY <1>2, <1>3, <1>4 DEF IInv

LEMMA NextIInv == IInv /\ [Next]_vars => IInv'
<1> SUFFICES ASSUME IInv, [Next]_vars PROVE IInv'
  OBVIOUS
<1>1. ASSUME NEW w \in Workers, Thread(w) PROVE IInv'
  BY <1>1, SleepsStep, DozesStep, FallsAsleepStep, TimesOutStep, JoinsEpochStep,
     ArrivesStep,
     PassesGateStep, PassesRoundStep, LooksOnceStep, PopsStep, LooksForOthersStep, LeavesIdleStep,
     TakesWorkStep, FindsNoWorkStep, CountsFirstClaimStep, EntersStep, ServesStep, ThrowsStep,
     ReleasesStep, EndsStep DEF Thread
<1> QED BY <1>1, NotifiesStep, ReturnsStep, JoinsStep, DeadlinePassesStep, RequestYieldStep,
           CancelStep, DestroysStep, CallsStep, Stutter DEF Next, Caller

LEMMA Inductive == Spec => []IInv
BY InitIInv, NextIInv, PTL DEF Spec

\* The variables keep their types, the thread counters their ranges: no count of
\* active, arrived or finished threads ever passes the number of threads, or
\* falls below zero (active_workers, parallel_decision_session.cpp).
THEOREM Typing == Spec => []TypeOK
<1>1. IInv => TypeOK
  BY DEF IInv, Typed
<1> QED BY <1>1, Inductive, PTL

\* service() returns only when every thread has been through this epoch, holds no
\* region and is back at the head of its loop: none is missed by the notification
\* and none is counted twice (parallel_decision_session.cpp, finished_workers).
THEOREM AllPassed == Spec => []EveryThreadPassed
<1>1. IInv => EveryThreadPassed
  <2> SUFFICES ASSUME IInv, ctl = "waiting", finished = Width
               PROVE  \A w \in Workers : seen[w] = epoch /\ pc[w] = "loop" /\ ~Held(w)
    BY DEF EveryThreadPassed
  <2>1. Cardinality(Through) = Width
    BY DEF IInv, Calling, Counters
  <2>2. Through = Workers
    BY <2>1, Sizes DEF Through
  <2> QED BY <2>2 DEF Through, IInv, OnItsWay
<1> QED BY <1>1, Inductive, PTL

-----------------------------------------------------------------------------
\* The work of an epoch. What is left and what the threads have claimed is within
\* the grant, and a thread that is not on its way to the end of a service has
\* nothing claimed: so nothing is claimed when the next epoch sets the work anew.
Charging == {"count", "enter", "serve"}
Charged ==
    /\ work + Total(claimed, Workers) <= granted
    /\ \A w \in Workers : pc[w] \notin Charging => claimed[w] = 0

WInv == IInv /\ Charged

LEMMA SumOfClaims == MapThenSumSet(LAMBDA w : claimed[w], Workers) = Total(claimed, Workers)
BY DEF Total, Partial, Pick, MapThenSumSet, MapThenFoldSet

LEMMA WorkersFinite == IsFiniteSet(Workers)
BY PoolAssumption

\* Steps that move no work.
LEMMA Uncharged ==
    ASSUME Charged, UNCHANGED <<work, granted, claimed>>,
           \A v \in Workers : pc[v] \in Charging => pc'[v] \in Charging
    PROVE  Charged'
BY DEF Charged

\* One thread's claim changes.
LEMMA Recharged ==
    ASSUME IInv, Charged, NEW w \in Workers, NEW n \in Nat,
           claimed' = [claimed EXCEPT ![w] = n], granted' = granted, work' \in Int,
           work' + n <= work + claimed[w],
           n # 0 => pc'[w] \in Charging,
           \A v \in Workers \ {w} : pc'[v] = pc[v]
    PROVE  Charged'
<1>1. claimed \in [Workers -> Nat] /\ claimed' \in [Workers -> Nat] /\ work \in Nat /\ granted \in Nat
  BY DEF IInv, Typed, TypeOK
<1>2. Total(claimed', Workers) = Total(claimed, Workers) - claimed[w] + claimed'[w]
  <2>1. claimed'[w] \in Int /\ \A v \in Workers : v # w => claimed'[v] = claimed[v]
    BY <1>1
  <2>2. \A v \in Workers : claimed[v] \in Int
    BY <1>1
  <2>3. \A f, g : (\A v \in Workers : f[v] \in Int) /\ g[w] \in Int
                   /\ (\A v \in Workers : v # w => g[v] = f[v])
                   => Total(g, Workers) = Total(f, Workers) - f[w] + g[w]
    BY WorkersFinite, TotalChanged
  <2>. QED BY <2>1, <2>2, <2>3
<1>3. Total(claimed, Workers) \in Int
  BY <1>1, WorkersFinite, TotalInt
<1>4. work' + Total(claimed', Workers) <= granted'
  BY <1>1, <1>2, <1>3 DEF Charged
<1>5. \A v \in Workers : pc'[v] \notin Charging => claimed'[v] = 0
  BY <1>1 DEF Charged
<1>. QED BY <1>4, <1>5 DEF Charged

LEMMA TakesWorkCharged == ASSUME WInv, NEW w \in Workers, TakesWork(w) PROVE Charged'
<1>1. PICK n \in 1..granted : work' = work - Claim(n) /\ claimed' = [claimed EXCEPT ![w] = Claim(n)]
  BY DEF TakesWork
<1>2. Claim(n) \in Nat /\ Claim(n) <= work
  BY <1>1, ShareIsWork DEF WInv, IInv, Typed, TypeOK, Claim
<1>3. claimed[w] = 0
  BY DEF WInv, Charged, Charging, TakesWork, At
<1>4. pc'[w] \in Charging /\ \A v \in Workers \ {w} : pc'[v] = pc[v]
  BY DEF WInv, IInv, Typed, Charging, TakesWork, Goes
<1>5. work' \in Int /\ work' + Claim(n) <= work + claimed[w]
  BY <1>1, <1>2, <1>3 DEF WInv, IInv, Typed, TypeOK
<1>. QED BY <1>1, <1>2, <1>4, <1>5, Recharged DEF WInv, TakesWork

LEMMA ServesCharged == ASSUME WInv, NEW w \in Workers, Serves(w) PROVE Charged'
<1>1. PICK spent \in LeastSpent(held[w])..claimed[w] : work' = work + claimed[w] - spent
  BY DEF Serves
<1>2. claimed[w] \in Nat /\ work \in Nat /\ spent \in Int /\ spent >= 0
  BY DEF WInv, IInv, Typed, TypeOK, LeastSpent
<1>3. work' \in Int /\ work' + 0 <= work + claimed[w]
  BY <1>1, <1>2
<1>4. \A v \in Workers \ {w} : pc'[v] = pc[v]
  BY DEF WInv, IInv, Typed, Serves, Goes
<1>. QED BY <1>3, <1>4, Recharged DEF WInv, Serves

LEMMA ThrowsCharged == ASSUME WInv, NEW w \in Workers, Throws(w) PROVE Charged'
<1>1. claimed[w] \in Nat /\ work \in Nat
  BY DEF WInv, IInv, Typed, TypeOK
<1>2. work' \in Int /\ work' + 0 <= work + claimed[w]
  BY <1>1 DEF Throws
<1>3. \A v \in Workers \ {w} : pc'[v] = pc[v]
  BY DEF WInv, IInv, Typed, Throws, Goes
<1>. QED BY <1>2, <1>3, Recharged DEF WInv, Throws

\* Between two epochs nothing is claimed.
LEMMA NothingClaimed ==
    ASSUME WInv, ctl = "idle"
    PROVE  \A w \in Workers : claimed[w] = 0
BY DEF WInv, IInv, Calling, Charged, Charging

LEMMA CallsCharged == ASSUME WInv, NEW q \in Quanta, Calls(q) PROVE Charged'
<1>1. \A w \in Workers : claimed'[w] = 0
  BY NothingClaimed DEF Calls, threads
<1>2. Total(claimed', Workers) = 0
  BY <1>1, WorkersFinite, TotalZero
<1>3. granted' \in Nat /\ work' = granted'
  BY PoolAssumption, Sizes DEF Calls
<1>. QED BY <1>1, <1>2, <1>3 DEF Charged

\* The other steps of a thread, and of the caller, move no work.
LEMMA ThreadCharged == ASSUME WInv, NEW w \in Workers, Thread(w) PROVE Charged'
<1>1. CASE Sleeps(w, "loop", LoopReady(w))
  <2>1. \A v \in Workers : pc[v] \in Charging => pc'[v] \in Charging
    BY <1>1 DEF WInv, IInv, Typed, Points, Charging, Sleeps, At, Goes, forest, counts, threads
  <2>2. UNCHANGED <<work, granted, claimed>>
    BY <1>1 DEF Sleeps, counts, threads
  <2>. QED BY <2>1, <2>2, Uncharged DEF WInv
<1>2. CASE Sleeps(w, "gate", GateOpen)
  <2>1. \A v \in Workers : pc[v] \in Charging => pc'[v] \in Charging
    BY <1>2 DEF WInv, IInv, Typed, Points, Charging, Sleeps, At, Goes, forest, counts, threads
  <2>2. UNCHANGED <<work, granted, claimed>>
    BY <1>2 DEF Sleeps, counts, threads
  <2>. QED BY <2>1, <2>2, Uncharged DEF WInv
<1>3. CASE Dozes(w, "round", RoundOver)
  <2>1. \A v \in Workers : pc[v] \in Charging => pc'[v] \in Charging
    BY <1>3 DEF WInv, IInv, Typed, Points, Charging, Dozes, At, Goes, forest, counts, threads
  <2>2. UNCHANGED <<work, granted, claimed>>
    BY <1>3 DEF Dozes, counts, threads
  <2>. QED BY <2>1, <2>2, Uncharged DEF WInv
<1>4. CASE Dozes(w, "idle", IdleOver)
  <2>1. \A v \in Workers : pc[v] \in Charging => pc'[v] \in Charging
    BY <1>4 DEF WInv, IInv, Typed, Points, Charging, Dozes, At, Goes, forest, counts, threads
  <2>2. UNCHANGED <<work, granted, claimed>>
    BY <1>4 DEF Dozes, counts, threads
  <2>. QED BY <2>1, <2>2, Uncharged DEF WInv
<1>5. CASE FallsAsleep(w)
  <2>1. \A v \in Workers : pc[v] \in Charging => pc'[v] \in Charging
    BY <1>5 DEF WInv, IInv, Typed, Points, Charging, FallsAsleep, At, Goes, forest, counts, threads
  <2>2. UNCHANGED <<work, granted, claimed>>
    BY <1>5 DEF FallsAsleep, counts, threads
  <2>. QED BY <2>1, <2>2, Uncharged DEF WInv
<1>6. CASE TimesOut(w)
  <2>1. \A v \in Workers : pc[v] \in Charging => pc'[v] \in Charging
    BY <1>6 DEF WInv, IInv, Typed, Points, Charging, TimesOut, At, Goes, forest, counts, threads
  <2>2. UNCHANGED <<work, granted, claimed>>
    BY <1>6 DEF TimesOut, counts, threads
  <2>. QED BY <2>1, <2>2, Uncharged DEF WInv
<1>7. CASE JoinsEpoch(w)
  <2>1. \A v \in Workers : pc[v] \in Charging => pc'[v] \in Charging
    BY <1>7 DEF WInv, IInv, Typed, Points, Charging, JoinsEpoch, At, Goes, forest, counts, threads
  <2>2. UNCHANGED <<work, granted, claimed>>
    BY <1>7 DEF JoinsEpoch, counts, threads
  <2>. QED BY <2>1, <2>2, Uncharged DEF WInv
<1>8. CASE Arrives(w)
  <2>1. \A v \in Workers : pc[v] \in Charging => pc'[v] \in Charging
    BY <1>8 DEF WInv, IInv, Typed, Points, Charging, Arrives, At, Goes, forest, counts, threads
  <2>2. UNCHANGED <<work, granted, claimed>>
    BY <1>8 DEF Arrives, counts, threads
  <2>. QED BY <2>1, <2>2, Uncharged DEF WInv
<1>9. CASE PassesGate(w)
  <2>1. \A v \in Workers : pc[v] \in Charging => pc'[v] \in Charging
    BY <1>9 DEF WInv, IInv, Typed, Points, Charging, PassesGate, At, Goes, forest, counts, threads
  <2>2. UNCHANGED <<work, granted, claimed>>
    BY <1>9 DEF PassesGate, counts, threads
  <2>. QED BY <2>1, <2>2, Uncharged DEF WInv
<1>10. CASE PassesRound(w)
  <2>1. \A v \in Workers : pc[v] \in Charging => pc'[v] \in Charging
    BY <1>10 DEF WInv, IInv, Typed, Points, Charging, PassesRound, At, Goes, forest, counts, threads
  <2>2. UNCHANGED <<work, granted, claimed>>
    BY <1>10 DEF PassesRound, counts, threads
  <2>. QED BY <2>1, <2>2, Uncharged DEF WInv
<1>11. CASE LooksOnce(w)
  <2>1. \A v \in Workers : pc[v] \in Charging => pc'[v] \in Charging
    BY <1>11 DEF WInv, IInv, Typed, Points, Charging, LooksOnce, At, Goes, forest, counts, threads
  <2>2. UNCHANGED <<work, granted, claimed>>
    BY <1>11 DEF LooksOnce, counts, threads
  <2>. QED BY <2>1, <2>2, Uncharged DEF WInv
<1>12. CASE Pops(w)
  <2>1. \A v \in Workers : pc[v] \in Charging => pc'[v] \in Charging
    BY <1>12 DEF WInv, IInv, Typed, Points, Charging, Pops, At, Goes, forest, counts, threads
  <2>2. UNCHANGED <<work, granted, claimed>>
    BY <1>12 DEF Pops, counts, threads
  <2>. QED BY <2>1, <2>2, Uncharged DEF WInv
<1>13. CASE LooksForOthers(w)
  <2>1. \A v \in Workers : pc[v] \in Charging => pc'[v] \in Charging
    BY <1>13 DEF WInv, IInv, Typed, Points, Charging, LooksForOthers, At, Goes, forest, counts, threads
  <2>2. UNCHANGED <<work, granted, claimed>>
    BY <1>13 DEF LooksForOthers, counts, threads
  <2>. QED BY <2>1, <2>2, Uncharged DEF WInv
<1>14. CASE LeavesIdle(w)
  <2>1. \A v \in Workers : pc[v] \in Charging => pc'[v] \in Charging
    BY <1>14 DEF WInv, IInv, Typed, Points, Charging, LeavesIdle, At, Goes, forest, counts, threads
  <2>2. UNCHANGED <<work, granted, claimed>>
    BY <1>14 DEF LeavesIdle, counts, threads
  <2>. QED BY <2>1, <2>2, Uncharged DEF WInv
<1>15. CASE FindsNoWork(w)
  <2>1. \A v \in Workers : pc[v] \in Charging => pc'[v] \in Charging
    BY <1>15 DEF WInv, IInv, Typed, Points, Charging, FindsNoWork, At, Goes, forest, counts, threads
  <2>2. UNCHANGED <<work, granted, claimed>>
    BY <1>15 DEF FindsNoWork, counts, threads
  <2>. QED BY <2>1, <2>2, Uncharged DEF WInv
<1>16. CASE CountsFirstClaim(w)
  <2>1. \A v \in Workers : pc[v] \in Charging => pc'[v] \in Charging
    BY <1>16 DEF WInv, IInv, Typed, Points, Charging, CountsFirstClaim, At, Goes, forest, counts, threads
  <2>2. UNCHANGED <<work, granted, claimed>>
    BY <1>16 DEF CountsFirstClaim, counts, threads
  <2>. QED BY <2>1, <2>2, Uncharged DEF WInv
<1>17. CASE Enters(w)
  <2>1. \A v \in Workers : pc[v] \in Charging => pc'[v] \in Charging
    BY <1>17 DEF WInv, IInv, Typed, Points, Charging, Enters, At, Goes, forest, counts, threads
  <2>2. UNCHANGED <<work, granted, claimed>>
    BY <1>17 DEF Enters, counts, threads
  <2>. QED BY <2>1, <2>2, Uncharged DEF WInv
<1>18. CASE Releases(w)
  <2>1. \A v \in Workers : pc[v] \in Charging => pc'[v] \in Charging
    BY <1>18 DEF WInv, IInv, Typed, Points, Charging, Releases, At, Goes, forest, counts, threads
  <2>2. UNCHANGED <<work, granted, claimed>>
    BY <1>18 DEF Releases, counts, threads
  <2>. QED BY <2>1, <2>2, Uncharged DEF WInv
<1>19. CASE Ends(w)
  <2>1. \A v \in Workers : pc[v] \in Charging => pc'[v] \in Charging
    BY <1>19 DEF WInv, IInv, Typed, Points, Charging, Ends, At, Goes, forest, counts, threads
  <2>2. UNCHANGED <<work, granted, claimed>>
    BY <1>19 DEF Ends, counts, threads
  <2>. QED BY <2>1, <2>2, Uncharged DEF WInv
<1>20. CASE TakesWork(w)
  BY <1>20, TakesWorkCharged
<1>21. CASE Serves(w)
  BY <1>21, ServesCharged
<1>22. CASE Throws(w)
  BY <1>22, ThrowsCharged
<1>. QED BY <1>1, <1>2, <1>3, <1>4, <1>5, <1>6, <1>7, <1>8, <1>9, <1>10, <1>11, <1>12, <1>13, <1>14, <1>15, <1>16, <1>17, <1>18, <1>19, <1>20, <1>21, <1>22 DEF Thread

LEMMA NextWInv == WInv /\ [Next]_vars => WInv'
<1>. SUFFICES ASSUME WInv, [Next]_vars PROVE Charged'
  BY NextIInv DEF WInv
<1>1. CASE Notifies
  BY <1>1, Uncharged DEF WInv, Notifies, counts, threads
<1>2. CASE Returns
  BY <1>2, Uncharged DEF WInv, Returns, counts, threads
<1>3. CASE Joins
  BY <1>3, Uncharged DEF WInv, Joins, counts, threads
<1>4. CASE DeadlinePasses
  BY <1>4, Uncharged DEF WInv, DeadlinePasses, counts, threads
<1>5. CASE RequestYield
  BY <1>5, Uncharged DEF WInv, RequestYield, counts, threads
<1>6. CASE Cancel
  BY <1>6, Uncharged DEF WInv, Cancel, counts, threads
<1>7. CASE Destroys
  BY <1>7, Uncharged DEF WInv, Destroys, counts, threads
<1>8. CASE UNCHANGED vars
  BY <1>8, Uncharged DEF WInv, vars, counts, threads
<1>. QED BY <1>1, <1>2, <1>3, <1>4, <1>5, <1>6, <1>7, <1>8, ThreadCharged, CallsCharged DEF Next, Caller

LEMMA InitWInv == Init => WInv
<1>. SUFFICES ASSUME Init PROVE Charged
  BY InitIInv DEF WInv
<1>1. Total(claimed, Workers) = 0
  <2>1. \A w \in Workers : claimed[w] = 0
    BY DEF Init
  <2>. QED BY <2>1, WorkersFinite, TotalZero
<1>. QED BY <1>1 DEF Init, Charged

\* An epoch never hands out more work than it was given: what is left and what
\* all the threads hold is within the grant, however many threads return what
\* they did not use while others claim, and remaining_work never wraps below
\* zero (parallel_decision_session.cpp, worker_epoch).
THEOREM WithinGrant == Spec => []WorkWithinGrant
<1>1. WInv => WorkWithinGrant
  BY SumOfClaims DEF WInv, IInv, Typed, TypeOK, Charged, WorkWithinGrant
<1>2. Spec => []WInv
  BY InitWInv, NextWInv, PTL DEF Spec
<1>. QED BY <1>1, <1>2, PTL

-----------------------------------------------------------------------------
\* The frontier. Regions get their numbers in order and a region is donated by one
\* with a smaller number; a thread that holds a region holds it alone; and while
\* the search is not decided its root is open and a region that waits, waits for a
\* region that is open. The open region with the greatest number then waits for
\* none.
Tree ==
    /\ region[1] # "absent"
    /\ \A a, b \in Regions : region[a] = "absent" /\ a < b => region[b] = "absent"
    /\ \A c \in Regions : parent[c] # None => parent[c] < c
Holders ==
    /\ \A w \in Workers : Held(w) => region[held[w]] = "held"
    /\ \A v, w \in Workers : Held(v) /\ held[v] = held[w] => v = w
Waited ==
    Unresolved => /\ region[1] # "closed"
                  /\ \A r \in Regions : region[r] = "waiting" => OpenChildren(r) # {}
Frontier == Tree /\ Holders /\ Waited

FInv == IInv /\ Frontier

LEMMA RegionsFinite ==
    /\ Regions \subseteq Int /\ Regions \subseteq Nat /\ IsFiniteSet(Regions) /\ 1 \in Regions
    /\ \A S \in SUBSET Regions : IsFiniteSet(S)
<1>1. IsFiniteSet(Regions)
  BY PoolAssumption, FS_Interval DEF Regions
<1>2. 1 \in Regions /\ Regions \subseteq Nat /\ Regions \subseteq Int
  BY PoolAssumption DEF Regions
<1>3. \A S \in SUBSET Regions : IsFiniteSet(S)
  BY <1>1, FS_Subset
<1>. QED BY <1>1, <1>2, <1>3

\* FailsWith(r) is what the recursion says it is: r, and with it every region that
\* waits for none that stays open.
LEMMA FailsWithIs ==
    ASSUME IInv, Tree, NEW r \in Regions, region[r] # "waiting"
    PROVE  /\ FailsWith(r) \in SUBSET Regions /\ r \in FailsWith(r)
           /\ \A x \in FailsWith(r) : x = r \/ region[x] = "waiting"
           /\ \A x \in Regions \ FailsWith(r) :
                 region[x] = "waiting" => \E c \in OpenChildren(x) : c \notin FailsWith(r)
<1>. DEFINE D == [x \in Regions |-> [g \in [Regions -> BOOLEAN] |->
                    \/ x = r
                    \/ region[x] = "waiting" /\ \A c \in OpenChildren(x) : g[c]]]
            rank == [x \in Regions |-> MaxRegions - x]
            Solution(f) == f = [x \in Regions |->
                    \/ x = r
                    \/ region[x] = "waiting" /\ \A c \in OpenChildren(x) : f[c]]
            fails == CHOOSE f : Solution(f)
<1>1. \A x \in Regions : \A g \in [Regions -> BOOLEAN] :
         D[x][g] = (\/ x = r
                    \/ region[x] = "waiting" /\ \A c \in OpenChildren(x) : g[c])
  OBVIOUS
<1>2. \A x \in Regions : \A c \in OpenChildren(x) :
         c \in Regions /\ rank[c] < rank[x]
  <2>. SUFFICES ASSUME NEW x \in Regions, NEW c \in OpenChildren(x)
                PROVE  c \in Regions /\ rank[c] < rank[x]
    OBVIOUS
  <2>1. c \in Regions /\ parent[c] = x /\ x # None
    BY NoneIsNoRegion DEF OpenChildren
  <2>2. x < c
    BY <2>1 DEF Tree
  <2>3. x \in Int /\ c \in Int /\ MaxRegions \in Int
    BY <2>1, RegionsFinite, PoolAssumption
  <2>. QED BY <2>1, <2>2, <2>3
<1>3. Ranked(Regions, BOOLEAN, rank, MaxRegions, D)
  <2>1. \A x \in Regions : rank[x] \in 0 .. MaxRegions
    BY PoolAssumption DEF Regions
  <2>2. \A x \in Regions : \A g \in [Regions -> BOOLEAN] : D[x][g] \in BOOLEAN
    BY <1>1
  <2>3. ASSUME NEW x \in Regions, NEW g \in [Regions -> BOOLEAN], NEW h \in [Regions -> BOOLEAN],
               \A y \in Regions : rank[y] < rank[x] => g[y] = h[y]
        PROVE  D[x][g] = D[x][h]
    <3>1. \A c \in OpenChildren(x) : g[c] = h[c]
      BY <1>2, <2>3
    <3>2. (\A c \in OpenChildren(x) : g[c]) <=> (\A c \in OpenChildren(x) : h[c])
      BY <3>1
    <3>. HIDE DEF D, rank
    <3>. QED BY ZenonT(60), <1>1, <3>2
  <2>. HIDE DEF D, rank
  <2>. QED BY <2>1, <2>2, <2>3 DEF Ranked
<1>4. \E f \in [Regions -> BOOLEAN] : \A x \in Regions : f[x] = D[x][f]
  <2>1. MaxRegions \in Nat /\ BOOLEAN # {}
    BY PoolAssumption
  <2>. HIDE DEF D, rank
  <2>. QED BY <1>3, <2>1, RankedRecursion
<1>5. \E f : Solution(f)
  <2>1. PICK f \in [Regions -> BOOLEAN] : \A x \in Regions : f[x] = D[x][f]
    BY <1>4
  <2>2. Solution(f)
    BY <1>1, <2>1
  <2>. QED BY <2>2
<1>6. Solution(fails)
  <2>. HIDE DEF Solution
  <2>. QED BY <1>5
<1>7. PICK f : Solution(f) /\ f = fails
  BY <1>6
<1>8. FailsWith(r) = {x \in Regions : f[x]}
  BY <1>7 DEF FailsWith
<1>9. \A x \in Regions : f[x] <=> \/ x = r
                                  \/ region[x] = "waiting" /\ \A c \in OpenChildren(x) : f[c]
  <2>. SUFFICES ASSUME NEW x \in Regions
                PROVE  f[x] <=> \/ x = r
                                \/ region[x] = "waiting" /\ \A c \in OpenChildren(x) : f[c]
    OBVIOUS
  <2>1. f[x] = (\/ x = r
                \/ region[x] = "waiting" /\ \A c \in OpenChildren(x) : f[c])
    BY <1>7, Zenon
  <2>. QED BY <2>1
<1>10. \A x \in Regions : OpenChildren(x) \subseteq Regions
  BY DEF OpenChildren
<1>. HIDE DEF Solution, fails, D, rank
<1>11. \A x \in Regions : x \in FailsWith(r) <=> f[x]
  BY <1>8
<1>12. FailsWith(r) \in SUBSET Regions /\ r \in FailsWith(r)
  BY <1>8, <1>9
<1>13. \A x \in FailsWith(r) : x = r \/ region[x] = "waiting"
  BY <1>9, <1>11, <1>12
<1>14. ASSUME NEW x \in Regions \ FailsWith(r), region[x] = "waiting"
       PROVE  \E c \in OpenChildren(x) : c \notin FailsWith(r)
  BY <1>9, <1>10, <1>11, <1>14
<1>. QED BY <1>12, <1>13, <1>14


LEMMA Unmoved ==
    ASSUME Frontier, UNCHANGED <<region, parent, held>>, Unresolved' => Unresolved
    PROVE  Frontier'
BY DEF Frontier, Tree, Holders, Waited, Held, OpenChildren

\* A region changes its state and stays open: what waited for it still does.
LEMMA Reopened ==
    ASSUME FInv, NEW r \in Regions, region[r] = "ready" \/ region[r] = "held",
           NEW state \in {"ready", "held", "waiting"},
           region' = [region EXCEPT ![r] = state], parent' = parent, status' = status,
           state = "waiting" => OpenChildren(r) # {}
    PROVE  Tree' /\ Waited'
<1>1. region \in [Regions -> {"absent", "ready", "held", "waiting", "closed"}] /\ 1 \in Regions
  BY RegionsFinite DEF FInv, IInv, Typed, TypeOK
<1>2. Tree'
  BY <1>1 DEF FInv, Frontier, Tree
<1>3. \A x \in Regions : OpenChildren(x)' = OpenChildren(x)
  BY <1>1 DEF OpenChildren
<1>4. Waited'
  BY <1>1, <1>3 DEF FInv, Frontier, Waited, Unresolved
<1>. QED BY <1>2, <1>4

\* The thread w no longer holds r, and the others hold what they held.
LEMMA LetGo ==
    ASSUME FInv, NEW w \in Workers, held' = [held EXCEPT ![w] = None],
           \A x \in Regions : region[x] = "held" /\ x # held[w] => region'[x] = "held"
    PROVE  Holders'
<1>1. held \in [Workers -> Regions \cup {None}]
  BY DEF FInv, IInv, Typed, TypeOK
<1>2. \A v \in Workers : Held(v)' => v # w /\ Held(v) /\ held'[v] = held[v]
  BY <1>1 DEF Held
<1>3. \A v \in Workers : Held(v)' => held[v] # held[w] /\ held[v] \in Regions
  BY <1>1, <1>2 DEF FInv, Frontier, Holders, Held
<1>4. \A v \in Workers : Held(v)' => region'[held'[v]] = "held"
  BY <1>2, <1>3 DEF FInv, Frontier, Holders
<1>5. ASSUME NEW u \in Workers, NEW v \in Workers, Held(u)', held'[u] = held'[v] PROVE u = v
  <2>1. Held(u) /\ held'[u] = held[u] /\ held'[u] # None
    BY <1>2, <1>5 DEF Held
  <2>2. Held(v)'
    BY <1>5, <2>1 DEF Held
  <2>3. held'[v] = held[v]
    BY <1>2, <2>2
  <2>. QED BY <1>5, <2>1, <2>3 DEF FInv, Frontier, Holders
<1>. QED BY <1>4, <1>5 DEF Holders

LEMMA PopsFrontier == ASSUME FInv, NEW w \in Workers, Pops(w) PROVE Frontier'
<1>1. CASE Ready = {} /\ Goes(w, "empty") /\ UNCHANGED <<region, held>>
  BY <1>1, Unmoved DEF FInv, Pops, Unresolved
<1>2. ASSUME NEW r \in Ready, region' = [region EXCEPT ![r] = "held"], held' = [held EXCEPT ![w] = r]
      PROVE  Frontier'
  <2>1. r \in Regions /\ region[r] = "ready" /\ r # None
    BY NoneIsNoRegion DEF Ready
  <2>2. parent' = parent /\ status' = status
    BY DEF Pops
  <2>3. Tree' /\ Waited'
    BY <1>2, <2>1, <2>2, Reopened
  <2>4. /\ held \in [Workers -> Regions \cup {None}]
        /\ region \in [Regions -> {"absent", "ready", "held", "waiting", "closed"}]
    BY DEF FInv, IInv, Typed, TypeOK
  <2>5. \A v \in Workers : v # w => held'[v] = held[v] /\ (Held(v) => held[v] # r)
    BY <1>2, <2>1, <2>4 DEF FInv, Frontier, Holders
  <2>6. held'[w] = r
    BY <1>2, <2>4
  <2>7. \A v \in Workers : Held(v)' => region'[held'[v]] = "held"
    BY <1>2, <2>1, <2>4, <2>5, <2>6 DEF FInv, Frontier, Holders, Held
  <2>8. \A u, v \in Workers : Held(u)' /\ held'[u] = held'[v] => u = v
    BY <2>1, <2>5, <2>6 DEF FInv, Frontier, Holders, Held
  <2>. QED BY <2>3, <2>7, <2>8 DEF Frontier, Holders
<1>. QED BY <1>1, <1>2 DEF Pops

LEMMA FindsNoWorkFrontier == ASSUME FInv, NEW w \in Workers, FindsNoWork(w) PROVE Frontier'
<1>1. held[w] \in Regions /\ region[held[w]] = "held"
  BY DEF FInv, IInv, Typed, TypeOK, OnItsWay, Held, Frontier, Holders, FindsNoWork, At
<1>2. region' = [region EXCEPT ![held[w]] = "ready"] /\ held' = [held EXCEPT ![w] = None]
      /\ parent' = parent /\ status' = status
  BY DEF FindsNoWork, Requeue
<1>3. Tree' /\ Waited'
  BY <1>1, <1>2, Reopened
<1>4. \A x \in Regions : region[x] = "held" /\ x # held[w] => region'[x] = "held"
  BY <1>2 DEF FInv, IInv, Typed, TypeOK
<1>. QED BY <1>2, <1>3, <1>4, LetGo DEF Frontier

LEMMA ThrowsFrontier == ASSUME FInv, NEW w \in Workers, Throws(w) PROVE Frontier'
<1>1. held' = [held EXCEPT ![w] = None] /\ UNCHANGED forest
  BY DEF Throws
<1>2. Holders'
  BY <1>1, LetGo DEF forest
<1>3. Tree' /\ Waited'
  BY <1>1 DEF FInv, Frontier, Tree, Waited, Unresolved, OpenChildren, forest
<1>. QED BY <1>2, <1>3 DEF Frontier

LEMMA DonatesFrontier ==
    ASSUME FInv, NEW r \in Regions, region[r] = "held", Donates(r)
    PROVE  /\ Tree' /\ Waited'
           /\ \A x \in Regions : region[x] = "held" /\ x # r => region'[x] = "held"
<1>. DEFINE absent == {c \in Regions : region[c] = "absent"}
            child == Min(absent)
<1>1. child \in absent /\ \A c \in absent : child <= c
  <2>1. absent \in SUBSET Int /\ IsFiniteSet(absent) /\ absent # {}
    BY RegionsFinite DEF Donates
  <2>. HIDE DEF absent
  <2>. QED BY <2>1, MinIs
<1>2. PICK c \in Regions, rest \in {"ready", "waiting"} :
         /\ region[c] = "absent" /\ \A b \in Regions : region[b] = "absent" => c <= b
         /\ parent' = [parent EXCEPT ![c] = r]
         /\ region' = [region EXCEPT ![c] = "ready", ![r] = rest]
         /\ status' = status
  BY <1>1 DEF Donates
<1>3. /\ region \in [Regions -> {"absent", "ready", "held", "waiting", "closed"}] /\ 1 \in Regions
      /\ parent \in [Regions -> Regions \cup {None}] /\ Regions \subseteq Nat
  BY RegionsFinite DEF FInv, IInv, Typed, TypeOK
<1>4. c # r /\ c # 1 /\ r < c
  BY <1>2, <1>3 DEF FInv, Frontier, Tree
<1>5. /\ region'[c] = "ready" /\ region'[r] = rest /\ parent'[c] = r
      /\ \A x \in Regions : x # c => parent'[x] = parent[x]
      /\ \A x \in Regions : x # c /\ x # r => region'[x] = region[x]
  BY <1>2, <1>3, <1>4
<1>6. Tree'
  <2>1. region'[1] # "absent"
    BY <1>2, <1>3, <1>4, <1>5 DEF FInv, Frontier, Tree
  <2>2. ASSUME NEW a \in Regions, NEW b \in Regions, region'[a] = "absent", a < b
        PROVE  region'[b] = "absent"
    <3>1. region[a] = "absent" /\ a # c
      BY <1>2, <1>5, <2>2
    <3>2. region[b] = "absent"
      BY <2>2, <3>1 DEF FInv, Frontier, Tree
    <3>3. c <= a
      BY <1>2, <3>1
    <3>4. b # c
      BY <1>3, <2>2, <3>3
    <3>5. b # r
      BY <3>2
    <3>. QED BY <1>5, <3>2, <3>4, <3>5
  <2>3. \A x \in Regions : parent'[x] # None => parent'[x] < x
    BY <1>4, <1>5 DEF FInv, Frontier, Tree
  <2>. QED BY <2>1, <2>2, <2>3 DEF Tree
<1>7. Waited'
  <2>1. ASSUME NEW x \in Regions, NEW k \in OpenChildren(x) PROVE k \in OpenChildren(x)'
    <3>1. k \in Regions /\ parent[k] = x /\ region[k] \notin {"absent", "closed"}
      BY <2>1 DEF OpenChildren
    <3>2. k # c
      BY <1>2, <3>1
    <3>3. parent'[k] = x /\ region'[k] \notin {"absent", "closed"}
      BY <1>2, <1>5, <3>1, <3>2
    <3>. QED BY <3>1, <3>3 DEF OpenChildren
  <2>2. c \in OpenChildren(r)'
    BY <1>5 DEF OpenChildren
  <2>3. ASSUME Unresolved', NEW x \in Regions, region'[x] = "waiting" PROVE OpenChildren(x)' # {}
    <3>1. CASE x = r
      BY <2>2, <3>1
    <3>2. CASE x # r
      <4>1. region[x] = "waiting"
        BY <1>5, <2>3, <3>2
      <4>2. OpenChildren(x) # {}
        BY <1>2, <2>3, <4>1 DEF FInv, Frontier, Waited, Unresolved
      <4>. QED BY <2>1, <4>2
    <3>. QED BY <3>1, <3>2
  <2>4. Unresolved' => region'[1] # "closed"
    BY <1>2, <1>3, <1>4, <1>5 DEF FInv, Frontier, Waited, Unresolved
  <2>. QED BY <2>3, <2>4 DEF Waited
<1>8. \A x \in Regions : region[x] = "held" /\ x # r => region'[x] = "held"
  BY <1>2, <1>5
<1>. QED BY <1>6, <1>7, <1>8

\* A set of regions is closed, of those that are not absent.
LEMMA ClosedTree ==
    ASSUME FInv, NEW F, \A x \in F : region[x] # "absent", parent' = parent,
           region' = [x \in Regions |-> IF x \in F THEN "closed" ELSE region[x]]
    PROVE  Tree'
BY RegionsFinite DEF FInv, Frontier, Tree

LEMMA FailsFrontier ==
    ASSUME FInv, NEW r \in Regions, region[r] = "held", Fails(r)
    PROVE  /\ Tree' /\ Waited'
           /\ \A x \in Regions : region[x] = "held" /\ x # r => region'[x] = "held"
<1>1. PICK F : /\ F = IF Unresolved THEN FailsWith(r) ELSE {r}
               /\ region' = [x \in Regions |-> IF x \in F THEN "closed" ELSE region[x]]
               /\ IF 1 \in F /\ Unresolved THEN status' = "infeasible" ELSE status' = status
               /\ parent' = parent
  BY DEF Fails
<1>2. /\ FailsWith(r) \in SUBSET Regions /\ r \in FailsWith(r)
      /\ \A x \in FailsWith(r) : x = r \/ region[x] = "waiting"
      /\ \A x \in Regions \ FailsWith(r) :
            region[x] = "waiting" => \E c \in OpenChildren(x) : c \notin FailsWith(r)
  BY FailsWithIs DEF FInv, Frontier
<1>3. /\ F \in SUBSET Regions /\ r \in F
      /\ \A x \in F : x = r \/ region[x] = "waiting"
  BY <1>1, <1>2
<1>4. Tree'
  BY <1>1, <1>3, ClosedTree
<1>5. Waited'
  <2>. SUFFICES ASSUME Unresolved'
                PROVE  region'[1] # "closed"
                       /\ \A x \in Regions : region'[x] = "waiting" => OpenChildren(x)' # {}
    BY DEF Waited
  <2>1. Unresolved /\ F = FailsWith(r) /\ 1 \notin F
    BY <1>1 DEF Unresolved
  <2>2. region'[1] # "closed"
    BY <1>1, <2>1, RegionsFinite DEF FInv, Frontier, Waited
  <2>3. ASSUME NEW x \in Regions, region'[x] = "waiting" PROVE OpenChildren(x)' # {}
    <3>1. x \notin F /\ region[x] = "waiting"
      BY <1>1, <2>3
    <3>2. PICK c \in OpenChildren(x) : c \notin F
      BY <1>2, <2>1, <3>1
    <3>3. c \in OpenChildren(x)'
      BY <1>1, <3>2 DEF OpenChildren
    <3>. QED BY <3>3
  <2>. QED BY <2>2, <2>3
<1>6. \A x \in Regions : region[x] = "held" /\ x # r => region'[x] = "held"
  BY <1>1, <1>3
<1>. QED BY <1>4, <1>5, <1>6

LEMMA FindsFrontier ==
    ASSUME FInv, NEW r \in Regions, region[r] = "held", Finds(r)
    PROVE  /\ Tree' /\ Waited'
           /\ \A x \in Regions : region[x] = "held" /\ x # r => region'[x] = "held"
<1>1. region \in [Regions -> {"absent", "ready", "held", "waiting", "closed"}]
  BY DEF FInv, IInv, Typed, TypeOK
<1>2. Tree'
  <2>1. PICK F : F = {r}
    OBVIOUS
  <2>2. region' = [x \in Regions |-> IF x \in F THEN "closed" ELSE region[x]] /\ parent' = parent
    BY <1>1, <2>1 DEF Finds
  <2>3. \A x \in F : region[x] # "absent"
    BY <2>1
  <2>. QED BY <2>2, <2>3, ClosedTree
<1>3. ~Unresolved'
  BY DEF Finds, Unresolved
<1>4. \A x \in Regions : region[x] = "held" /\ x # r => region'[x] = "held"
  BY <1>1 DEF Finds
<1>. QED BY <1>2, <1>3, <1>4 DEF Waited

LEMMA ServesFrontier == ASSUME FInv, NEW w \in Workers, Serves(w) PROVE Frontier'
<1>1. PICK r \in Regions : r = held[w] /\ region[r] = "held"
  BY DEF FInv, IInv, Typed, TypeOK, OnItsWay, Held, Frontier, Holders, Serves, At
<1>2. region \in [Regions -> {"absent", "ready", "held", "waiting", "closed"}]
  BY DEF FInv, IInv, Typed, TypeOK
<1>3. /\ Tree' /\ Waited'
      /\ \A x \in Regions : region[x] = "held" /\ x # r => region'[x] = "held"
  <2>1. CASE Yields(r)
    <3>1. region' = [region EXCEPT ![r] = "ready"] /\ parent' = parent /\ status' = status
      BY <2>1 DEF Yields
    <3>. QED BY <1>1, <1>2, <3>1, Reopened
  <2>2. CASE Waits(r)
    <3>1. region' = [region EXCEPT ![r] = "waiting"] /\ parent' = parent /\ status' = status
          /\ OpenChildren(r) # {}
      BY <2>2 DEF Waits
    <3>. QED BY <1>1, <1>2, <3>1, Reopened
  <2>3. CASE Donates(r)
    BY <1>1, <2>3, DonatesFrontier
  <2>4. CASE Fails(r)
    BY <1>1, <2>4, FailsFrontier
  <2>5. CASE Finds(r)
    BY <1>1, <2>5, FindsFrontier
  <2>. QED BY <1>1, <2>1, <2>2, <2>3, <2>4, <2>5 DEF Serves
<1>4. held' = [held EXCEPT ![w] = None]
  BY DEF Serves
<1>5. Holders'
  BY <1>1, <1>3, <1>4, LetGo
<1>. QED BY <1>3, <1>5 DEF Frontier

LEMMA ThreadFrontier == ASSUME FInv, NEW w \in Workers, Thread(w) PROVE Frontier'
<1>1. CASE Sleeps(w, "loop", LoopReady(w))
  BY <1>1, Unmoved DEF FInv, Sleeps, Unresolved, forest, threads
<1>2. CASE Sleeps(w, "gate", GateOpen)
  BY <1>2, Unmoved DEF FInv, Sleeps, Unresolved, forest, threads
<1>3. CASE Dozes(w, "round", RoundOver)
  BY <1>3, Unmoved DEF FInv, Dozes, Unresolved, forest, threads
<1>4. CASE Dozes(w, "idle", IdleOver)
  BY <1>4, Unmoved DEF FInv, Dozes, Unresolved, forest, threads
<1>5. CASE FallsAsleep(w)
  BY <1>5, Unmoved DEF FInv, FallsAsleep, Unresolved, forest, threads
<1>6. CASE TimesOut(w)
  BY <1>6, Unmoved DEF FInv, TimesOut, Unresolved, forest, threads
<1>7. CASE JoinsEpoch(w)
  BY <1>7, Unmoved DEF FInv, JoinsEpoch, Unresolved, forest, threads
<1>8. CASE Arrives(w)
  BY <1>8, Unmoved DEF FInv, Arrives, Unresolved, forest, threads
<1>9. CASE PassesGate(w)
  BY <1>9, Unmoved DEF FInv, PassesGate, Unresolved, forest, threads
<1>10. CASE PassesRound(w)
  BY <1>10, Unmoved DEF FInv, PassesRound, Unresolved, forest, threads
<1>11. CASE LooksOnce(w)
  BY <1>11, Unmoved DEF FInv, LooksOnce, Unresolved, forest, threads
<1>12. CASE LooksForOthers(w)
  BY <1>12, Unmoved DEF FInv, LooksForOthers, Unresolved, forest, threads
<1>13. CASE LeavesIdle(w)
  BY <1>13, Unmoved DEF FInv, LeavesIdle, Unresolved, forest, threads
<1>14. CASE TakesWork(w)
  BY <1>14, Unmoved DEF FInv, TakesWork, Unresolved, forest, threads
<1>15. CASE CountsFirstClaim(w)
  BY <1>15, Unmoved DEF FInv, CountsFirstClaim, Unresolved, forest, threads
<1>16. CASE Enters(w)
  BY <1>16, Unmoved DEF FInv, Enters, Unresolved, forest, threads
<1>17. CASE Releases(w)
  BY <1>17, Unmoved DEF FInv, Releases, Unresolved, forest, threads
<1>18. CASE Ends(w)
  BY <1>18, Unmoved DEF FInv, Ends, Unresolved, forest, threads
<1>19. CASE Pops(w)
  BY <1>19, PopsFrontier
<1>20. CASE FindsNoWork(w)
  BY <1>20, FindsNoWorkFrontier
<1>21. CASE Serves(w)
  BY <1>21, ServesFrontier
<1>22. CASE Throws(w)
  BY <1>22, ThrowsFrontier
<1>. QED BY <1>1, <1>2, <1>3, <1>4, <1>5, <1>6, <1>7, <1>8, <1>9, <1>10, <1>11, <1>12, <1>13, <1>14, <1>15, <1>16, <1>17, <1>18, <1>19, <1>20, <1>21, <1>22 DEF Thread

LEMMA NextFInv == FInv /\ [Next]_vars => FInv'
<1>. SUFFICES ASSUME FInv, [Next]_vars PROVE Frontier'
  BY NextIInv DEF FInv
<1>1. CASE Notifies
  BY <1>1, Unmoved DEF FInv, Notifies, Unresolved, forest, threads
<1>2. CASE Returns
  BY <1>2, Unmoved DEF FInv, Returns, Unresolved, forest, threads
<1>3. CASE Joins
  BY <1>3, Unmoved DEF FInv, Joins, Unresolved, forest, threads
<1>4. CASE DeadlinePasses
  BY <1>4, Unmoved DEF FInv, DeadlinePasses, Unresolved, forest, threads
<1>5. CASE RequestYield
  BY <1>5, Unmoved DEF FInv, RequestYield, Unresolved, forest, threads
<1>6. CASE Cancel
  BY <1>6, Unmoved DEF FInv, Cancel, Unresolved, forest, threads
<1>7. CASE Destroys
  BY <1>7, Unmoved DEF FInv, Destroys, Unresolved, forest, threads
<1>8. CASE UNCHANGED vars
  BY <1>8, Unmoved DEF FInv, vars, Unresolved, forest, threads
<1>9. ASSUME NEW q \in Quanta, Calls(q) PROVE Frontier'
  BY <1>9, Unmoved DEF FInv, Calls, Unresolved, forest, threads
<1>. QED BY <1>1, <1>2, <1>3, <1>4, <1>5, <1>6, <1>7, <1>8, <1>9, ThreadFrontier DEF Next, Caller

LEMMA InitFInv == Init => FInv
<1>. SUFFICES ASSUME Init PROVE Frontier
  BY InitIInv DEF FInv
<1>1. Holders
  BY DEF Init, Holders, Held
<1>2. Tree
  <2>1. \A a, b \in Regions : a < b => b # 1
    BY PoolAssumption DEF Regions
  <2>. QED BY <2>1, RegionsFinite DEF Init, Tree
<1>3. Waited
  BY RegionsFinite DEF Init, Waited
<1>. QED BY <1>1, <1>2, <1>3 DEF Frontier

\* The open region with the greatest number does not wait.
LEMMA LastRegionRuns == ASSUME FInv, Unresolved PROVE \E r \in Regions : region[r] \in {"ready", "held"}
<1>. DEFINE open == {r \in Regions : region[r] \notin {"absent", "closed"}}
<1>1. region \in [Regions -> {"absent", "ready", "held", "waiting", "closed"}]
  BY DEF FInv, IInv, Typed, TypeOK
<1>2. 1 \in open
  BY RegionsFinite DEF FInv, Frontier, Tree, Waited
<1>3. PICK m \in open : \A k \in open : k <= m
  <2>1. open \in SUBSET Int /\ IsFiniteSet(open) /\ open # {}
    BY <1>2, RegionsFinite
  <2>. HIDE DEF open
  <2>. QED BY <2>1, Extremes
<1>4. region[m] # "waiting"
  <2>. SUFFICES ASSUME region[m] = "waiting" PROVE FALSE
    OBVIOUS
  <2>1. PICK c \in OpenChildren(m) : TRUE
    BY DEF FInv, Frontier, Waited
  <2>2. c \in open /\ parent[c] = m /\ m # None
    BY NoneIsNoRegion DEF OpenChildren
  <2>3. m < c
    BY <2>2 DEF FInv, Frontier, Tree
  <2>. QED BY <1>3, <2>2, <2>3, RegionsFinite
<1>. QED BY <1>1, <1>4

\* A search that is not decided keeps a region to take, in the queue or held by a
\* thread (or left held by one that threw), whatever the services give back,
\* donate, close or fail up the tree: reconcile_quiescent_frontier never meets a
\* search that has nothing left and no answer (parallel_decision_session.cpp,
\* notify_failure).
THEOREM Remains == Spec => []WorkRemains
<1>1. FInv => WorkRemains
  BY LastRegionRuns DEF WorkRemains
<1>2. Spec => []FInv
  BY InitFInv, NextFInv, PTL DEF Spec
<1>. QED BY <1>1, <1>2, PTL
=============================================================================
