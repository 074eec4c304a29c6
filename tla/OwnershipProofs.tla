--------------------------- MODULE OwnershipProofs ---------------------------
(***************************************************************************)
(* Proofs about Ownership, for any number of workers, regions and keys: a  *)
(* key has one owner and no entry outlives its claim, the regions that wait *)
(* for one another never close a cycle, and no waiter is lost. For the last *)
(* the invariant WakeInv names, for every region whose root frame is not    *)
(* entered, the step that will look at it again (CaredBy), and what makes    *)
(* that step possible: the flag active belongs to one worker in service, a   *)
(* worker disposes of what it has in hand, and a region past its root frame  *)
(* never returns to it. With it, the types: the ready queue holds a region   *)
(* at most once (Queue).                                                     *)
(***************************************************************************)
EXTENDS Ownership, FiniteSetTheorems, FunctionTheorems, WellFoundedInduction, TLAPS

Places == {"top", "popped", "cas", "serve", "acquire", "search", "wake", "close", "settle",
           "rerun", "again", "free", "ready", "load", "push", "mark", "recheck"}

\* The variables the invariant speaks of have their types.
Typed ==
    /\ owner \in [Keys -> Regions \cup {None}] /\ waiters \in [Keys -> SUBSET Regions]
    /\ woken \subseteq Regions
    /\ phase \in [Regions -> {"absent", "root", "entered", "partial", "failed"}]
    /\ claimed \subseteq Regions /\ deferred \subseteq Regions /\ donated \subseteq Regions
    /\ children \in [Regions -> SUBSET Regions]
    /\ ready \in Seq(Regions)
    /\ pc \in [Workers -> Places] /\ back \in [Workers -> Places]
    /\ at \in [Workers -> Regions \cup {None}] /\ held \in [Workers -> Regions \cup {None}]
    /\ cursor \in [Workers -> Regions \cup {None}]
    /\ target \in [Workers -> Regions \cup {None}]
    /\ waking \in [Workers -> SUBSET Regions] /\ batch \in [Workers -> SUBSET Regions]

\* A worker at work on a region has one.
Placed ==
    \A w \in Workers :
        /\ pc[w] \in {"popped", "cas", "serve", "acquire", "search", "settle",
                     "rerun", "again"} => at[w] \in Regions
        /\ pc[w] \in {"wake", "load", "push", "mark", "recheck"} /\ back[w] = "settle" => at[w] \in Regions
        /\ pc[w] \in {"push", "mark", "recheck"} => target[w] \in Regions
        /\ pc[w] = "close" => cursor[w] \in Regions
        /\ pc[w] = "wake" /\ back[w] = "close" => cursor[w] \in Regions
        /\ pc[w] = "wake" => back[w] \in {"settle", "close"}
        /\ pc[w] \in {"load", "push", "mark", "recheck"} => back[w] \in {"settle", "ready", "free", "top"}

\* A worker in the middle of a service holds the mutex of its region alone.
MutexHeld ==
    /\ \A v, w \in Workers : held[v] = held[w] /\ held[v] # None => v = w
    /\ \A w \in Workers :
        /\ pc[w] = "acquire" => held[w] = at[w] /\ phase[at[w]] = "root"
        /\ pc[w] = "search" => held[w] = at[w] /\ phase[at[w]] = "entered"

\* The children a region waits for are regions it has donated.
Kids == \A r \in Regions : \A c \in children[r] : c # Root /\ Parent[c] = r

IInv == Typed /\ Placed /\ MutexHeld /\ Kids /\ ClaimsAgree

-----------------------------------------------------------------------------

LEMMA PopStep == ASSUME IInv, NEW w \in Workers, Pop(w) PROVE IInv'
<1>1. Typed'
  BY RegionsAssumption DEF IInv, Typed, Placed, Places, Pop, Goes, tableVars, regionVars,
     flagVars, enqVars
<1>2. Placed'
  BY RegionsAssumption DEF IInv, Typed, Placed, Places, Pop, Goes, tableVars, regionVars,
     flagVars, enqVars
<1>3. MutexHeld'
  BY RegionsAssumption DEF IInv, Typed, Placed, MutexHeld, Locked, Runnable, Pop, Goes,
     tableVars, regionVars, flagVars, enqVars
<1>4. Kids'
  BY RegionsAssumption DEF IInv, Typed, Kids, Placed, Pop, Goes, tableVars, regionVars,
     flagVars, enqVars
<1>5. ClaimsAgree'
  BY RegionsAssumption DEF IInv, Typed, Placed, MutexHeld, ClaimsAgree, Keys, Pop, Goes,
     tableVars, regionVars, flagVars, enqVars
<1> QED BY <1>1, <1>2, <1>3, <1>4, <1>5 DEF IInv

LEMMA UnmarkStep == ASSUME IInv, NEW w \in Workers, Unmark(w) PROVE IInv'
<1>1. Typed'
  BY RegionsAssumption DEF IInv, Typed, Placed, Places, Unmark, Goes, tableVars,
     regionVars, flagVars, enqVars
<1>2. Placed'
  BY RegionsAssumption DEF IInv, Typed, Placed, Places, Unmark, Goes, tableVars,
     regionVars, flagVars, enqVars
<1>3. MutexHeld'
  BY RegionsAssumption DEF IInv, Typed, Placed, MutexHeld, Locked, Runnable, Unmark, Goes,
     tableVars, regionVars, flagVars, enqVars
<1>4. Kids'
  BY RegionsAssumption DEF IInv, Typed, Kids, Placed, Unmark, Goes, tableVars, regionVars,
     flagVars, enqVars
<1>5. ClaimsAgree'
  BY RegionsAssumption DEF IInv, Typed, Placed, MutexHeld, ClaimsAgree, Keys, Unmark,
     Goes, tableVars, regionVars, flagVars, enqVars
<1> QED BY <1>1, <1>2, <1>3, <1>4, <1>5 DEF IInv

LEMMA ActivateStep == ASSUME IInv, NEW w \in Workers, Activate(w) PROVE IInv'
<1>1. Typed'
  BY SMTT(30), RegionsAssumption DEF IInv, Typed, Placed, Places, Activate, Goes, tableVars,
     regionVars, flagVars, enqVars
<1>2. Placed'
  BY RegionsAssumption DEF IInv, Typed, Placed, Places, Activate, Goes, tableVars,
     regionVars, flagVars, enqVars
<1>3. MutexHeld'
  BY RegionsAssumption DEF IInv, Typed, Placed, MutexHeld, Locked, Runnable, Activate,
     Goes, tableVars, regionVars, flagVars, enqVars
<1>4. Kids'
  BY RegionsAssumption DEF IInv, Typed, Kids, Placed, Activate, Goes, tableVars,
     regionVars, flagVars, enqVars
<1>5. ClaimsAgree'
  BY RegionsAssumption DEF IInv, Typed, Placed, MutexHeld, ClaimsAgree, Keys, Activate,
     Goes, tableVars, regionVars, flagVars, enqVars
<1> QED BY <1>1, <1>2, <1>3, <1>4, <1>5 DEF IInv

LEMMA ActivateFailsStep == ASSUME IInv, NEW w \in Workers, ActivateFails(w) PROVE IInv'
<1>1. Typed'
  BY RegionsAssumption DEF IInv, Typed, Placed, Places, ActivateFails, Goes, tableVars,
     regionVars, flagVars, enqVars
<1>2. Placed'
  BY RegionsAssumption DEF IInv, Typed, Placed, Places, ActivateFails, Goes, tableVars,
     regionVars, flagVars, enqVars
<1>3. MutexHeld'
  BY RegionsAssumption DEF IInv, Typed, Placed, MutexHeld, Locked, Runnable,
     ActivateFails, Goes, tableVars, regionVars, flagVars, enqVars
<1>4. Kids'
  BY RegionsAssumption DEF IInv, Typed, Kids, Placed, ActivateFails, Goes, tableVars,
     regionVars, flagVars, enqVars
<1>5. ClaimsAgree'
  BY RegionsAssumption DEF IInv, Typed, Placed, MutexHeld, ClaimsAgree, Keys,
     ActivateFails, Goes, tableVars, regionVars, flagVars, enqVars
<1> QED BY <1>1, <1>2, <1>3, <1>4, <1>5 DEF IInv

LEMMA ServeNothingStep == ASSUME IInv, NEW w \in Workers, ServeNothing(w) PROVE IInv'
<1>1. Typed'
  BY RegionsAssumption DEF IInv, Typed, Placed, Places, ServeNothing, Goes, Returns,
     tableVars, regionVars, flagVars, enqVars
<1>2. Placed'
  BY RegionsAssumption DEF IInv, Typed, Placed, Places, ServeNothing, Goes, Returns,
     tableVars, regionVars, flagVars, enqVars
<1>3. MutexHeld'
  BY RegionsAssumption DEF IInv, Typed, Placed, MutexHeld, Locked, Runnable, ServeNothing,
     Goes, Returns, tableVars, regionVars, flagVars, enqVars
<1>4. Kids'
  BY RegionsAssumption DEF IInv, Typed, Kids, Placed, ServeNothing, Goes, Returns,
     tableVars, regionVars, flagVars, enqVars
<1>5. ClaimsAgree'
  BY RegionsAssumption DEF IInv, Typed, Placed, MutexHeld, ClaimsAgree, Keys,
     ServeNothing, Goes, Returns, tableVars, regionVars, flagVars, enqVars
<1> QED BY <1>1, <1>2, <1>3, <1>4, <1>5 DEF IInv

LEMMA ServeProvedStep == ASSUME IInv, NEW w \in Workers, ServeProved(w) PROVE IInv'
<1>1. Typed'
  BY RegionsAssumption DEF IInv, Typed, Placed, Places, ServeProved, Goes, Returns,
     tableVars, regionVars, flagVars, enqVars
<1>2. Placed'
  BY RegionsAssumption DEF IInv, Typed, Placed, Places, ServeProved, Goes, Returns,
     tableVars, regionVars, flagVars, enqVars
<1>3. MutexHeld'
  BY RegionsAssumption DEF IInv, Typed, Placed, MutexHeld, Locked, Runnable, ServeProved,
     Goes, Returns, tableVars, regionVars, flagVars, enqVars
<1>4. Kids'
  BY RegionsAssumption DEF IInv, Typed, Kids, Placed, ServeProved, Goes, Returns,
     tableVars, regionVars, flagVars, enqVars
<1>5. ClaimsAgree'
  BY RegionsAssumption DEF IInv, Typed, Placed, MutexHeld, ClaimsAgree, Keys, ServeProved,
     Goes, Returns, tableVars, regionVars, flagVars, enqVars
<1> QED BY <1>1, <1>2, <1>3, <1>4, <1>5 DEF IInv

LEMMA MissesCacheStep == ASSUME IInv, NEW w \in Workers, MissesCache(w) PROVE IInv'
<1>1. Typed'
  BY RegionsAssumption DEF IInv, Typed, Placed, Places, MissesCache, Goes, tableVars,
     regionVars, flagVars, enqVars
<1>2. Placed'
  BY RegionsAssumption DEF IInv, Typed, Placed, Places, MissesCache, Goes, tableVars,
     regionVars, flagVars, enqVars
<1>3. MutexHeld'
  BY RegionsAssumption DEF IInv, Typed, Placed, MutexHeld, Locked, Runnable, MissesCache,
     Goes, tableVars, regionVars, flagVars, enqVars
<1>4. Kids'
  BY RegionsAssumption DEF IInv, Typed, Kids, Placed, MissesCache, Goes, tableVars,
     regionVars, flagVars, enqVars
<1>5. ClaimsAgree'
  BY RegionsAssumption DEF IInv, Typed, Placed, MutexHeld, ClaimsAgree, Keys, MissesCache,
     Goes, tableVars, regionVars, flagVars, enqVars
<1> QED BY <1>1, <1>2, <1>3, <1>4, <1>5 DEF IInv

LEMMA AcquireParksStep == ASSUME IInv, NEW w \in Workers, AcquireParks(w) PROVE IInv'
<1>1. Typed'
  <2>1. at[w] \in Regions /\ Key[at[w]] \in Keys
    BY DEF IInv, Placed, AcquireParks, Keys
  <2>2. owner' \in [Keys -> Regions \cup {None}]
    BY <2>1 DEF IInv, Typed, Places, AcquireParks, Goes, Returns, tableVars, regionVars,
       flagVars, enqVars
  <2>3. waiters' \in [Keys -> SUBSET Regions]
    BY <2>1 DEF IInv, Typed, Places, AcquireParks, Goes, Returns, tableVars, regionVars,
       flagVars, enqVars
  <2>4. woken' \subseteq Regions
    BY <2>1 DEF IInv, Typed, Places, AcquireParks, Goes, Returns, tableVars, regionVars,
       flagVars, enqVars
  <2>5. phase' \in [Regions -> {"absent", "root", "entered", "partial", "failed"}]
    BY <2>1 DEF IInv, Typed, Places, AcquireParks, Goes, Returns, tableVars, regionVars,
       flagVars, enqVars
  <2>6. claimed' \subseteq Regions /\ deferred' \subseteq Regions /\ donated' \subseteq Regions
    BY <2>1 DEF IInv, Typed, Places, AcquireParks, Goes, Returns, tableVars, regionVars,
       flagVars, enqVars
  <2>7. children' \in [Regions -> SUBSET Regions]
    BY <2>1 DEF IInv, Typed, Places, AcquireParks, Goes, Returns, tableVars, regionVars,
       flagVars, enqVars
  <2>8. ready' \in Seq(Regions)
    BY <2>1 DEF IInv, Typed, Places, AcquireParks, Goes, Returns, tableVars, regionVars,
       flagVars, enqVars
  <2>9. pc' \in [Workers -> Places]
    BY <2>1 DEF IInv, Typed, Places, AcquireParks, Goes, Returns, tableVars, regionVars,
       flagVars, enqVars
  <2>10. back' \in [Workers -> Places]
    BY <2>1 DEF IInv, Typed, Places, AcquireParks, Goes, Returns, tableVars, regionVars,
       flagVars, enqVars
  <2>11. at' \in [Workers -> Regions \cup {None}]
    BY <2>1 DEF IInv, Typed, Places, AcquireParks, Goes, Returns, tableVars, regionVars,
       flagVars, enqVars
  <2>12. held' \in [Workers -> Regions \cup {None}]
    BY <2>1 DEF IInv, Typed, Places, AcquireParks, Goes, Returns, tableVars, regionVars,
       flagVars, enqVars
  <2>13. cursor' \in [Workers -> Regions \cup {None}]
    BY <2>1 DEF IInv, Typed, Places, AcquireParks, Goes, Returns, tableVars, regionVars,
       flagVars, enqVars
  <2>14. target' \in [Workers -> Regions \cup {None}]
    BY <2>1 DEF IInv, Typed, Places, AcquireParks, Goes, Returns, tableVars, regionVars,
       flagVars, enqVars
  <2>15. waking' \in [Workers -> SUBSET Regions]
    BY <2>1 DEF IInv, Typed, Places, AcquireParks, Goes, Returns, tableVars, regionVars,
       flagVars, enqVars
  <2>16. batch' \in [Workers -> SUBSET Regions]
    BY <2>1 DEF IInv, Typed, Places, AcquireParks, Goes, Returns, tableVars, regionVars,
       flagVars, enqVars
  <2> QED BY <2>2, <2>3, <2>4, <2>5, <2>6, <2>7, <2>8, <2>9, <2>10, <2>11, <2>12, <2>13, <2>14, <2>15, <2>16 DEF Typed
<1>2. Placed'
  BY RegionsAssumption DEF IInv, Typed, Placed, Places, AcquireParks, Goes, Returns,
     Duplicate, tableVars, regionVars, flagVars, enqVars
<1>3. MutexHeld'
  BY RegionsAssumption DEF IInv, Typed, Placed, MutexHeld, Locked, Runnable, AcquireParks,
     Goes, Returns, Duplicate, tableVars, regionVars, flagVars, enqVars
<1>4. Kids'
  BY RegionsAssumption DEF IInv, Typed, Kids, Placed, AcquireParks, Goes, Returns,
     Duplicate, tableVars, regionVars, flagVars, enqVars
<1>5. ClaimsAgree'
  BY RegionsAssumption DEF IInv, Typed, Placed, MutexHeld, ClaimsAgree, Keys,
     AcquireParks, Goes, Returns, Duplicate, tableVars, regionVars, flagVars, enqVars
<1> QED BY <1>1, <1>2, <1>3, <1>4, <1>5 DEF IInv

LEMMA AcquireOwnsStep == ASSUME IInv, NEW w \in Workers, AcquireOwns(w) PROVE IInv'
<1>1. Typed'
  <2>1. at[w] \in Regions /\ Key[at[w]] \in Keys
    BY DEF IInv, Placed, AcquireOwns, Keys
  <2>2. owner' \in [Keys -> Regions \cup {None}]
    BY <2>1 DEF IInv, Typed, Places, AcquireOwns, Goes, Enters, tableVars, regionVars,
       flagVars, enqVars
  <2>3. waiters' \in [Keys -> SUBSET Regions]
    BY <2>1 DEF IInv, Typed, Places, AcquireOwns, Goes, Enters, tableVars, regionVars,
       flagVars, enqVars
  <2>4. woken' \subseteq Regions
    BY <2>1 DEF IInv, Typed, Places, AcquireOwns, Goes, Enters, tableVars, regionVars,
       flagVars, enqVars
  <2>5. phase' \in [Regions -> {"absent", "root", "entered", "partial", "failed"}]
    BY <2>1 DEF IInv, Typed, Places, AcquireOwns, Goes, Enters, tableVars, regionVars,
       flagVars, enqVars
  <2>6. claimed' \subseteq Regions /\ deferred' \subseteq Regions /\ donated' \subseteq Regions
    BY <2>1 DEF IInv, Typed, Places, AcquireOwns, Goes, Enters, tableVars, regionVars,
       flagVars, enqVars
  <2>7. children' \in [Regions -> SUBSET Regions]
    BY <2>1 DEF IInv, Typed, Places, AcquireOwns, Goes, Enters, tableVars, regionVars,
       flagVars, enqVars
  <2>8. ready' \in Seq(Regions)
    BY <2>1 DEF IInv, Typed, Places, AcquireOwns, Goes, Enters, tableVars, regionVars,
       flagVars, enqVars
  <2>9. pc' \in [Workers -> Places]
    BY <2>1 DEF IInv, Typed, Places, AcquireOwns, Goes, Enters, tableVars, regionVars,
       flagVars, enqVars
  <2>10. back' \in [Workers -> Places]
    BY <2>1 DEF IInv, Typed, Places, AcquireOwns, Goes, Enters, tableVars, regionVars,
       flagVars, enqVars
  <2>11. at' \in [Workers -> Regions \cup {None}]
    BY <2>1 DEF IInv, Typed, Places, AcquireOwns, Goes, Enters, tableVars, regionVars,
       flagVars, enqVars
  <2>12. held' \in [Workers -> Regions \cup {None}]
    BY <2>1 DEF IInv, Typed, Places, AcquireOwns, Goes, Enters, tableVars, regionVars,
       flagVars, enqVars
  <2>13. cursor' \in [Workers -> Regions \cup {None}]
    BY <2>1 DEF IInv, Typed, Places, AcquireOwns, Goes, Enters, tableVars, regionVars,
       flagVars, enqVars
  <2>14. target' \in [Workers -> Regions \cup {None}]
    BY <2>1 DEF IInv, Typed, Places, AcquireOwns, Goes, Enters, tableVars, regionVars,
       flagVars, enqVars
  <2>15. waking' \in [Workers -> SUBSET Regions]
    BY <2>1 DEF IInv, Typed, Places, AcquireOwns, Goes, Enters, tableVars, regionVars,
       flagVars, enqVars
  <2>16. batch' \in [Workers -> SUBSET Regions]
    BY <2>1 DEF IInv, Typed, Places, AcquireOwns, Goes, Enters, tableVars, regionVars,
       flagVars, enqVars
  <2> QED BY <2>2, <2>3, <2>4, <2>5, <2>6, <2>7, <2>8, <2>9, <2>10, <2>11, <2>12, <2>13, <2>14, <2>15, <2>16 DEF Typed
<1>2. Placed'
  BY RegionsAssumption DEF IInv, Typed, Placed, Places, AcquireOwns, Goes, Enters,
     Duplicate, Saturated, tableVars, regionVars, flagVars, enqVars
<1>3. MutexHeld'
  BY RegionsAssumption DEF IInv, Typed, Placed, MutexHeld, Locked, Runnable, AcquireOwns,
     Goes, Enters, Duplicate, Saturated, tableVars, regionVars, flagVars, enqVars
<1>4. Kids'
  BY RegionsAssumption DEF IInv, Typed, Kids, Placed, AcquireOwns, Goes, Enters,
     Duplicate, Saturated, tableVars, regionVars, flagVars, enqVars
<1>5. ClaimsAgree'
  <2>1. at[w] \in Regions /\ phase[at[w]] = "root"
    BY DEF IInv, Placed, MutexHeld, AcquireOwns
  <2>2. at[w] \notin claimed \cup deferred
    BY <2>1 DEF IInv, ClaimsAgree
  <2>3. owner[Key[at[w]]] = None
    BY <2>1, <2>2 DEF IInv, ClaimsAgree, AcquireOwns, Duplicate, Keys
  <2>4. /\ owner' = [owner EXCEPT ![Key[at[w]]] = at[w]]
        /\ claimed' = claimed \cup {at[w]} /\ deferred' = deferred /\ donated' = donated
        /\ phase' = [phase EXCEPT ![at[w]] = "entered"]
    BY DEF AcquireOwns, Enters
  <2>5. \A k \in Keys : owner'[k] # None => owner'[k] \in claimed' \cup deferred' /\ Key[owner'[k]] = k
    BY <2>1, <2>4 DEF IInv, Typed, ClaimsAgree
  <2>6. \A r \in claimed' \cup deferred' : owner'[Key[r]] = r
    BY <2>1, <2>3, <2>4, RegionsAssumption DEF IInv, Typed, ClaimsAgree, Keys
  <2>7. \A r \in claimed' : phase'[r] = "entered"
    BY <2>1, <2>4 DEF IInv, Typed, ClaimsAgree
  <2>8. \A r \in deferred' : phase'[r] \in {"partial", "failed"} /\ r \in donated'
    BY <2>1, <2>2, <2>4 DEF IInv, Typed, ClaimsAgree
  <2> QED BY <2>5, <2>6, <2>7, <2>8 DEF ClaimsAgree
<1> QED BY <1>1, <1>2, <1>3, <1>4, <1>5 DEF IInv

LEMMA AcquireSaturatedStep == ASSUME IInv, NEW w \in Workers, AcquireSaturated(w) PROVE IInv'
<1>1. Typed'
  BY RegionsAssumption DEF IInv, Typed, Placed, Places, AcquireSaturated, Goes, Enters,
     tableVars, regionVars, flagVars, enqVars
<1>2. Placed'
  BY RegionsAssumption DEF IInv, Typed, Placed, Places, AcquireSaturated, Goes, Enters,
     tableVars, regionVars, flagVars, enqVars
<1>3. MutexHeld'
  BY RegionsAssumption DEF IInv, Typed, Placed, MutexHeld, Locked, Runnable,
     AcquireSaturated, Goes, Enters, tableVars, regionVars, flagVars, enqVars
<1>4. Kids'
  BY RegionsAssumption DEF IInv, Typed, Kids, Placed, AcquireSaturated, Goes, Enters,
     tableVars, regionVars, flagVars, enqVars
<1>5. ClaimsAgree'
  BY RegionsAssumption DEF IInv, Typed, Placed, MutexHeld, ClaimsAgree, Keys,
     AcquireSaturated, Goes, Enters, tableVars, regionVars, flagVars, enqVars
<1> QED BY <1>1, <1>2, <1>3, <1>4, <1>5 DEF IInv

LEMMA SearchYieldsStep == ASSUME IInv, NEW w \in Workers, SearchYields(w) PROVE IInv'
<1>1. Typed'
  BY RegionsAssumption DEF IInv, Typed, Placed, Places, SearchYields, Goes, Returns,
     tableVars, regionVars, flagVars, enqVars
<1>2. Placed'
  BY RegionsAssumption DEF IInv, Typed, Placed, Places, SearchYields, Goes, Returns,
     tableVars, regionVars, flagVars, enqVars
<1>3. MutexHeld'
  BY RegionsAssumption DEF IInv, Typed, Placed, MutexHeld, Locked, Runnable, SearchYields,
     Goes, Returns, tableVars, regionVars, flagVars, enqVars
<1>4. Kids'
  BY RegionsAssumption DEF IInv, Typed, Kids, Placed, SearchYields, Goes, Returns,
     tableVars, regionVars, flagVars, enqVars
<1>5. ClaimsAgree'
  BY RegionsAssumption DEF IInv, Typed, Placed, MutexHeld, ClaimsAgree, Keys,
     SearchYields, Goes, Returns, tableVars, regionVars, flagVars, enqVars
<1> QED BY <1>1, <1>2, <1>3, <1>4, <1>5 DEF IInv

LEMMA SearchDonatesStep == ASSUME IInv, NEW w \in Workers, SearchDonates(w) PROVE IInv'
<1>1. Typed'
  BY RegionsAssumption DEF IInv, Typed, Placed, Places, SearchDonates, Goes, tableVars,
     regionVars, flagVars, enqVars
<1>2. Placed'
  BY RegionsAssumption DEF IInv, Typed, Placed, Places, SearchDonates, Goes, tableVars,
     regionVars, flagVars, enqVars
<1>3. MutexHeld'
  BY RegionsAssumption DEF IInv, Typed, Placed, MutexHeld, Locked, Runnable,
     SearchDonates, Goes, tableVars, regionVars, flagVars, enqVars
<1>4. Kids'
  BY RegionsAssumption DEF IInv, Typed, Kids, Placed, SearchDonates, Goes, tableVars,
     regionVars, flagVars, enqVars
<1>5. ClaimsAgree'
  BY RegionsAssumption DEF IInv, Typed, Placed, MutexHeld, ClaimsAgree, Keys,
     SearchDonates, Goes, tableVars, regionVars, flagVars, enqVars
<1> QED BY <1>1, <1>2, <1>3, <1>4, <1>5 DEF IInv

LEMMA SearchFinishesStep == ASSUME IInv, NEW w \in Workers, SearchFinishes(w) PROVE IInv'
<1>1. Typed'
  <2>1. at[w] \in Regions /\ Key[at[w]] \in Keys
    BY DEF IInv, Placed, SearchFinishes, Keys
  <2>2. owner' \in [Keys -> Regions \cup {None}]
    BY <2>1 DEF IInv, Typed, Places, SearchFinishes, Goes, Returns, Releases, Records,
       Erased, DefersClaim, FinishedPhase, tableVars, regionVars, flagVars, enqVars
  <2>3. waiters' \in [Keys -> SUBSET Regions]
    BY <2>1 DEF IInv, Typed, Places, SearchFinishes, Goes, Returns, Releases, Records,
       Erased, DefersClaim, FinishedPhase, tableVars, regionVars, flagVars, enqVars
  <2>4. woken' \subseteq Regions
    BY <2>1 DEF IInv, Typed, Places, SearchFinishes, Goes, Returns, Releases, Records,
       Erased, DefersClaim, FinishedPhase, tableVars, regionVars, flagVars, enqVars
  <2>5. phase' \in [Regions -> {"absent", "root", "entered", "partial", "failed"}]
    BY <2>1 DEF IInv, Typed, Places, SearchFinishes, Goes, Returns, Releases, Records,
       Erased, DefersClaim, FinishedPhase, tableVars, regionVars, flagVars, enqVars
  <2>6. claimed' \subseteq Regions /\ deferred' \subseteq Regions /\ donated' \subseteq Regions
    BY <2>1 DEF IInv, Typed, Places, SearchFinishes, Goes, Returns, Releases, Records,
       Erased, DefersClaim, FinishedPhase, tableVars, regionVars, flagVars, enqVars
  <2>7. children' \in [Regions -> SUBSET Regions]
    BY <2>1 DEF IInv, Typed, Places, SearchFinishes, Goes, Returns, Releases, Records,
       Erased, DefersClaim, FinishedPhase, tableVars, regionVars, flagVars, enqVars
  <2>8. ready' \in Seq(Regions)
    BY <2>1 DEF IInv, Typed, Places, SearchFinishes, Goes, Returns, Releases, Records,
       Erased, DefersClaim, FinishedPhase, tableVars, regionVars, flagVars, enqVars
  <2>9. pc' \in [Workers -> Places]
    <3>1. pc' = [pc EXCEPT ![w] = "settle"] \/ pc' = [pc EXCEPT ![w] = "wake"]
      BY DEF SearchFinishes, Returns, Releases, Goes
    <3> QED BY <3>1 DEF IInv, Typed, Places
  <2>10. back' \in [Workers -> Places]
    BY <2>1 DEF IInv, Typed, Places, SearchFinishes, Goes, Returns, Releases, Records,
       Erased, DefersClaim, FinishedPhase, tableVars, regionVars, flagVars, enqVars
  <2>11. at' \in [Workers -> Regions \cup {None}]
    BY <2>1 DEF IInv, Typed, Places, SearchFinishes, Goes, Returns, Releases, Records,
       Erased, DefersClaim, FinishedPhase, tableVars, regionVars, flagVars, enqVars
  <2>12. held' \in [Workers -> Regions \cup {None}]
    BY <2>1 DEF IInv, Typed, Places, SearchFinishes, Goes, Returns, Releases, Records,
       Erased, DefersClaim, FinishedPhase, tableVars, regionVars, flagVars, enqVars
  <2>13. cursor' \in [Workers -> Regions \cup {None}]
    BY <2>1 DEF IInv, Typed, Places, SearchFinishes, Goes, Returns, Releases, Records,
       Erased, DefersClaim, FinishedPhase, tableVars, regionVars, flagVars, enqVars
  <2>14. target' \in [Workers -> Regions \cup {None}]
    BY <2>1 DEF IInv, Typed, Places, SearchFinishes, Goes, Returns, Releases, Records,
       Erased, DefersClaim, FinishedPhase, tableVars, regionVars, flagVars, enqVars
  <2>15. waking' \in [Workers -> SUBSET Regions]
    BY <2>1 DEF IInv, Typed, Places, SearchFinishes, Goes, Returns, Releases, Records,
       Erased, DefersClaim, FinishedPhase, tableVars, regionVars, flagVars, enqVars
  <2>16. batch' \in [Workers -> SUBSET Regions]
    BY <2>1 DEF IInv, Typed, Places, SearchFinishes, Goes, Returns, Releases, Records,
       Erased, DefersClaim, FinishedPhase, tableVars, regionVars, flagVars, enqVars
  <2> QED BY <2>2, <2>3, <2>4, <2>5, <2>6, <2>7, <2>8, <2>9, <2>10, <2>11, <2>12, <2>13, <2>14, <2>15, <2>16 DEF Typed
<1>2. Placed'
  BY RegionsAssumption DEF IInv, Typed, Placed, Places, SearchFinishes, Goes, Returns,
     Releases, Records, Erased, DefersClaim, FinishedPhase, tableVars, regionVars,
     flagVars, enqVars
<1>3. MutexHeld'
  <2>1. /\ at[w] \in Regions /\ held[w] = at[w]
        /\ held' \in {held, [held EXCEPT ![w] = None]}
        /\ phase' = [phase EXCEPT ![at[w]] = FinishedPhase(at[w])] /\ at' = at
        /\ \A v \in Workers : pc'[v] \in {"acquire", "search"} => v # w /\ pc'[v] = pc[v]
    BY DEF IInv, Typed, Placed, MutexHeld, SearchFinishes, Returns, Releases, Goes
  <2>2. \A v \in Workers \ {w} : held[v] # at[w] /\ held'[v] = held[v]
    BY <2>1, RegionsAssumption DEF IInv, Typed, MutexHeld
  <2>3. \A u, v \in Workers : held'[u] = held'[v] /\ held'[u] # None => u = v
    BY <2>1, <2>2 DEF IInv, Typed, MutexHeld
  <2>4. \A v \in Workers : pc'[v] \in {"acquire", "search"} =>
            pc'[v] = pc[v] /\ held'[v] = held[v] /\ at[v] \in Regions /\ phase'[at[v]] = phase[at[v]]
    BY <2>1, <2>2 DEF IInv, Typed, Placed, MutexHeld
  <2> QED BY <2>1, <2>3, <2>4 DEF IInv, MutexHeld
<1>4. Kids'
  BY RegionsAssumption DEF IInv, Typed, Kids, Placed, SearchFinishes, Goes, Returns,
     Releases, Records, Erased, DefersClaim, FinishedPhase, tableVars, regionVars,
     flagVars, enqVars
<1>5. ClaimsAgree'
  <2> DEFINE r == at[w]
  <2>1. r \in Regions /\ Key[r] \in Keys /\ phase[r] = "entered" /\ r \notin deferred
    BY DEF IInv, Placed, MutexHeld, SearchFinishes, Keys, ClaimsAgree
  <2>2. /\ phase' = [phase EXCEPT ![r] = FinishedPhase(r)] /\ claimed' = claimed \ {r}
        /\ donated' = donated /\ phase'[r] \in {"partial", "failed"}
    BY <2>1 DEF SearchFinishes, FinishedPhase, IInv, Typed
  <2>3. CASE r \in claimed \ donated
    <3>1. owner' = [owner EXCEPT ![Key[r]] = None] /\ deferred' = deferred
      BY <2>3 DEF SearchFinishes, Releases, Erased
    <3>2. \A s \in claimed' \cup deferred' : Key[s] # Key[r]
      BY <2>1, <2>2, <2>3, <3>1 DEF IInv, ClaimsAgree
    <3> QED BY <2>1, <2>2, <3>1, <3>2 DEF IInv, Typed, ClaimsAgree, Keys
  <2>4. CASE r \in claimed /\ r \in donated
    <3>1. owner' = owner /\ deferred' = deferred \cup {r}
      BY <2>4 DEF SearchFinishes, DefersClaim
    <3> QED BY <2>1, <2>2, <2>4, <3>1 DEF IInv, Typed, ClaimsAgree
  <2>5. CASE r \notin claimed
    <3>1. owner' = owner /\ deferred' = deferred
      BY <2>5 DEF SearchFinishes
    <3> QED BY <2>1, <2>2, <2>5, <3>1 DEF IInv, Typed, ClaimsAgree
  <2> QED BY <2>3, <2>4, <2>5
<1> QED BY <1>1, <1>2, <1>3, <1>4, <1>5 DEF IInv

LEMMA WakesStep == ASSUME IInv, NEW w \in Workers, Wakes(w) PROVE IInv'
<1>1. Typed'
  BY RegionsAssumption DEF IInv, Typed, Placed, Places, Wakes, Goes, HandsOver, tableVars,
     regionVars, flagVars, enqVars
<1>2. Placed'
  BY RegionsAssumption DEF IInv, Typed, Placed, Places, Wakes, Goes, HandsOver, tableVars,
     regionVars, flagVars, enqVars
<1>3. MutexHeld'
  BY RegionsAssumption DEF IInv, Typed, Placed, MutexHeld, Locked, Runnable, Wakes, Goes,
     HandsOver, tableVars, regionVars, flagVars, enqVars
<1>4. Kids'
  BY RegionsAssumption DEF IInv, Typed, Kids, Placed, Wakes, Goes, HandsOver, tableVars,
     regionVars, flagVars, enqVars
<1>5. ClaimsAgree'
  BY RegionsAssumption DEF IInv, Typed, Placed, MutexHeld, ClaimsAgree, Keys, Wakes, Goes,
     HandsOver, tableVars, regionVars, flagVars, enqVars
<1> QED BY <1>1, <1>2, <1>3, <1>4, <1>5 DEF IInv

LEMMA GivesUpStep == ASSUME IInv, NEW w \in Workers, GivesUp(w) PROVE IInv'
<1>1. Typed'
  BY RegionsAssumption DEF IInv, Typed, Placed, Places, GivesUp, Goes, tableVars,
     regionVars, flagVars, enqVars
<1>2. Placed'
  BY RegionsAssumption DEF IInv, Typed, Placed, Places, GivesUp, Goes, tableVars,
     regionVars, flagVars, enqVars
<1>3. MutexHeld'
  BY RegionsAssumption DEF IInv, Typed, Placed, MutexHeld, Locked, Runnable, GivesUp,
     Goes, tableVars, regionVars, flagVars, enqVars
<1>4. Kids'
  BY RegionsAssumption DEF IInv, Typed, Kids, Placed, GivesUp, Goes, tableVars,
     regionVars, flagVars, enqVars
<1>5. ClaimsAgree'
  BY RegionsAssumption DEF IInv, Typed, Placed, MutexHeld, ClaimsAgree, Keys, GivesUp,
     Goes, tableVars, regionVars, flagVars, enqVars
<1> QED BY <1>1, <1>2, <1>3, <1>4, <1>5 DEF IInv

LEMMA ExchangesRerunStep == ASSUME IInv, NEW w \in Workers, ExchangesRerun(w) PROVE IInv'
<1>1. Typed'
  BY RegionsAssumption DEF IInv, Typed, Placed, Places, ExchangesRerun, Goes, tableVars,
     regionVars, flagVars, enqVars
<1>2. Placed'
  BY RegionsAssumption DEF IInv, Typed, Placed, Places, ExchangesRerun, Goes, tableVars,
     regionVars, flagVars, enqVars
<1>3. MutexHeld'
  BY RegionsAssumption DEF IInv, Typed, Placed, MutexHeld, Locked, Runnable,
     ExchangesRerun, Goes, tableVars, regionVars, flagVars, enqVars
<1>4. Kids'
  BY RegionsAssumption DEF IInv, Typed, Kids, Placed, ExchangesRerun, Goes, tableVars,
     regionVars, flagVars, enqVars
<1>5. ClaimsAgree'
  BY RegionsAssumption DEF IInv, Typed, Placed, MutexHeld, ClaimsAgree, Keys,
     ExchangesRerun, Goes, tableVars, regionVars, flagVars, enqVars
<1> QED BY <1>1, <1>2, <1>3, <1>4, <1>5 DEF IInv

LEMMA EnqueuesAgainStep == ASSUME IInv, NEW w \in Workers, EnqueuesAgain(w) PROVE IInv'
<1>1. Typed'
  <2>1. at[w] \in Regions
    BY DEF IInv, Placed, EnqueuesAgain
  <2>2. owner' \in [Keys -> Regions \cup {None}]
    BY <2>1 DEF IInv, Typed, Places, EnqueuesAgain, Goes, Runnable, tableVars,
       regionVars, flagVars, enqVars
  <2>3. waiters' \in [Keys -> SUBSET Regions]
    BY <2>1 DEF IInv, Typed, Places, EnqueuesAgain, Goes, Runnable, tableVars,
       regionVars, flagVars, enqVars
  <2>4. woken' \subseteq Regions
    BY <2>1 DEF IInv, Typed, Places, EnqueuesAgain, Goes, Runnable, tableVars,
       regionVars, flagVars, enqVars
  <2>5. phase' \in [Regions -> {"absent", "root", "entered", "partial", "failed"}]
    BY <2>1 DEF IInv, Typed, Places, EnqueuesAgain, Goes, Runnable, tableVars,
       regionVars, flagVars, enqVars
  <2>6. claimed' \subseteq Regions /\ deferred' \subseteq Regions /\ donated' \subseteq Regions
    BY <2>1 DEF IInv, Typed, Places, EnqueuesAgain, Goes, Runnable, tableVars,
       regionVars, flagVars, enqVars
  <2>7. children' \in [Regions -> SUBSET Regions]
    BY <2>1 DEF IInv, Typed, Places, EnqueuesAgain, Goes, Runnable, tableVars,
       regionVars, flagVars, enqVars
  <2>8. ready' \in Seq(Regions)
    BY <2>1 DEF IInv, Typed, Places, EnqueuesAgain, Goes, Runnable, tableVars,
       regionVars, flagVars, enqVars
  <2>9. pc' \in [Workers -> Places]
    BY SMTT(30), <2>1 DEF IInv, Typed, Places, EnqueuesAgain, Goes, Runnable, tableVars,
       regionVars, flagVars, enqVars
  <2>10. back' \in [Workers -> Places]
    BY <2>1 DEF IInv, Typed, Places, EnqueuesAgain, Goes, Runnable, tableVars,
       regionVars, flagVars, enqVars
  <2>11. at' \in [Workers -> Regions \cup {None}]
    BY <2>1 DEF IInv, Typed, Places, EnqueuesAgain, Goes, Runnable, tableVars,
       regionVars, flagVars, enqVars
  <2>12. held' \in [Workers -> Regions \cup {None}]
    BY <2>1 DEF IInv, Typed, Places, EnqueuesAgain, Goes, Runnable, tableVars,
       regionVars, flagVars, enqVars
  <2>13. cursor' \in [Workers -> Regions \cup {None}]
    BY <2>1 DEF IInv, Typed, Places, EnqueuesAgain, Goes, Runnable, tableVars,
       regionVars, flagVars, enqVars
  <2>14. target' \in [Workers -> Regions \cup {None}]
    BY <2>1 DEF IInv, Typed, Places, EnqueuesAgain, Goes, Runnable, tableVars,
       regionVars, flagVars, enqVars
  <2>15. waking' \in [Workers -> SUBSET Regions]
    BY <2>1 DEF IInv, Typed, Places, EnqueuesAgain, Goes, Runnable, tableVars,
       regionVars, flagVars, enqVars
  <2>16. batch' \in [Workers -> SUBSET Regions]
    BY <2>1 DEF IInv, Typed, Places, EnqueuesAgain, Goes, Runnable, tableVars,
       regionVars, flagVars, enqVars
  <2> QED BY <2>2, <2>3, <2>4, <2>5, <2>6, <2>7, <2>8, <2>9, <2>10, <2>11, <2>12, <2>13, <2>14, <2>15, <2>16 DEF Typed
<1>2. Placed'
  BY RegionsAssumption DEF IInv, Typed, Placed, Places, EnqueuesAgain, Goes, Runnable,
     tableVars, regionVars, flagVars, enqVars
<1>3. MutexHeld'
  BY RegionsAssumption DEF IInv, Typed, Placed, MutexHeld, Locked, Runnable,
     EnqueuesAgain, Goes, tableVars, regionVars, flagVars, enqVars
<1>4. Kids'
  BY RegionsAssumption DEF IInv, Typed, Kids, Placed, EnqueuesAgain, Goes, Runnable,
     tableVars, regionVars, flagVars, enqVars
<1>5. ClaimsAgree'
  BY RegionsAssumption DEF IInv, Typed, Placed, MutexHeld, ClaimsAgree, Keys,
     EnqueuesAgain, Goes, Runnable, tableVars, regionVars, flagVars, enqVars
<1> QED BY <1>1, <1>2, <1>3, <1>4, <1>5 DEF IInv

LEMMA ClosesStep == ASSUME IInv, NEW w \in Workers, Closes(w) PROVE IInv'
<1>1. Typed'
  <2>1. at[w] \in Regions
    BY DEF IInv, Placed, Closes
  <2>2. owner' \in [Keys -> Regions \cup {None}]
    BY <2>1 DEF IInv, Typed, Places, Closes, Goes, tableVars, regionVars, flagVars, enqVars
  <2>3. waiters' \in [Keys -> SUBSET Regions]
    BY <2>1 DEF IInv, Typed, Places, Closes, Goes, tableVars, regionVars, flagVars, enqVars
  <2>4. woken' \subseteq Regions
    BY <2>1 DEF IInv, Typed, Places, Closes, Goes, tableVars, regionVars, flagVars, enqVars
  <2>5. phase' \in [Regions -> {"absent", "root", "entered", "partial", "failed"}]
    BY <2>1 DEF IInv, Typed, Places, Closes, Goes, tableVars, regionVars, flagVars, enqVars
  <2>6. claimed' \subseteq Regions /\ deferred' \subseteq Regions /\ donated' \subseteq Regions
    BY <2>1 DEF IInv, Typed, Places, Closes, Goes, tableVars, regionVars, flagVars, enqVars
  <2>7. children' \in [Regions -> SUBSET Regions]
    BY <2>1 DEF IInv, Typed, Places, Closes, Goes, tableVars, regionVars, flagVars, enqVars
  <2>8. ready' \in Seq(Regions)
    BY <2>1 DEF IInv, Typed, Places, Closes, Goes, tableVars, regionVars, flagVars, enqVars
  <2>9. pc' \in [Workers -> Places]
    BY <2>1 DEF IInv, Typed, Places, Closes, Goes, tableVars, regionVars, flagVars, enqVars
  <2>10. back' \in [Workers -> Places]
    BY <2>1 DEF IInv, Typed, Places, Closes, Goes, tableVars, regionVars, flagVars, enqVars
  <2>11. at' \in [Workers -> Regions \cup {None}]
    BY <2>1 DEF IInv, Typed, Places, Closes, Goes, tableVars, regionVars, flagVars, enqVars
  <2>12. held' \in [Workers -> Regions \cup {None}]
    BY <2>1 DEF IInv, Typed, Places, Closes, Goes, tableVars, regionVars, flagVars, enqVars
  <2>13. cursor' \in [Workers -> Regions \cup {None}]
    BY <2>1 DEF IInv, Typed, Places, Closes, Goes, tableVars, regionVars, flagVars, enqVars
  <2>14. target' \in [Workers -> Regions \cup {None}]
    BY <2>1 DEF IInv, Typed, Places, Closes, Goes, tableVars, regionVars, flagVars, enqVars
  <2>15. waking' \in [Workers -> SUBSET Regions]
    BY <2>1 DEF IInv, Typed, Places, Closes, Goes, tableVars, regionVars, flagVars, enqVars
  <2>16. batch' \in [Workers -> SUBSET Regions]
    BY <2>1 DEF IInv, Typed, Places, Closes, Goes, tableVars, regionVars, flagVars, enqVars
  <2> QED BY <2>2, <2>3, <2>4, <2>5, <2>6, <2>7, <2>8, <2>9, <2>10, <2>11, <2>12, <2>13, <2>14, <2>15, <2>16 DEF Typed
<1>2. Placed'
  BY RegionsAssumption DEF IInv, Typed, Placed, Places, Closes, Goes, tableVars,
     regionVars, flagVars, enqVars
<1>3. MutexHeld'
  BY RegionsAssumption DEF IInv, Typed, Placed, MutexHeld, Locked, Runnable, Closes, Goes,
     tableVars, regionVars, flagVars, enqVars
<1>4. Kids'
  BY RegionsAssumption DEF IInv, Typed, Kids, Placed, Closes, Goes, tableVars, regionVars,
     flagVars, enqVars
<1>5. ClaimsAgree'
  BY RegionsAssumption DEF IInv, Typed, Placed, MutexHeld, ClaimsAgree, Keys, Closes,
     Goes, tableVars, regionVars, flagVars, enqVars
<1> QED BY <1>1, <1>2, <1>3, <1>4, <1>5 DEF IInv

LEMMA ChildFailsStep == ASSUME IInv, NEW w \in Workers, ChildFails(w) PROVE IInv'
<1>1. Typed'
  <2>1. cursor[w] \in Regions /\ Parent[cursor[w]] \in Regions /\ Key[Parent[cursor[w]]] \in Keys
    BY RegionsAssumption DEF IInv, Placed, ChildFails, Keys
  <2>2. owner' \in [Keys -> Regions \cup {None}]
    BY <2>1 DEF IInv, Typed, Places, ChildFails, Goes, Releases, Erased, tableVars,
       regionVars, flagVars, enqVars
  <2>3. waiters' \in [Keys -> SUBSET Regions]
    BY <2>1 DEF IInv, Typed, Places, ChildFails, Goes, Releases, Erased, tableVars,
       regionVars, flagVars, enqVars
  <2>4. woken' \subseteq Regions
    BY <2>1 DEF IInv, Typed, Places, ChildFails, Goes, Releases, Erased, tableVars,
       regionVars, flagVars, enqVars
  <2>5. phase' \in [Regions -> {"absent", "root", "entered", "partial", "failed"}]
    BY <2>1 DEF IInv, Typed, Places, ChildFails, Goes, Releases, Erased, tableVars,
       regionVars, flagVars, enqVars
  <2>6. claimed' \subseteq Regions /\ deferred' \subseteq Regions /\ donated' \subseteq Regions
    BY <2>1 DEF IInv, Typed, Places, ChildFails, Goes, Releases, Erased, tableVars,
       regionVars, flagVars, enqVars
  <2>7. children' \in [Regions -> SUBSET Regions]
    BY <2>1 DEF IInv, Typed, Places, ChildFails, Goes, Releases, Erased, tableVars,
       regionVars, flagVars, enqVars
  <2>8. ready' \in Seq(Regions)
    BY <2>1 DEF IInv, Typed, Places, ChildFails, Goes, Releases, Erased, tableVars,
       regionVars, flagVars, enqVars
  <2>9. pc' \in [Workers -> Places]
    BY <2>1 DEF IInv, Typed, Places, ChildFails, Goes, Releases, Erased, tableVars,
       regionVars, flagVars, enqVars
  <2>10. back' \in [Workers -> Places]
    BY <2>1 DEF IInv, Typed, Places, ChildFails, Goes, Releases, Erased, tableVars,
       regionVars, flagVars, enqVars
  <2>11. at' \in [Workers -> Regions \cup {None}]
    BY <2>1 DEF IInv, Typed, Places, ChildFails, Goes, Releases, Erased, tableVars,
       regionVars, flagVars, enqVars
  <2>12. held' \in [Workers -> Regions \cup {None}]
    BY <2>1 DEF IInv, Typed, Places, ChildFails, Goes, Releases, Erased, tableVars,
       regionVars, flagVars, enqVars
  <2>13. cursor' \in [Workers -> Regions \cup {None}]
    BY <2>1 DEF IInv, Typed, Places, ChildFails, Goes, Releases, Erased, tableVars,
       regionVars, flagVars, enqVars
  <2>14. target' \in [Workers -> Regions \cup {None}]
    BY <2>1 DEF IInv, Typed, Places, ChildFails, Goes, Releases, Erased, tableVars,
       regionVars, flagVars, enqVars
  <2>15. waking' \in [Workers -> SUBSET Regions]
    BY <2>1 DEF IInv, Typed, Places, ChildFails, Goes, Releases, Erased, tableVars,
       regionVars, flagVars, enqVars
  <2>16. batch' \in [Workers -> SUBSET Regions]
    BY <2>1 DEF IInv, Typed, Places, ChildFails, Goes, Releases, Erased, tableVars,
       regionVars, flagVars, enqVars
  <2> QED BY <2>2, <2>3, <2>4, <2>5, <2>6, <2>7, <2>8, <2>9, <2>10, <2>11, <2>12, <2>13, <2>14, <2>15, <2>16 DEF Typed
<1>2. Placed'
  <2> DEFINE p == Parent[cursor[w]]
  <2>1. cursor[w] \in Regions /\ p \in Regions /\ Key[p] \in Keys /\ pc[w] = "close"
    BY RegionsAssumption DEF IInv, Placed, ChildFails, Keys
  <2>2. at' = at /\ target' = target
    BY DEF ChildFails
  <2>3. \/ UNCHANGED <<pc, back>> /\ cursor' = [cursor EXCEPT ![w] = p]
        \/ /\ pc' = [pc EXCEPT ![w] = "wake"] /\ back' = [back EXCEPT ![w] = "close"]
           /\ cursor' = [cursor EXCEPT ![w] = p]
        \/ /\ pc' = [pc EXCEPT ![w] = "free"] /\ back' = back
           /\ cursor' = [cursor EXCEPT ![w] = None]
        \/ /\ pc' = [pc EXCEPT ![w] = "load"] /\ back' = [back EXCEPT ![w] = "free"]
           /\ cursor' = [cursor EXCEPT ![w] = None]
    BY DEF ChildFails, Releases, Goes
  <2> QED BY <2>1, <2>2, <2>3 DEF IInv, Typed, Placed
<1>3. MutexHeld'
  <2> DEFINE p == Parent[cursor[w]]
  <2>1. cursor[w] \in Regions /\ p \in Regions /\ Key[p] \in Keys /\ pc[w] = "close"
    BY RegionsAssumption DEF IInv, Placed, ChildFails, Keys
  <2>2. \A v \in Workers : held[v] # p
    BY DEF ChildFails, Locked
  <2>3. at' = at /\ held' \in {held, [held EXCEPT ![w] = p]} /\ phase' \in {phase, [phase EXCEPT ![p] = "failed"]}
    BY DEF ChildFails
  <2>4. \A v \in Workers : pc'[v] \in {"acquire", "search"} => v # w /\ pc'[v] = pc[v]
    BY <2>1 DEF IInv, Typed, ChildFails, Releases, Goes
  <2>5. \A u, v \in Workers : held'[u] = held'[v] /\ held'[u] # None => u = v
    BY <2>1, <2>2, <2>3 DEF IInv, Typed, MutexHeld
  <2>6. \A v \in Workers : pc'[v] \in {"acquire", "search"} =>
            held'[v] = held[v] /\ at[v] \in Regions /\ phase'[at[v]] = phase[at[v]]
    BY <2>1, <2>2, <2>3, <2>4 DEF IInv, Typed, Placed, MutexHeld
  <2> QED BY <2>3, <2>4, <2>5, <2>6 DEF IInv, MutexHeld
<1>4. Kids'
  BY RegionsAssumption DEF IInv, Typed, Kids, Placed, ChildFails, Goes, Releases, Erased,
     tableVars, regionVars, flagVars, enqVars
<1>5. ClaimsAgree'
  <2> DEFINE p == Parent[cursor[w]]
  <2>1. cursor[w] \in Regions /\ p \in Regions /\ Key[p] \in Keys /\ pc[w] = "close"
    BY RegionsAssumption DEF IInv, Placed, ChildFails, Keys
  <2>2. claimed' = claimed /\ donated' = donated
    BY DEF ChildFails
  <2>3. CASE UNCHANGED <<owner, phase, deferred>>
    BY <2>2, <2>3 DEF IInv, ClaimsAgree
  <2>4. CASE ~UNCHANGED <<owner, phase, deferred>>
    <3>1. phase[p] = "partial" /\ phase' = [phase EXCEPT ![p] = "failed"] /\ deferred' = deferred \ {p}
      BY <2>4 DEF ChildFails
    <3>2. p \notin claimed
      BY <3>1 DEF IInv, ClaimsAgree
    <3>3. owner' = IF p \in deferred THEN [owner EXCEPT ![Key[p]] = None] ELSE owner
      BY <2>4 DEF ChildFails, Releases, Erased
    <3>4. CASE p \in deferred
      <4>1. \A s \in claimed' \cup deferred' : Key[s] # Key[p]
        BY <2>2, <3>1, <3>2, <3>4 DEF IInv, ClaimsAgree
      <4> QED BY <2>1, <2>2, <3>1, <3>2, <3>3, <3>4, <4>1 DEF IInv, Typed, ClaimsAgree, Keys
    <3>5. CASE p \notin deferred
      BY <2>1, <2>2, <3>1, <3>2, <3>3, <3>5 DEF IInv, Typed, ClaimsAgree
    <3> QED BY <3>4, <3>5
  <2> QED BY <2>3, <2>4
<1> QED BY <1>1, <1>2, <1>3, <1>4, <1>5 DEF IInv

LEMMA RootFailsStep == ASSUME IInv, NEW w \in Workers, RootFails(w) PROVE IInv'
<1>1. Typed'
  BY RegionsAssumption DEF IInv, Typed, Placed, Places, RootFails, Goes, tableVars,
     regionVars, flagVars, enqVars
<1>2. Placed'
  BY RegionsAssumption DEF IInv, Typed, Placed, Places, RootFails, Goes, tableVars,
     regionVars, flagVars, enqVars
<1>3. MutexHeld'
  BY RegionsAssumption DEF IInv, Typed, Placed, MutexHeld, Locked, Runnable, RootFails,
     Goes, tableVars, regionVars, flagVars, enqVars
<1>4. Kids'
  BY RegionsAssumption DEF IInv, Typed, Kids, Placed, RootFails, Goes, tableVars,
     regionVars, flagVars, enqVars
<1>5. ClaimsAgree'
  BY RegionsAssumption DEF IInv, Typed, Placed, MutexHeld, ClaimsAgree, Keys, RootFails,
     Goes, tableVars, regionVars, flagVars, enqVars
<1> QED BY <1>1, <1>2, <1>3, <1>4, <1>5 DEF IInv

LEMMA FreesStep == ASSUME IInv, NEW w \in Workers, Frees(w) PROVE IInv'
<1>1. Typed'
  BY RegionsAssumption DEF IInv, Typed, Placed, Places, Frees, Goes, tableVars,
     regionVars, flagVars, enqVars
<1>2. Placed'
  BY RegionsAssumption DEF IInv, Typed, Placed, Places, Frees, Goes, tableVars,
     regionVars, flagVars, enqVars
<1>3. MutexHeld'
  BY RegionsAssumption DEF IInv, Typed, Placed, MutexHeld, Locked, Runnable, Frees, Goes,
     tableVars, regionVars, flagVars, enqVars
<1>4. Kids'
  BY RegionsAssumption DEF IInv, Typed, Kids, Placed, Frees, Goes, tableVars, regionVars,
     flagVars, enqVars
<1>5. ClaimsAgree'
  BY RegionsAssumption DEF IInv, Typed, Placed, MutexHeld, ClaimsAgree, Keys, Frees, Goes,
     tableVars, regionVars, flagVars, enqVars
<1> QED BY <1>1, <1>2, <1>3, <1>4, <1>5 DEF IInv

LEMMA TakesWokenStep == ASSUME IInv, NEW w \in Workers, TakesWoken(w) PROVE IInv'
<1>1. Typed'
  BY RegionsAssumption DEF IInv, Typed, Placed, Places, TakesWoken, Goes, tableVars,
     regionVars, flagVars, enqVars
<1>2. Placed'
  BY RegionsAssumption DEF IInv, Typed, Placed, Places, TakesWoken, Goes, tableVars,
     regionVars, flagVars, enqVars
<1>3. MutexHeld'
  BY RegionsAssumption DEF IInv, Typed, Placed, MutexHeld, Locked, Runnable, TakesWoken,
     Goes, tableVars, regionVars, flagVars, enqVars
<1>4. Kids'
  BY RegionsAssumption DEF IInv, Typed, Kids, Placed, TakesWoken, Goes, tableVars,
     regionVars, flagVars, enqVars
<1>5. ClaimsAgree'
  BY RegionsAssumption DEF IInv, Typed, Placed, MutexHeld, ClaimsAgree, Keys, TakesWoken,
     Goes, tableVars, regionVars, flagVars, enqVars
<1> QED BY <1>1, <1>2, <1>3, <1>4, <1>5 DEF IInv

LEMMA EnqueueDoneStep == ASSUME IInv, NEW w \in Workers, EnqueueDone(w) PROVE IInv'
<1>1. Typed'
  BY RegionsAssumption DEF IInv, Typed, Placed, Places, EnqueueDone, Goes, tableVars,
     regionVars, flagVars, enqVars
<1>2. Placed'
  BY RegionsAssumption DEF IInv, Typed, Placed, Places, EnqueueDone, Goes, tableVars,
     regionVars, flagVars, enqVars
<1>3. MutexHeld'
  BY SMTT(30), RegionsAssumption DEF IInv, Typed, Placed, MutexHeld, Locked, Runnable, EnqueueDone,
     Goes, tableVars, regionVars, flagVars, enqVars
<1>4. Kids'
  BY RegionsAssumption DEF IInv, Typed, Kids, Placed, EnqueueDone, Goes, tableVars,
     regionVars, flagVars, enqVars
<1>5. ClaimsAgree'
  BY RegionsAssumption DEF IInv, Typed, Placed, MutexHeld, ClaimsAgree, Keys, EnqueueDone,
     Goes, tableVars, regionVars, flagVars, enqVars
<1> QED BY <1>1, <1>2, <1>3, <1>4, <1>5 DEF IInv

LEMMA EnqueueLoadsStep == ASSUME IInv, NEW w \in Workers, EnqueueLoads(w) PROVE IInv'
<1>1. Typed'
  BY RegionsAssumption DEF IInv, Typed, Placed, Places, EnqueueLoads, Goes, tableVars,
     regionVars, flagVars, enqVars
<1>2. Placed'
  BY RegionsAssumption DEF IInv, Typed, Placed, Places, EnqueueLoads, Goes, tableVars,
     regionVars, flagVars, enqVars
<1>3. MutexHeld'
  BY RegionsAssumption DEF IInv, Typed, Placed, MutexHeld, Locked, Runnable, EnqueueLoads,
     Goes, tableVars, regionVars, flagVars, enqVars
<1>4. Kids'
  BY RegionsAssumption DEF IInv, Typed, Kids, Placed, EnqueueLoads, Goes, tableVars,
     regionVars, flagVars, enqVars
<1>5. ClaimsAgree'
  BY RegionsAssumption DEF IInv, Typed, Placed, MutexHeld, ClaimsAgree, Keys,
     EnqueueLoads, Goes, tableVars, regionVars, flagVars, enqVars
<1> QED BY <1>1, <1>2, <1>3, <1>4, <1>5 DEF IInv

LEMMA EnqueuePushesStep == ASSUME IInv, NEW w \in Workers, EnqueuePushes(w) PROVE IInv'
<1>1. Typed'
  BY RegionsAssumption DEF IInv, Typed, Placed, Places, EnqueuePushes, Goes,
     EnqueueLeaves, QueuedBefore, tableVars, regionVars, flagVars, enqVars
<1>2. Placed'
  BY RegionsAssumption DEF IInv, Typed, Placed, Places, EnqueuePushes, Goes,
     EnqueueLeaves, QueuedBefore, tableVars, regionVars, flagVars, enqVars
<1>3. MutexHeld'
  BY RegionsAssumption DEF IInv, Typed, Placed, MutexHeld, Locked, Runnable,
     EnqueuePushes, Goes, EnqueueLeaves, QueuedBefore, tableVars, regionVars, flagVars,
     enqVars
<1>4. Kids'
  BY RegionsAssumption DEF IInv, Typed, Kids, Placed, EnqueuePushes, Goes, EnqueueLeaves,
     QueuedBefore, tableVars, regionVars, flagVars, enqVars
<1>5. ClaimsAgree'
  BY RegionsAssumption DEF IInv, Typed, Placed, MutexHeld, ClaimsAgree, Keys,
     EnqueuePushes, Goes, EnqueueLeaves, QueuedBefore, tableVars, regionVars, flagVars,
     enqVars
<1> QED BY <1>1, <1>2, <1>3, <1>4, <1>5 DEF IInv

LEMMA EnqueueMarksStep == ASSUME IInv, NEW w \in Workers, EnqueueMarks(w) PROVE IInv'
<1>1. Typed'
  BY RegionsAssumption DEF IInv, Typed, Placed, Places, EnqueueMarks, Goes, tableVars,
     regionVars, flagVars, enqVars
<1>2. Placed'
  BY RegionsAssumption DEF IInv, Typed, Placed, Places, EnqueueMarks, Goes, tableVars,
     regionVars, flagVars, enqVars
<1>3. MutexHeld'
  BY RegionsAssumption DEF IInv, Typed, Placed, MutexHeld, Locked, Runnable, EnqueueMarks,
     Goes, tableVars, regionVars, flagVars, enqVars
<1>4. Kids'
  BY RegionsAssumption DEF IInv, Typed, Kids, Placed, EnqueueMarks, Goes, tableVars,
     regionVars, flagVars, enqVars
<1>5. ClaimsAgree'
  BY RegionsAssumption DEF IInv, Typed, Placed, MutexHeld, ClaimsAgree, Keys,
     EnqueueMarks, Goes, tableVars, regionVars, flagVars, enqVars
<1> QED BY <1>1, <1>2, <1>3, <1>4, <1>5 DEF IInv

LEMMA EnqueueRechecksStep == ASSUME IInv, NEW w \in Workers, EnqueueRechecks(w) PROVE IInv'
<1>1. Typed'
  <2>1. target[w] \in Regions
    BY DEF IInv, Placed, EnqueueRechecks
  <2>2. owner' \in [Keys -> Regions \cup {None}]
    BY <2>1 DEF IInv, Typed, Places, EnqueueRechecks, Goes, EnqueueLeaves, OwnerLeft,
       tableVars, regionVars, flagVars, enqVars
  <2>3. waiters' \in [Keys -> SUBSET Regions]
    BY <2>1 DEF IInv, Typed, Places, EnqueueRechecks, Goes, EnqueueLeaves, OwnerLeft,
       tableVars, regionVars, flagVars, enqVars
  <2>4. woken' \subseteq Regions
    BY <2>1 DEF IInv, Typed, Places, EnqueueRechecks, Goes, EnqueueLeaves, OwnerLeft,
       tableVars, regionVars, flagVars, enqVars
  <2>5. phase' \in [Regions -> {"absent", "root", "entered", "partial", "failed"}]
    BY <2>1 DEF IInv, Typed, Places, EnqueueRechecks, Goes, EnqueueLeaves, OwnerLeft,
       tableVars, regionVars, flagVars, enqVars
  <2>6. claimed' \subseteq Regions /\ deferred' \subseteq Regions /\ donated' \subseteq Regions
    BY <2>1 DEF IInv, Typed, Places, EnqueueRechecks, Goes, EnqueueLeaves, OwnerLeft,
       tableVars, regionVars, flagVars, enqVars
  <2>7. children' \in [Regions -> SUBSET Regions]
    BY <2>1 DEF IInv, Typed, Places, EnqueueRechecks, Goes, EnqueueLeaves, OwnerLeft,
       tableVars, regionVars, flagVars, enqVars
  <2>8. ready' \in Seq(Regions)
    BY <2>1 DEF IInv, Typed, Places, EnqueueRechecks, Goes, EnqueueLeaves, OwnerLeft,
       tableVars, regionVars, flagVars, enqVars
  <2>9. pc' \in [Workers -> Places]
    BY <2>1 DEF IInv, Typed, Places, EnqueueRechecks, Goes, EnqueueLeaves, OwnerLeft,
       tableVars, regionVars, flagVars, enqVars
  <2>10. back' \in [Workers -> Places]
    BY <2>1 DEF IInv, Typed, Places, EnqueueRechecks, Goes, EnqueueLeaves, OwnerLeft,
       tableVars, regionVars, flagVars, enqVars
  <2>11. at' \in [Workers -> Regions \cup {None}]
    BY <2>1 DEF IInv, Typed, Places, EnqueueRechecks, Goes, EnqueueLeaves, OwnerLeft,
       tableVars, regionVars, flagVars, enqVars
  <2>12. held' \in [Workers -> Regions \cup {None}]
    BY <2>1 DEF IInv, Typed, Places, EnqueueRechecks, Goes, EnqueueLeaves, OwnerLeft,
       tableVars, regionVars, flagVars, enqVars
  <2>13. cursor' \in [Workers -> Regions \cup {None}]
    BY <2>1 DEF IInv, Typed, Places, EnqueueRechecks, Goes, EnqueueLeaves, OwnerLeft,
       tableVars, regionVars, flagVars, enqVars
  <2>14. target' \in [Workers -> Regions \cup {None}]
    BY <2>1, SMTT(30) DEF IInv, Typed, Places, EnqueueRechecks, Goes, EnqueueLeaves,
       OwnerLeft, tableVars, regionVars, flagVars, enqVars
  <2>15. waking' \in [Workers -> SUBSET Regions]
    BY <2>1 DEF IInv, Typed, Places, EnqueueRechecks, Goes, EnqueueLeaves, OwnerLeft,
       tableVars, regionVars, flagVars, enqVars
  <2>16. batch' \in [Workers -> SUBSET Regions]
    BY <2>1 DEF IInv, Typed, Places, EnqueueRechecks, Goes, EnqueueLeaves, OwnerLeft,
       tableVars, regionVars, flagVars, enqVars
  <2> QED BY <2>2, <2>3, <2>4, <2>5, <2>6, <2>7, <2>8, <2>9, <2>10, <2>11, <2>12, <2>13, <2>14, <2>15, <2>16 DEF Typed
<1>2. Placed'
  BY RegionsAssumption DEF IInv, Typed, Placed, Places, EnqueueRechecks, Goes,
     EnqueueLeaves, OwnerLeft, tableVars, regionVars, flagVars, enqVars
<1>3. MutexHeld'
  BY RegionsAssumption DEF IInv, Typed, Placed, MutexHeld, Locked, Runnable,
     EnqueueRechecks, Goes, EnqueueLeaves, OwnerLeft, tableVars, regionVars, flagVars,
     enqVars
<1>4. Kids'
  BY RegionsAssumption DEF IInv, Typed, Kids, Placed, EnqueueRechecks, Goes,
     EnqueueLeaves, OwnerLeft, tableVars, regionVars, flagVars, enqVars
<1>5. ClaimsAgree'
  BY RegionsAssumption DEF IInv, Typed, Placed, MutexHeld, ClaimsAgree, Keys,
     EnqueueRechecks, Goes, EnqueueLeaves, OwnerLeft, tableVars, regionVars, flagVars,
     enqVars
<1> QED BY <1>1, <1>2, <1>3, <1>4, <1>5 DEF IInv


\* An order of some regions is a sequence of regions.
LEMMA OrdersTyped ==
    ASSUME NEW S \in SUBSET Regions, NEW q \in Orders(S)
    PROVE  q \in Seq(Regions)
<1>1. Cardinality(S) \in Nat
  BY RegionsAssumption, FS_Subset, FS_CardinalityType
<1> QED BY <1>1 DEF Orders

\* The end of an epoch preserves the invariant: only claims of failed regions go.
LEMMA ReconcileStep == ASSUME IInv, Reconcile PROVE IInv'
<1> DEFINE again == {r \in Regions : Runnable(r)}
<1>1. \A q \in Orders(again \ queued) : q \in Seq(Regions)
  BY OrdersTyped
<1>2. ready' \in Seq(Regions)
  BY <1>1 DEF IInv, Typed, Reconcile
<1>3. /\ owner' = [k \in Keys |-> IF owner[k] \in LateClaims THEN None ELSE owner[k]]
      /\ deferred' = deferred \ LateClaims
      /\ UNCHANGED <<phase, claimed, donated, children, workerVars>>
  BY DEF Reconcile
<1>7. LateClaims \subseteq deferred /\ \A r \in LateClaims : phase[r] = "failed"
  BY DEF LateClaims
<1>8. waiters' \in [Keys -> SUBSET Regions]
  BY DEF IInv, Typed, Reconcile
<1>9. woken' \subseteq Regions
  <2>1. \A r \in LateClaims : waiters[Key[r]] \subseteq Regions
    BY <1>7 DEF IInv, Typed, Keys
  <2> QED BY <2>1 DEF IInv, Typed, Reconcile
<1>4. Typed'
  BY <1>2, <1>3, <1>8, <1>9 DEF IInv, Typed, workerVars, enqVars
<1>5. Placed' /\ MutexHeld' /\ Kids'
  BY <1>3 DEF IInv, Placed, MutexHeld, Kids, workerVars, enqVars
<1>6. ClaimsAgree'
  <2>1. \A k \in Keys : owner'[k] # None =>
            owner'[k] = owner[k] /\ owner'[k] \in claimed' \cup deferred' /\ Key[owner'[k]] = k
    BY <1>3, <1>7 DEF IInv, ClaimsAgree
  <2>2. ASSUME NEW r \in claimed' \cup deferred' PROVE owner'[Key[r]] = r
    <3>1. r \in Regions /\ Key[r] \in Keys /\ owner[Key[r]] = r
      BY <1>3 DEF IInv, Typed, ClaimsAgree, Keys
    <3>2. r \notin LateClaims
      BY <1>3, <1>7 DEF IInv, ClaimsAgree
    <3> QED BY <1>3, <3>1, <3>2
  <2> QED BY <1>3, <2>1, <2>2 DEF IInv, ClaimsAgree
<1> QED BY <1>4, <1>5, <1>6 DEF IInv

LEMMA InitIInv == Init => IInv
<1> SUFFICES ASSUME Init PROVE IInv OBVIOUS
<1> USE RegionsAssumption DEF Init
<1>1. Typed BY DEF Typed, Places, Keys
<1>2. Placed BY DEF Placed
<1>3. MutexHeld BY DEF MutexHeld
<1>4. Kids BY DEF Kids
<1>5. ClaimsAgree BY DEF ClaimsAgree, Keys
<1> QED BY <1>1, <1>2, <1>3, <1>4, <1>5 DEF IInv

LEMMA NextIInv == IInv /\ [Next]_vars => IInv'
<1> SUFFICES ASSUME IInv, [Next]_vars PROVE IInv' OBVIOUS
<1>1. ASSUME NEW w \in Workers, Worker(w) PROVE IInv'
  BY <1>1, PopStep, UnmarkStep, ActivateStep, ActivateFailsStep, ServeNothingStep,
     ServeProvedStep, MissesCacheStep, AcquireParksStep, AcquireOwnsStep,
     AcquireSaturatedStep, SearchYieldsStep, SearchDonatesStep, SearchFinishesStep,
     WakesStep, GivesUpStep, ExchangesRerunStep, EnqueuesAgainStep, ClosesStep,
     ChildFailsStep, RootFailsStep, FreesStep, TakesWokenStep, EnqueueDoneStep,
     EnqueueLoadsStep, EnqueuePushesStep, EnqueueMarksStep, EnqueueRechecksStep
  DEF Worker
<1>2. CASE UNCHANGED vars
  BY <1>2 DEF vars, tableVars, regionVars, flagVars, workerVars, enqVars, IInv, Typed, Placed,
              MutexHeld, Kids, ClaimsAgree
<1> QED BY <1>1, <1>2, ReconcileStep DEF Next

LEMMA Inductive == Spec => []IInv
BY InitIInv, NextIInv, PTL DEF Spec

\* A key has one owner, and an entry of the table exists exactly as long as the
\* claim of the session it stands for: no waiter is left in an entry nobody will
\* release.
THEOREM Claims == Spec => []ClaimsAgree
<1>1. IInv => ClaimsAgree BY DEF IInv
<1> QED BY <1>1, Inductive, PTL

-----------------------------------------------------------------------------
\* Some key of a set of regions is contained in no other key of the set.
LEMMA LargestKey ==
    ASSUME NEW S \in SUBSET Regions, S # {}
    PROVE  \E r \in S : \A s \in S : ~(Key[r] \subseteq Key[s] /\ Key[r] # Key[s])
<1> DEFINE U == UNION Keys
           T == {U \ Key[s] : s \in S}
<1>1. IsFiniteSet(Keys)
  <2> DEFINE f == [r \in Regions |-> Key[r]]
  <2>1. f \in Surjection(Regions, Keys)
    BY DEF Surjection, Keys
  <2> QED BY <2>1, FS_Surjection, RegionsAssumption
<1>2. IsFiniteSet(U)
  BY <1>1, FS_UNION, KeysGrow DEF Keys
<1>3. \A s \in S : Key[s] \subseteq U
  BY DEF Keys
<1>4. T \subseteq SUBSET U /\ T # {}
  OBVIOUS
<1>5. \E x \in T : \A y \in T : <<y, x>> \notin StrictSubsetOrdering(U)
  <2>1. T \subseteq FiniteSubsetsOf(U)
    BY <1>2, <1>4, FS_FiniteSubsetsOfFinite
  <2>2. IsWellFoundedOn(StrictSubsetOrdering(U), FiniteSubsetsOf(U))
    BY FS_StrictSubsetOrderingWellFounded
  <2> QED BY <2>1, <2>2, <1>4, WFMin
<1>6. PICK r \in S : \A s \in S : <<U \ Key[s], U \ Key[r]>> \notin StrictSubsetOrdering(U)
  BY <1>5
<1>7. ASSUME NEW s \in S, Key[r] \subseteq Key[s], Key[r] # Key[s] PROVE FALSE
  <2>1. U \ Key[s] \subseteq U \ Key[r] /\ U \ Key[s] # U \ Key[r]
    BY <1>3, <1>7
  <2> QED BY <1>6, <2>1 DEF StrictSubsetOrdering
<1> QED BY <1>7

\* The regions that wait never close a cycle: a parked region waits for one with
\* the same key that is not parked, and a donor for children with larger keys.
THEOREM NoCycle == Spec => []NoWaitCycle
<1>1. IInv => NoWaitCycle
  <2> SUFFICES ASSUME IInv, NEW S \in SUBSET Regions, S # {}
               PROVE  \E r \in S : \A s \in S : ~WaitsFor(r, s)
    BY DEF NoWaitCycle
  <2>1. PICK r \in S : \A s \in S : ~(Key[r] \subseteq Key[s] /\ Key[r] # Key[s])
    BY LargestKey
  <2>3. ASSUME NEW q \in S, Key[q] = Key[r], phase[q] # "root", NEW s \in S, WaitsFor(q, s)
        PROVE  FALSE
    <3>1. s # Root /\ Parent[s] = q
      BY <2>3 DEF WaitsFor, IInv, Kids
    <3> QED BY <2>1, <2>3, <3>1, KeysGrow
  <2>4. ASSUME NEW s \in S, WaitsFor(r, s), phase[r] = "root"
        PROVE  Key[s] = Key[r] /\ phase[s] # "root"
    <3>1. owner[Key[r]] = s /\ s # None /\ Key[r] \in Keys
      BY <2>4, RegionsAssumption DEF WaitsFor, Keys
    <3> QED BY <3>1 DEF IInv, ClaimsAgree
  <2>5. CASE phase[r] = "root" /\ \E s \in S : WaitsFor(r, s)
    BY <2>3, <2>4, <2>5
  <2>6. CASE phase[r] # "root"
    BY <2>3, <2>6
  <2> QED BY <2>5, <2>6
<1> QED BY <1>1, Inductive, PTL


-----------------------------------------------------------------------------
\* No waiter is lost. The invariant says who looks after a region whose root
\* frame is not entered, at every place where a wakeup may be on its way.

Enqueueing == {"load", "push", "mark", "recheck"}

\* A worker between taking a region and giving its active flag up.
InService(w) ==
    \/ pc[w] \in {"serve", "acquire", "search", "settle", "close", "free", "wake"}
    \/ pc[w] \in Enqueueing /\ back[w] \in {"settle", "free"}

\* The flag active is the worker that serves the region.
ActiveServed ==
    /\ active \subseteq Regions
    /\ \A r \in active : \E w \in Workers : at[w] = r /\ InService(w)
    /\ \A w \in Workers : InService(w) => at[w] \in active
    /\ \A v, w \in Workers : InService(v) /\ InService(w) /\ at[v] = at[w] => v = w

\* A worker has waiters or regions in hand at the places where it disposes of
\* them only, and the region at hand stays in its batch until it is queued or marked.
HandsEmpty ==
    \A w \in Workers : /\ pc[w] # "wake" => waking[w] = {}
                       /\ pc[w] \notin Enqueueing => batch[w] = {}
                       /\ pc[w] \in {"push", "mark", "recheck"} => target[w] \in batch[w]

\* What is known of the region by the place of the worker that serves it.
Started(r) == phase[r] \in {"entered", "partial", "failed"}
Closing(w) ==
    \/ pc[w] \in {"close", "free"}
    \/ pc[w] = "wake" /\ back[w] = "close"
    \/ pc[w] \in Enqueueing /\ back[w] = "free"
ServiceStarted ==
    /\ \A w \in Workers : InService(w) /\ pc[w] \notin {"serve", "acquire", "settle"}
            => Started(at[w])
    /\ \A w \in Workers : InService(w) /\ pc[w] \notin {"serve", "acquire", "search"}
            /\ event[w] = "terminal" => phase[at[w]] = "failed"
    /\ \A w \in Workers : Closing(w) => phase[at[w]] = "failed"
    /\ \A r \in notified : r \in Regions /\ phase[r] = "failed"

\* Worker w will look at r again, or hand it on: it comes to it; it will queue it,
\* unless its mark of r is still unread; r's mark is for it to read; it serves r;
\* it wakes r.
CaredBy(w, r) ==
    \/ at[w] = r /\ pc[w] \in {"popped", "cas", "again", "serve", "acquire"}
    \/ r \in batch[w] /\ (pc[w] = "recheck" /\ target[w] = r => r \in rerun)
    \/ at[w] = r /\ pc[w] \in {"settle", "rerun"} /\ r \in rerun
    \/ r \in waking[w]
Parked(r) == r \in waiters[Key[r]] /\ owner[Key[r]] # None
Cared(r) == r \in queued \/ r \in woken \/ Parked(r) \/ \E w \in Workers : CaredBy(w, r)
AllCared == \A r \in Regions : phase[r] = "root" => Cared(r)

\* What a service returns.
EventTyped == event \in [Workers -> {"none", "run", "parked", "blocked", "terminal"}]

WakeInv == EventTyped /\ ActiveServed /\ HandsEmpty /\ ServiceStarted /\ AllCared

-----------------------------------------------------------------------------
\* A step of worker w moves no other worker.
Others(w) ==
    \A v \in Workers \ {w} :
        /\ pc'[v] = pc[v] /\ back'[v] = back[v] /\ at'[v] = at[v] /\ event'[v] = event[v]
        /\ target'[v] = target[v] /\ waking'[v] = waking[v] /\ batch'[v] = batch[v]

\* Phases only advance; a region begins with a donation.
PhasesAdvance ==
    \A r \in Regions :
        /\ Started(r) => Started(r)'
        /\ phase[r] = "failed" => phase'[r] = "failed"
        /\ phase'[r] = "root" => phase[r] \in {"absent", "root"}

LEMMA OthersStay == ASSUME IInv, EventTyped, NEW w \in Workers, Worker(w) PROVE Others(w)
<1> USE DEF Others, Goes, tableVars, regionVars, flagVars, enqVars
<1>1. CASE Pop(w)
  BY <1>1 DEF Pop
<1>2. CASE Unmark(w)
  BY <1>2 DEF Unmark
<1>3. CASE Activate(w)
  <2>1. \A v \in Workers \ {w} : pc'[v] = pc[v]
    BY <1>3 DEF IInv, Typed, EventTyped, Activate
  <2>2. \A v \in Workers \ {w} : back'[v] = back[v]
    BY <1>3 DEF IInv, Typed, EventTyped, Activate
  <2>3. \A v \in Workers \ {w} : at'[v] = at[v]
    BY <1>3 DEF IInv, Typed, EventTyped, Activate
  <2>4. \A v \in Workers \ {w} : event'[v] = event[v]
    BY <1>3 DEF IInv, Typed, EventTyped, Activate
  <2>5. \A v \in Workers \ {w} : target'[v] = target[v]
    BY <1>3 DEF IInv, Typed, EventTyped, Activate
  <2>6. \A v \in Workers \ {w} : waking'[v] = waking[v]
    BY <1>3 DEF IInv, Typed, EventTyped, Activate
  <2>7. \A v \in Workers \ {w} : batch'[v] = batch[v]
    BY <1>3 DEF IInv, Typed, EventTyped, Activate
  <2> QED BY <2>1, <2>2, <2>3, <2>4, <2>5, <2>6, <2>7
<1>4. CASE ActivateFails(w)
  BY <1>4 DEF ActivateFails
<1>5. CASE ServeNothing(w)
  BY <1>5 DEF ServeNothing, Returns
<1>6. CASE ServeProved(w)
  BY <1>6 DEF ServeProved, Returns
<1>7. CASE MissesCache(w)
  <2>1. \A v \in Workers \ {w} : pc'[v] = pc[v]
    BY <1>7 DEF IInv, Typed, EventTyped, MissesCache
  <2>2. \A v \in Workers \ {w} : back'[v] = back[v]
    BY <1>7 DEF IInv, Typed, EventTyped, MissesCache
  <2>3. \A v \in Workers \ {w} : at'[v] = at[v]
    BY <1>7 DEF IInv, Typed, EventTyped, MissesCache
  <2>4. \A v \in Workers \ {w} : event'[v] = event[v]
    BY <1>7 DEF IInv, Typed, EventTyped, MissesCache
  <2>5. \A v \in Workers \ {w} : target'[v] = target[v]
    BY <1>7 DEF IInv, Typed, EventTyped, MissesCache
  <2>6. \A v \in Workers \ {w} : waking'[v] = waking[v]
    BY <1>7 DEF IInv, Typed, EventTyped, MissesCache
  <2>7. \A v \in Workers \ {w} : batch'[v] = batch[v]
    BY <1>7 DEF IInv, Typed, EventTyped, MissesCache
  <2> QED BY <2>1, <2>2, <2>3, <2>4, <2>5, <2>6, <2>7
<1>8. CASE AcquireParks(w)
  BY <1>8 DEF AcquireParks, Returns
<1>9. CASE AcquireOwns(w)
  BY <1>9 DEF AcquireOwns, Enters
<1>10. CASE AcquireSaturated(w)
  BY <1>10 DEF AcquireSaturated, Enters
<1>11. CASE SearchYields(w)
  BY <1>11 DEF SearchYields, Returns
<1>12. CASE SearchDonates(w)
  BY <1>12 DEF SearchDonates
<1>13. CASE SearchFinishes(w)
  <2>1. \A v \in Workers \ {w} : pc'[v] = pc[v]
    <3>1. CASE at[w] \in claimed \ donated
      BY <1>13, <3>1 DEF IInv, Typed, EventTyped, SearchFinishes, Releases
    <3>2. CASE at[w] \notin claimed \ donated
      BY <1>13, <3>2 DEF IInv, Typed, EventTyped, SearchFinishes, Returns
    <3> QED BY <3>1, <3>2
  <2>2. \A v \in Workers \ {w} : back'[v] = back[v]
    <3>1. CASE at[w] \in claimed \ donated
      BY <1>13, <3>1 DEF IInv, Typed, EventTyped, SearchFinishes, Releases
    <3>2. CASE at[w] \notin claimed \ donated
      BY <1>13, <3>2 DEF IInv, Typed, EventTyped, SearchFinishes, Returns
    <3> QED BY <3>1, <3>2
  <2>3. \A v \in Workers \ {w} : at'[v] = at[v]
    <3>1. CASE at[w] \in claimed \ donated
      BY <1>13, <3>1 DEF IInv, Typed, EventTyped, SearchFinishes, Releases
    <3>2. CASE at[w] \notin claimed \ donated
      BY <1>13, <3>2 DEF IInv, Typed, EventTyped, SearchFinishes, Returns
    <3> QED BY <3>1, <3>2
  <2>4. \A v \in Workers \ {w} : event'[v] = event[v]
    <3>1. CASE at[w] \in claimed \ donated
      BY <1>13, <3>1 DEF IInv, Typed, EventTyped, SearchFinishes, Releases
    <3>2. CASE at[w] \notin claimed \ donated
      BY <1>13, <3>2 DEF IInv, Typed, EventTyped, SearchFinishes, Returns
    <3> QED BY <3>1, <3>2
  <2>5. \A v \in Workers \ {w} : target'[v] = target[v]
    <3>1. CASE at[w] \in claimed \ donated
      BY <1>13, <3>1 DEF IInv, Typed, EventTyped, SearchFinishes, Releases
    <3>2. CASE at[w] \notin claimed \ donated
      BY <1>13, <3>2 DEF IInv, Typed, EventTyped, SearchFinishes, Returns
    <3> QED BY <3>1, <3>2
  <2>6. \A v \in Workers \ {w} : waking'[v] = waking[v]
    <3>1. CASE at[w] \in claimed \ donated
      BY <1>13, <3>1 DEF IInv, Typed, EventTyped, SearchFinishes, Releases
    <3>2. CASE at[w] \notin claimed \ donated
      BY <1>13, <3>2 DEF IInv, Typed, EventTyped, SearchFinishes, Returns
    <3> QED BY <3>1, <3>2
  <2>7. \A v \in Workers \ {w} : batch'[v] = batch[v]
    <3>1. CASE at[w] \in claimed \ donated
      BY <1>13, <3>1 DEF IInv, Typed, EventTyped, SearchFinishes, Releases
    <3>2. CASE at[w] \notin claimed \ donated
      BY <1>13, <3>2 DEF IInv, Typed, EventTyped, SearchFinishes, Returns
    <3> QED BY <3>1, <3>2
  <2> QED BY <2>1, <2>2, <2>3, <2>4, <2>5, <2>6, <2>7
<1>14. CASE Wakes(w)
  BY <1>14 DEF Wakes, HandsOver
<1>15. CASE GivesUp(w)
  BY <1>15 DEF GivesUp
<1>16. CASE ExchangesRerun(w)
  BY <1>16 DEF ExchangesRerun
<1>17. CASE EnqueuesAgain(w)
  <2>1. \A v \in Workers \ {w} : pc'[v] = pc[v]
    BY <1>17 DEF IInv, Typed, EventTyped, EnqueuesAgain
  <2>2. \A v \in Workers \ {w} : back'[v] = back[v]
    BY <1>17 DEF IInv, Typed, EventTyped, EnqueuesAgain
  <2>3. \A v \in Workers \ {w} : at'[v] = at[v]
    BY <1>17 DEF IInv, Typed, EventTyped, EnqueuesAgain
  <2>4. \A v \in Workers \ {w} : event'[v] = event[v]
    BY <1>17 DEF IInv, Typed, EventTyped, EnqueuesAgain
  <2>5. \A v \in Workers \ {w} : target'[v] = target[v]
    BY <1>17 DEF IInv, Typed, EventTyped, EnqueuesAgain
  <2>6. \A v \in Workers \ {w} : waking'[v] = waking[v]
    BY <1>17 DEF IInv, Typed, EventTyped, EnqueuesAgain
  <2>7. \A v \in Workers \ {w} : batch'[v] = batch[v]
    BY <1>17 DEF IInv, Typed, EventTyped, EnqueuesAgain
  <2> QED BY <2>1, <2>2, <2>3, <2>4, <2>5, <2>6, <2>7
<1>18. CASE Closes(w)
  <2>1. \A v \in Workers \ {w} : pc'[v] = pc[v]
    BY <1>18 DEF IInv, Typed, EventTyped, Closes
  <2>2. \A v \in Workers \ {w} : back'[v] = back[v]
    BY <1>18 DEF IInv, Typed, EventTyped, Closes
  <2>3. \A v \in Workers \ {w} : at'[v] = at[v]
    BY <1>18 DEF IInv, Typed, EventTyped, Closes
  <2>4. \A v \in Workers \ {w} : event'[v] = event[v]
    BY <1>18 DEF IInv, Typed, EventTyped, Closes
  <2>5. \A v \in Workers \ {w} : target'[v] = target[v]
    BY <1>18 DEF IInv, Typed, EventTyped, Closes
  <2>6. \A v \in Workers \ {w} : waking'[v] = waking[v]
    BY <1>18 DEF IInv, Typed, EventTyped, Closes
  <2>7. \A v \in Workers \ {w} : batch'[v] = batch[v]
    BY <1>18 DEF IInv, Typed, EventTyped, Closes
  <2> QED BY <2>1, <2>2, <2>3, <2>4, <2>5, <2>6, <2>7
<1>19. CASE ChildFails(w)
  <2>1. \A v \in Workers \ {w} : pc'[v] = pc[v]
    BY <1>19 DEF IInv, Typed, EventTyped, ChildFails, Releases, Erased
  <2>2. \A v \in Workers \ {w} : back'[v] = back[v]
    BY <1>19 DEF IInv, Typed, EventTyped, ChildFails, Releases, Erased
  <2>3. \A v \in Workers \ {w} : at'[v] = at[v]
    BY <1>19 DEF IInv, Typed, EventTyped, ChildFails, Releases, Erased
  <2>4. \A v \in Workers \ {w} : event'[v] = event[v]
    BY <1>19 DEF IInv, Typed, EventTyped, ChildFails, Releases, Erased
  <2>5. \A v \in Workers \ {w} : target'[v] = target[v]
    BY <1>19 DEF IInv, Typed, EventTyped, ChildFails, Releases, Erased
  <2>6. \A v \in Workers \ {w} : waking'[v] = waking[v]
    BY <1>19 DEF IInv, Typed, EventTyped, ChildFails, Releases, Erased
  <2>7. \A v \in Workers \ {w} : batch'[v] = batch[v]
    BY <1>19 DEF IInv, Typed, EventTyped, ChildFails, Releases, Erased
  <2> QED BY <2>1, <2>2, <2>3, <2>4, <2>5, <2>6, <2>7
<1>20. CASE RootFails(w)
  BY <1>20 DEF RootFails
<1>21. CASE Frees(w)
  BY <1>21 DEF Frees
<1>22. CASE TakesWoken(w)
  BY <1>22 DEF TakesWoken
<1>23. CASE EnqueueDone(w)
  BY <1>23 DEF EnqueueDone
<1>24. CASE EnqueueLoads(w)
  BY <1>24 DEF EnqueueLoads
<1>25. CASE EnqueuePushes(w)
  BY <1>25 DEF EnqueuePushes, EnqueueLeaves
<1>26. CASE EnqueueMarks(w)
  BY <1>26 DEF EnqueueMarks
<1>27. CASE EnqueueRechecks(w)
  <2>1. \A v \in Workers \ {w} : pc'[v] = pc[v]
    BY <1>27 DEF IInv, Typed, EventTyped, EnqueueRechecks, EnqueueLeaves, OwnerLeft
  <2>2. \A v \in Workers \ {w} : back'[v] = back[v]
    BY <1>27 DEF IInv, Typed, EventTyped, EnqueueRechecks, EnqueueLeaves, OwnerLeft
  <2>3. \A v \in Workers \ {w} : at'[v] = at[v]
    BY <1>27 DEF IInv, Typed, EventTyped, EnqueueRechecks, EnqueueLeaves, OwnerLeft
  <2>4. \A v \in Workers \ {w} : event'[v] = event[v]
    BY <1>27 DEF IInv, Typed, EventTyped, EnqueueRechecks, EnqueueLeaves, OwnerLeft
  <2>5. \A v \in Workers \ {w} : target'[v] = target[v]
    BY <1>27 DEF IInv, Typed, EventTyped, EnqueueRechecks, EnqueueLeaves, OwnerLeft
  <2>6. \A v \in Workers \ {w} : waking'[v] = waking[v]
    BY <1>27 DEF IInv, Typed, EventTyped, EnqueueRechecks, EnqueueLeaves, OwnerLeft
  <2>7. \A v \in Workers \ {w} : batch'[v] = batch[v]
    BY <1>27 DEF IInv, Typed, EventTyped, EnqueueRechecks, EnqueueLeaves, OwnerLeft
  <2> QED BY <2>1, <2>2, <2>3, <2>4, <2>5, <2>6, <2>7
<1> QED BY <1>1, <1>2, <1>3, <1>4, <1>5, <1>6, <1>7, <1>8, <1>9, <1>10, <1>11, <1>12,
   <1>13, <1>14, <1>15, <1>16, <1>17, <1>18, <1>19, <1>20, <1>21, <1>22, <1>23, <1>24,
   <1>25, <1>26, <1>27 DEF Worker

LEMMA EventsKept == ASSUME EventTyped, NEW w \in Workers, Worker(w) PROVE EventTyped'
BY DEF EventTyped, Worker, Pop, Unmark, Activate, ActivateFails, ServeNothing,
   ServeProved, MissesCache, AcquireParks, AcquireOwns, AcquireSaturated, SearchYields,
   SearchDonates, SearchFinishes, FinishedEvent, Wakes, GivesUp, ExchangesRerun,
   EnqueuesAgain, Closes, ChildFails, RootFails, Frees, TakesWoken, EnqueueDone,
   EnqueueLoads, EnqueuePushes, EnqueueMarks, EnqueueRechecks, Returns, Enters

LEMMA PhasesGo == ASSUME IInv, NEW w \in Workers, Worker(w) PROVE PhasesAdvance
<1>1. CASE phase' = phase
  BY <1>1 DEF PhasesAdvance, Started
<1>2. ASSUME NEW r \in Regions, NEW p, phase' = [phase EXCEPT ![r] = p],
             <<phase[r], p>> \in {<<"root", "entered">>, <<"root", "failed">>,
                <<"entered", "partial">>, <<"entered", "failed">>,
                <<"partial", "failed">>, <<"absent", "root">>}
      PROVE  PhasesAdvance
  <2>1. phase'[r] = p /\ \A q \in Regions \ {r} : phase'[q] = phase[q]
    BY <1>2 DEF IInv, Typed
  <2> QED BY <1>2, <2>1 DEF PhasesAdvance, Started
<1>3. ASSUME ServeProved(w) \/ AcquireOwns(w) \/ AcquireSaturated(w) PROVE PhasesAdvance
  <2>1. at[w] \in Regions /\ phase[at[w]] = "root"
    BY <1>3 DEF IInv, Placed, MutexHeld, ServeProved, AcquireOwns, AcquireSaturated
  <2>2. PICK p \in {"entered", "failed"} : phase' = [phase EXCEPT ![at[w]] = p]
    BY <1>3 DEF ServeProved, AcquireOwns, AcquireSaturated, Enters
  <2>3. PICK r \in Regions : r = at[w]
    BY <2>1
  <2> QED BY <1>2, <2>1, <2>2, <2>3
<1>4. ASSUME SearchFinishes(w) PROVE PhasesAdvance
  <2>1. at[w] \in Regions /\ phase[at[w]] = "entered"
    BY <1>4 DEF IInv, Placed, MutexHeld, SearchFinishes
  <2>2. PICK p \in {"partial", "failed"} : phase' = [phase EXCEPT ![at[w]] = p]
    BY <1>4 DEF SearchFinishes, FinishedPhase
  <2>3. PICK r \in Regions : r = at[w]
    BY <2>1
  <2> QED BY <1>2, <2>1, <2>2, <2>3
<1>5. ASSUME SearchDonates(w) PROVE PhasesAdvance
  <2>1. PICK c \in Regions : phase[c] = "absent" /\ phase' = [phase EXCEPT ![c] = "root"]
    BY <1>5 DEF SearchDonates
  <2> QED BY <1>2, <2>1
<1>6. ASSUME ChildFails(w) PROVE PhasesAdvance
  <2>1. phase' = phase \/ \E p \in Regions : phase[p] = "partial"
                            /\ phase' = [phase EXCEPT ![p] = "failed"]
    <3>1. cursor[w] \in Regions \ {Root}
      BY <1>6 DEF IInv, Placed, ChildFails
    <3>2. Parent[cursor[w]] \in Regions
      BY <3>1, RegionsAssumption
    <3> QED BY <1>6, <3>2 DEF ChildFails
  <2> QED BY <1>1, <1>2, <2>1
<1>7. ASSUME \/ Pop(w) \/ Unmark(w) \/ Activate(w) \/ ActivateFails(w) \/ ServeNothing(w)
             \/ MissesCache(w) \/ AcquireParks(w) \/ SearchYields(w) \/ Wakes(w) \/ GivesUp(w)
             \/ ExchangesRerun(w) \/ EnqueuesAgain(w) \/ Closes(w) \/ RootFails(w) \/ Frees(w)
             \/ TakesWoken(w) \/ EnqueueDone(w) \/ EnqueueLoads(w) \/ EnqueuePushes(w) \/ EnqueueMarks(w)
             \/ EnqueueRechecks(w)
      PROVE  phase' = phase
  BY <1>7 DEF Pop, Unmark, Activate, ActivateFails, ServeNothing, MissesCache,
     AcquireParks, SearchYields, Wakes, GivesUp, ExchangesRerun, EnqueuesAgain, Closes,
     RootFails, Frees, TakesWoken, EnqueueDone, EnqueueLoads, EnqueuePushes, EnqueueMarks,
     EnqueueRechecks, regionVars
<1> QED BY <1>1, <1>3, <1>4, <1>5, <1>6, <1>7 DEF Worker

\* A worker that neither begins nor ends a service, ends one, begins one.
LEMMA ServiceGoesOn ==
    ASSUME ActiveServed, NEW w \in Workers, Others(w), active' = active,
           InService(w) => at'[w] = at[w], InService(w)' <=> InService(w)
    PROVE  ActiveServed'
<1>1. \A v \in Workers : (InService(v)' <=> InService(v)) /\ (InService(v) => at'[v] = at[v])
  BY DEF Others, InService
<1> QED BY <1>1 DEF ActiveServed

LEMMA ServiceEnds ==
    ASSUME ActiveServed, NEW w \in Workers, Others(w), InService(w), ~InService(w)',
           active' = active \ {at[w]}
    PROVE  ActiveServed'
<1>1. \A v \in Workers \ {w} : (InService(v)' <=> InService(v)) /\ at'[v] = at[v]
  BY DEF Others, InService
<1>2. \A v \in Workers \ {w} : InService(v) => at[v] # at[w]
  BY DEF ActiveServed
<1> QED BY <1>1, <1>2 DEF ActiveServed

LEMMA ServiceBegins ==
    ASSUME ActiveServed, NEW w \in Workers, Others(w), ~InService(w), InService(w)',
           at'[w] = at[w], at[w] \in Regions \ active, active' = active \cup {at[w]}
    PROVE  ActiveServed'
<1>1. \A v \in Workers \ {w} : (InService(v)' <=> InService(v)) /\ at'[v] = at[v]
  BY DEF Others, InService
<1> QED BY <1>1 DEF ActiveServed

LEMMA HandsKept ==
    ASSUME HandsEmpty, NEW w \in Workers, Others(w),
           pc'[w] # "wake" => waking'[w] = {}, pc'[w] \notin Enqueueing => batch'[w] = {},
           pc'[w] \in {"push", "mark", "recheck"} => target'[w] \in batch'[w]
    PROVE  HandsEmpty'
BY DEF HandsEmpty, Others

\* What is known of the region of a service stays known; only the worker's own
\* place and the newly closed regions have to be looked at.
LEMMA StartedKept ==
    ASSUME IInv, ActiveServed, ServiceStarted, NEW w \in Workers, Others(w), PhasesAdvance,
           InService(w)' /\ pc'[w] \notin {"serve", "acquire", "settle"} => Started(at[w])',
           InService(w)' /\ pc'[w] \notin {"serve", "acquire", "search"} /\ event'[w] = "terminal"
                => phase'[at'[w]] = "failed",
           Closing(w)' => phase'[at'[w]] = "failed",
           \A r \in notified' \ notified : r \in Regions /\ phase'[r] = "failed"
    PROVE  ServiceStarted'
<1>0. \A v \in Workers : InService(v) => at[v] \in Regions
  BY DEF ActiveServed
<1>1. \A v \in Workers \ {w} : InService(v)' <=> InService(v)
  BY DEF Others, InService
<1>2. \A v \in Workers \ {w} : (Closing(v)' <=> Closing(v)) /\ (Closing(v) => InService(v))
  BY DEF Others, InService, Closing
<1>3. ASSUME NEW v \in Workers, InService(v)', pc'[v] \notin {"serve", "acquire", "settle"}
      PROVE  Started(at[v])'
  <2>1. CASE v # w
    <3>1. /\ pc'[v] = pc[v] /\ at'[v] = at[v] /\ InService(v) /\ at[v] \in Regions
      BY <1>0, <1>1, <1>3, <2>1 DEF Others
    <3>2. PICK r \in Regions : r = at[v]
      BY <3>1
    <3>3. Started(r)
      BY <1>3, <3>1, <3>2 DEF ServiceStarted
    <3>4. Started(r)'
      BY <3>3 DEF PhasesAdvance
    <3> QED BY <3>1, <3>2, <3>4 DEF Started
  <2> QED BY <1>3, <2>1
<1>4. ASSUME NEW v \in Workers, InService(v)', event'[v] = "terminal",
             pc'[v] \notin {"serve", "acquire", "search"}
      PROVE  phase'[at'[v]] = "failed"
  <2>1. CASE v # w
    <3>1. /\ pc'[v] = pc[v] /\ at'[v] = at[v] /\ InService(v) /\ at[v] \in Regions
          /\ event[v] = "terminal"
      BY <1>0, <1>1, <1>4, <2>1 DEF Others
    <3>2. phase[at[v]] = "failed"
      BY <1>4, <3>1 DEF ServiceStarted
    <3> QED BY <3>1, <3>2 DEF PhasesAdvance
  <2> QED BY <1>4, <2>1
<1>5. ASSUME NEW v \in Workers,
             Closing(v)'
      PROVE  phase'[at'[v]] = "failed"
  <2>1. CASE v # w
    <3>1. /\ pc'[v] = pc[v] /\ at'[v] = at[v] /\ back'[v] = back[v]
      BY <2>1 DEF Others
    <3>2. at[v] \in Regions
      BY <1>0, <1>2, <1>5, <2>1, <3>1
    <3>3. phase[at[v]] = "failed"
      BY <1>2, <1>5, <2>1, <3>1 DEF ServiceStarted
    <3> QED BY <3>1, <3>2, <3>3 DEF PhasesAdvance
  <2> QED BY <1>5, <2>1
<1>6. \A r \in notified' : r \in Regions /\ phase'[r] = "failed"
  BY DEF ServiceStarted, PhasesAdvance
<1> QED BY <1>3, <1>4, <1>5, <1>6 DEF ServiceStarted

\* A region is still cared for if whatever a step of w takes from it, w takes over,
\* and what w did for it is done.
LEMMA CareKept ==
    ASSUME NEW w \in Workers, NEW r \in Regions, Others(w), Cared(r),
           r \in queued => r \in queued' \/ Cared(r)',
           r \in woken => r \in woken' \/ Cared(r)',
           Parked(r) => Parked(r)' \/ Cared(r)',
           r \in rerun => r \in rerun' \/ Cared(r)',
           CaredBy(w, r) => Cared(r)'
    PROVE  Cared(r)'
<1>1. ASSUME NEW v \in Workers \ {w}, CaredBy(v, r), r \in rerun => r \in rerun'
      PROVE  CaredBy(v, r)'
  BY <1>1 DEF CaredBy, Others
<1> QED BY <1>1 DEF Cared

LEMMA PopWakes ==
    ASSUME IInv, WakeInv, NEW w \in Workers, Pop(w) PROVE WakeInv'
<1>0. Others(w) /\ PhasesAdvance /\ EventTyped'
  BY OthersStay, PhasesGo, EventsKept DEF Worker, WakeInv
<1>1. ActiveServed'
  <2>1. /\ active' = active /\ (InService(w)' <=> InService(w))
        /\ InService(w) => at'[w] = at[w]
    BY DEF IInv, Typed, Placed, InService, Closing, Enqueueing, Pop, Goes, tableVars,
       regionVars, flagVars, enqVars
  <2> QED BY <1>0, <2>1, ServiceGoesOn DEF WakeInv
<1>2. HandsEmpty'
  <2>1. pc'[w] # "wake" => waking'[w] = {}
    BY DEF IInv, Typed, Placed, WakeInv, HandsEmpty, Enqueueing, Pop, Goes, tableVars,
       regionVars, flagVars, enqVars
  <2>2. pc'[w] \notin Enqueueing => batch'[w] = {}
    BY DEF IInv, Typed, Placed, WakeInv, HandsEmpty, Enqueueing, Pop, Goes, tableVars,
       regionVars, flagVars, enqVars
  <2>3. pc'[w] \in {"push", "mark", "recheck"} => target'[w] \in batch'[w]
    BY DEF IInv, Typed, Placed, WakeInv, HandsEmpty, Enqueueing, Pop, Goes, tableVars,
       regionVars, flagVars, enqVars
  <2> QED BY <1>0, <2>1, <2>2, <2>3, HandsKept DEF WakeInv
<1>3. ServiceStarted'
  <2>1. InService(w)' /\ pc'[w] \notin {"serve", "acquire", "settle"} => Started(at[w])'
    BY <1>0 DEF IInv, Typed, Placed, MutexHeld, WakeInv, ServiceStarted, ActiveServed,
       PhasesAdvance, Started, InService, Closing, Enqueueing, Pop, Goes, tableVars,
       regionVars, flagVars, enqVars
  <2>2. InService(w)' /\ pc'[w] \notin {"serve", "acquire", "search"} /\ event'[w] = "terminal"
            => phase'[at'[w]] = "failed"
    BY <1>0 DEF IInv, Typed, Placed, MutexHeld, WakeInv, ServiceStarted, ActiveServed,
       PhasesAdvance, InService, Closing, Enqueueing, Pop, Goes, tableVars, regionVars,
       flagVars, enqVars
  <2>3. Closing(w)' => phase'[at'[w]] = "failed"
    BY <1>0 DEF IInv, Typed, Placed, MutexHeld, WakeInv, ServiceStarted, ActiveServed,
       PhasesAdvance, InService, Closing, Enqueueing, Pop, Goes, tableVars, regionVars,
       flagVars, enqVars
  <2>4. \A r \in notified' \ notified : r \in Regions /\ phase'[r] = "failed"
    BY DEF Pop, Goes, tableVars, regionVars, flagVars, enqVars
  <2> QED BY <1>0, <2>1, <2>2, <2>3, <2>4, StartedKept DEF WakeInv
<1>4. AllCared'
  <2> SUFFICES ASSUME NEW r \in Regions, phase'[r] = "root" PROVE Cared(r)'
    BY DEF AllCared
  <2>1. phase[r] = "root" /\ Cared(r)
    BY <1>0 DEF PhasesAdvance, WakeInv, AllCared, Pop, Goes, tableVars, regionVars,
       flagVars, enqVars
  <2>2. r \in queued => r \in queued' \/ Cared(r)'
    BY DEF Pop, Goes, tableVars, regionVars, flagVars, enqVars
  <2>3. r \in woken => r \in woken' \/ Cared(r)'
    BY DEF Pop, Goes, tableVars, regionVars, flagVars, enqVars
  <2>4. Parked(r) => Parked(r)' \/ Cared(r)'
    BY DEF Parked, Pop, Goes, tableVars, regionVars, flagVars, enqVars
  <2>5. r \in rerun => r \in rerun' \/ Cared(r)'
    BY DEF Pop, Goes, tableVars, regionVars, flagVars, enqVars
  <2>6. CaredBy(w, r) => Cared(r)'
    BY DEF Cared, CaredBy, IInv, Typed, WakeInv, HandsEmpty, Enqueueing, Pop, Goes,
       tableVars, regionVars, flagVars, enqVars
  <2> QED BY <1>0, <2>1, <2>2, <2>3, <2>4, <2>5, <2>6, CareKept
<1> QED BY <1>0, <1>1, <1>2, <1>3, <1>4 DEF WakeInv

LEMMA UnmarkWakes ==
    ASSUME IInv, WakeInv, NEW w \in Workers, Unmark(w) PROVE WakeInv'
<1>0. Others(w) /\ PhasesAdvance /\ EventTyped'
  BY OthersStay, PhasesGo, EventsKept DEF Worker, WakeInv
<1>1. ActiveServed'
  <2>1. /\ active' = active /\ (InService(w)' <=> InService(w))
        /\ InService(w) => at'[w] = at[w]
    BY DEF IInv, Typed, Placed, InService, Closing, Enqueueing, Unmark, Goes, tableVars,
       regionVars, flagVars, enqVars
  <2> QED BY <1>0, <2>1, ServiceGoesOn DEF WakeInv
<1>2. HandsEmpty'
  <2>1. pc'[w] # "wake" => waking'[w] = {}
    BY DEF IInv, Typed, Placed, WakeInv, HandsEmpty, Enqueueing, Unmark, Goes, tableVars,
       regionVars, flagVars, enqVars
  <2>2. pc'[w] \notin Enqueueing => batch'[w] = {}
    BY DEF IInv, Typed, Placed, WakeInv, HandsEmpty, Enqueueing, Unmark, Goes, tableVars,
       regionVars, flagVars, enqVars
  <2>3. pc'[w] \in {"push", "mark", "recheck"} => target'[w] \in batch'[w]
    BY DEF IInv, Typed, Placed, WakeInv, HandsEmpty, Enqueueing, Unmark, Goes, tableVars,
       regionVars, flagVars, enqVars
  <2> QED BY <1>0, <2>1, <2>2, <2>3, HandsKept DEF WakeInv
<1>3. ServiceStarted'
  <2>1. InService(w)' /\ pc'[w] \notin {"serve", "acquire", "settle"} => Started(at[w])'
    BY <1>0 DEF IInv, Typed, Placed, MutexHeld, WakeInv, ServiceStarted, ActiveServed,
       PhasesAdvance, Started, InService, Closing, Enqueueing, Unmark, Goes, tableVars,
       regionVars, flagVars, enqVars
  <2>2. InService(w)' /\ pc'[w] \notin {"serve", "acquire", "search"} /\ event'[w] = "terminal"
            => phase'[at'[w]] = "failed"
    BY <1>0 DEF IInv, Typed, Placed, MutexHeld, WakeInv, ServiceStarted, ActiveServed,
       PhasesAdvance, InService, Closing, Enqueueing, Unmark, Goes, tableVars, regionVars,
       flagVars, enqVars
  <2>3. Closing(w)' => phase'[at'[w]] = "failed"
    BY <1>0 DEF IInv, Typed, Placed, MutexHeld, WakeInv, ServiceStarted, ActiveServed,
       PhasesAdvance, InService, Closing, Enqueueing, Unmark, Goes, tableVars, regionVars,
       flagVars, enqVars
  <2>4. \A r \in notified' \ notified : r \in Regions /\ phase'[r] = "failed"
    BY DEF Unmark, Goes, tableVars, regionVars, flagVars, enqVars
  <2> QED BY <1>0, <2>1, <2>2, <2>3, <2>4, StartedKept DEF WakeInv
<1>4. AllCared'
  <2> SUFFICES ASSUME NEW r \in Regions, phase'[r] = "root" PROVE Cared(r)'
    BY DEF AllCared
  <2>1. phase[r] = "root" /\ Cared(r)
    BY <1>0 DEF PhasesAdvance, WakeInv, AllCared, Unmark, Goes, tableVars, regionVars,
       flagVars, enqVars
  <2>2. r \in queued => r \in queued' \/ Cared(r)'
    BY DEF Cared, CaredBy, IInv, Typed, Unmark, Goes, tableVars, regionVars, flagVars,
       enqVars
  <2>3. r \in woken => r \in woken' \/ Cared(r)'
    BY DEF Unmark, Goes, tableVars, regionVars, flagVars, enqVars
  <2>4. Parked(r) => Parked(r)' \/ Cared(r)'
    BY DEF Parked, Unmark, Goes, tableVars, regionVars, flagVars, enqVars
  <2>5. r \in rerun => r \in rerun' \/ Cared(r)'
    BY DEF Unmark, Goes, tableVars, regionVars, flagVars, enqVars
  <2>6. CaredBy(w, r) => Cared(r)'
    BY DEF Cared, CaredBy, IInv, Typed, WakeInv, HandsEmpty, Enqueueing, Unmark, Goes,
       tableVars, regionVars, flagVars, enqVars
  <2> QED BY <1>0, <2>1, <2>2, <2>3, <2>4, <2>5, <2>6, CareKept
<1> QED BY <1>0, <1>1, <1>2, <1>3, <1>4 DEF WakeInv

LEMMA ActivateWakes ==
    ASSUME IInv, WakeInv, NEW w \in Workers, Activate(w) PROVE WakeInv'
<1>0. Others(w) /\ PhasesAdvance /\ EventTyped'
  BY OthersStay, PhasesGo, EventsKept DEF Worker, WakeInv
<1>1. ActiveServed'
  <2>1. CASE at[w] \in notified
    <3>1. active' = active /\ ~InService(w) /\ ~InService(w)'
      BY <2>1 DEF IInv, Typed, InService, Enqueueing, Activate, Goes, tableVars,
         regionVars, flagVars, enqVars
    <3> QED BY <1>0, <3>1, ServiceGoesOn DEF WakeInv
  <2>2. CASE at[w] \notin notified
    <3>1. /\ active' = active \cup {at[w]} /\ ~InService(w) /\ InService(w)'
          /\ at'[w] = at[w] /\ at[w] \in Regions \ active
      BY <2>2 DEF IInv, Typed, Placed, InService, Enqueueing, Activate, Goes, tableVars,
         regionVars, flagVars, enqVars
    <3> QED BY <1>0, <3>1, ServiceBegins DEF WakeInv
  <2> QED BY <2>1, <2>2
<1>2. HandsEmpty'
  <2>1. pc'[w] # "wake" => waking'[w] = {}
    BY DEF IInv, Typed, Placed, WakeInv, HandsEmpty, Enqueueing, Activate, Goes,
       tableVars, regionVars, flagVars, enqVars
  <2>2. pc'[w] \notin Enqueueing => batch'[w] = {}
    BY DEF IInv, Typed, Placed, WakeInv, HandsEmpty, Enqueueing, Activate, Goes,
       tableVars, regionVars, flagVars, enqVars
  <2>3. pc'[w] \in {"push", "mark", "recheck"} => target'[w] \in batch'[w]
    BY DEF IInv, Typed, Placed, WakeInv, HandsEmpty, Enqueueing, Activate, Goes,
       tableVars, regionVars, flagVars, enqVars
  <2> QED BY <1>0, <2>1, <2>2, <2>3, HandsKept DEF WakeInv
<1>3. ServiceStarted'
  <2>1. InService(w)' /\ pc'[w] \notin {"serve", "acquire", "settle"} => Started(at[w])'
    BY <1>0 DEF IInv, Typed, Placed, MutexHeld, WakeInv, ServiceStarted, ActiveServed,
       PhasesAdvance, Started, InService, Closing, Enqueueing, Activate, Goes, tableVars,
       regionVars, flagVars, enqVars
  <2>2. InService(w)' /\ pc'[w] \notin {"serve", "acquire", "search"} /\ event'[w] = "terminal"
            => phase'[at'[w]] = "failed"
    BY <1>0 DEF IInv, Typed, Placed, MutexHeld, WakeInv, ServiceStarted, ActiveServed,
       PhasesAdvance, InService, Closing, Enqueueing, Activate, Goes, tableVars,
       regionVars, flagVars, enqVars
  <2>3. Closing(w)' => phase'[at'[w]] = "failed"
    BY <1>0 DEF IInv, Typed, Placed, MutexHeld, WakeInv, ServiceStarted, ActiveServed,
       PhasesAdvance, InService, Closing, Enqueueing, Activate, Goes, tableVars,
       regionVars, flagVars, enqVars
  <2>4. \A r \in notified' \ notified : r \in Regions /\ phase'[r] = "failed"
    BY DEF Activate, Goes, tableVars, regionVars, flagVars, enqVars
  <2> QED BY <1>0, <2>1, <2>2, <2>3, <2>4, StartedKept DEF WakeInv
<1>4. AllCared'
  <2> SUFFICES ASSUME NEW r \in Regions, phase'[r] = "root" PROVE Cared(r)'
    BY DEF AllCared
  <2>1. phase[r] = "root" /\ Cared(r)
    BY <1>0 DEF PhasesAdvance, WakeInv, AllCared, Activate, Goes, tableVars, regionVars,
       flagVars, enqVars
  <2>2. r \in queued => r \in queued' \/ Cared(r)'
    BY DEF Activate, Goes, tableVars, regionVars, flagVars, enqVars
  <2>3. r \in woken => r \in woken' \/ Cared(r)'
    BY DEF Activate, Goes, tableVars, regionVars, flagVars, enqVars
  <2>4. Parked(r) => Parked(r)' \/ Cared(r)'
    BY DEF Parked, Activate, Goes, tableVars, regionVars, flagVars, enqVars
  <2>5. r \in rerun => r \in rerun' \/ Cared(r)'
    BY <2>1 DEF WakeInv, ServiceStarted, Activate, Goes, tableVars, regionVars, flagVars,
       enqVars
  <2>6. CaredBy(w, r) => Cared(r)'
    <3>1. r \notin notified
      BY <2>1 DEF WakeInv, ServiceStarted
    <3>2. CaredBy(w, r) => at[w] = r
      BY DEF CaredBy, WakeInv, HandsEmpty, Enqueueing, Activate
    <3>3. at[w] = r => pc'[w] = "serve" /\ at'[w] = r
      BY <3>1 DEF IInv, Typed, Activate, Goes, tableVars, regionVars, flagVars, enqVars
    <3> QED BY <3>2, <3>3 DEF Cared, CaredBy
  <2> QED BY <1>0, <2>1, <2>2, <2>3, <2>4, <2>5, <2>6, CareKept
<1> QED BY <1>0, <1>1, <1>2, <1>3, <1>4 DEF WakeInv

LEMMA ActivateFailsWakes ==
    ASSUME IInv, WakeInv, NEW w \in Workers, ActivateFails(w) PROVE WakeInv'
<1>0. Others(w) /\ PhasesAdvance /\ EventTyped'
  BY OthersStay, PhasesGo, EventsKept DEF Worker, WakeInv
<1>1. ActiveServed'
  <2>1. /\ active' = active /\ (InService(w)' <=> InService(w))
        /\ InService(w) => at'[w] = at[w]
    BY DEF IInv, Typed, Placed, InService, Closing, Enqueueing, ActivateFails, Goes,
       tableVars, regionVars, flagVars, enqVars
  <2> QED BY <1>0, <2>1, ServiceGoesOn DEF WakeInv
<1>2. HandsEmpty'
  <2>1. pc'[w] # "wake" => waking'[w] = {}
    BY DEF IInv, Typed, Placed, WakeInv, HandsEmpty, Enqueueing, ActivateFails, Goes,
       tableVars, regionVars, flagVars, enqVars
  <2>2. pc'[w] \notin Enqueueing => batch'[w] = {}
    BY DEF IInv, Typed, Placed, WakeInv, HandsEmpty, Enqueueing, ActivateFails, Goes,
       tableVars, regionVars, flagVars, enqVars
  <2>3. pc'[w] \in {"push", "mark", "recheck"} => target'[w] \in batch'[w]
    BY DEF IInv, Typed, Placed, WakeInv, HandsEmpty, Enqueueing, ActivateFails, Goes,
       tableVars, regionVars, flagVars, enqVars
  <2> QED BY <1>0, <2>1, <2>2, <2>3, HandsKept DEF WakeInv
<1>3. ServiceStarted'
  <2>1. InService(w)' /\ pc'[w] \notin {"serve", "acquire", "settle"} => Started(at[w])'
    BY <1>0 DEF IInv, Typed, Placed, MutexHeld, WakeInv, ServiceStarted, ActiveServed,
       PhasesAdvance, Started, InService, Closing, Enqueueing, ActivateFails, Goes,
       tableVars, regionVars, flagVars, enqVars
  <2>2. InService(w)' /\ pc'[w] \notin {"serve", "acquire", "search"} /\ event'[w] = "terminal"
            => phase'[at'[w]] = "failed"
    BY <1>0 DEF IInv, Typed, Placed, MutexHeld, WakeInv, ServiceStarted, ActiveServed,
       PhasesAdvance, InService, Closing, Enqueueing, ActivateFails, Goes, tableVars,
       regionVars, flagVars, enqVars
  <2>3. Closing(w)' => phase'[at'[w]] = "failed"
    BY <1>0 DEF IInv, Typed, Placed, MutexHeld, WakeInv, ServiceStarted, ActiveServed,
       PhasesAdvance, InService, Closing, Enqueueing, ActivateFails, Goes, tableVars,
       regionVars, flagVars, enqVars
  <2>4. \A r \in notified' \ notified : r \in Regions /\ phase'[r] = "failed"
    BY DEF ActivateFails, Goes, tableVars, regionVars, flagVars, enqVars
  <2> QED BY <1>0, <2>1, <2>2, <2>3, <2>4, StartedKept DEF WakeInv
<1>4. AllCared'
  <2> SUFFICES ASSUME NEW r \in Regions, phase'[r] = "root" PROVE Cared(r)'
    BY DEF AllCared
  <2>1. phase[r] = "root" /\ Cared(r)
    BY <1>0 DEF PhasesAdvance, WakeInv, AllCared, ActivateFails, Goes, tableVars,
       regionVars, flagVars, enqVars
  <2>2. r \in queued => r \in queued' \/ Cared(r)'
    BY DEF ActivateFails, Goes, tableVars, regionVars, flagVars, enqVars
  <2>3. r \in woken => r \in woken' \/ Cared(r)'
    BY DEF ActivateFails, Goes, tableVars, regionVars, flagVars, enqVars
  <2>4. Parked(r) => Parked(r)' \/ Cared(r)'
    BY DEF Parked, ActivateFails, Goes, tableVars, regionVars, flagVars, enqVars
  <2>5. r \in rerun => r \in rerun' \/ Cared(r)'
    BY DEF ActivateFails, Goes, tableVars, regionVars, flagVars, enqVars
  <2>6. CaredBy(w, r) => Cared(r)'
    <3>1. CaredBy(w, r) => at[w] = r
      BY DEF CaredBy, WakeInv, HandsEmpty, Enqueueing, ActivateFails
    <3>2. ASSUME at[w] = r PROVE Cared(r)'
      <4>1. PICK v \in Workers : at[v] = r /\ InService(v)
        BY <3>2 DEF WakeInv, ActiveServed, ActivateFails
      <4>2. v # w
        BY <4>1 DEF InService, Enqueueing, ActivateFails
      <4>3. pc[v] \in {"serve", "acquire", "settle"}
        BY <2>1, <4>1 DEF WakeInv, ServiceStarted, Started
      <4>4. r \in rerun'
        BY <3>2 DEF ActivateFails
      <4> QED BY <1>0, <4>1, <4>2, <4>3, <4>4 DEF Others, Cared, CaredBy
    <3> QED BY <3>1, <3>2
  <2> QED BY <1>0, <2>1, <2>2, <2>3, <2>4, <2>5, <2>6, CareKept
<1> QED BY <1>0, <1>1, <1>2, <1>3, <1>4 DEF WakeInv

LEMMA ServeNothingWakes ==
    ASSUME IInv, WakeInv, NEW w \in Workers, ServeNothing(w) PROVE WakeInv'
<1>0. Others(w) /\ PhasesAdvance /\ EventTyped'
  BY OthersStay, PhasesGo, EventsKept DEF Worker, WakeInv
<1>1. ActiveServed'
  <2>1. /\ active' = active /\ (InService(w)' <=> InService(w))
        /\ InService(w) => at'[w] = at[w]
    BY DEF IInv, Typed, Placed, InService, Closing, Enqueueing, ServeNothing, Goes,
       Returns, tableVars, regionVars, flagVars, enqVars
  <2> QED BY <1>0, <2>1, ServiceGoesOn DEF WakeInv
<1>2. HandsEmpty'
  <2>1. pc'[w] # "wake" => waking'[w] = {}
    BY DEF IInv, Typed, Placed, WakeInv, HandsEmpty, Enqueueing, ServeNothing, Goes,
       Returns, tableVars, regionVars, flagVars, enqVars
  <2>2. pc'[w] \notin Enqueueing => batch'[w] = {}
    BY DEF IInv, Typed, Placed, WakeInv, HandsEmpty, Enqueueing, ServeNothing, Goes,
       Returns, tableVars, regionVars, flagVars, enqVars
  <2>3. pc'[w] \in {"push", "mark", "recheck"} => target'[w] \in batch'[w]
    BY DEF IInv, Typed, Placed, WakeInv, HandsEmpty, Enqueueing, ServeNothing, Goes,
       Returns, tableVars, regionVars, flagVars, enqVars
  <2> QED BY <1>0, <2>1, <2>2, <2>3, HandsKept DEF WakeInv
<1>3. ServiceStarted'
  <2>1. InService(w)' /\ pc'[w] \notin {"serve", "acquire", "settle"} => Started(at[w])'
    BY <1>0 DEF IInv, Typed, Placed, MutexHeld, WakeInv, ServiceStarted, ActiveServed,
       PhasesAdvance, Started, InService, Closing, Enqueueing, ServeNothing, Goes,
       Returns, tableVars, regionVars, flagVars, enqVars
  <2>2. InService(w)' /\ pc'[w] \notin {"serve", "acquire", "search"} /\ event'[w] = "terminal"
            => phase'[at'[w]] = "failed"
    <3>1. /\ event'[w] = (IF phase[at[w]] = "failed" THEN "terminal" ELSE "blocked")
          /\ at'[w] = at[w] /\ phase' = phase
      BY DEF IInv, Typed, WakeInv, EventTyped, ServeNothing, Goes, Returns, tableVars,
         regionVars, flagVars, enqVars
    <3> QED BY <3>1
  <2>3. Closing(w)' => phase'[at'[w]] = "failed"
    BY <1>0 DEF IInv, Typed, Placed, MutexHeld, WakeInv, ServiceStarted, ActiveServed,
       PhasesAdvance, Started, InService, Closing, Enqueueing, ServeNothing, Goes,
       Returns, tableVars, regionVars, flagVars, enqVars
  <2>4. \A r \in notified' \ notified : r \in Regions /\ phase'[r] = "failed"
    BY DEF ServeNothing, Goes, Returns, tableVars, regionVars, flagVars, enqVars
  <2> QED BY <1>0, <2>1, <2>2, <2>3, <2>4, StartedKept DEF WakeInv
<1>4. AllCared'
  <2> SUFFICES ASSUME NEW r \in Regions, phase'[r] = "root" PROVE Cared(r)'
    BY DEF AllCared
  <2>1. phase[r] = "root" /\ Cared(r)
    BY <1>0 DEF PhasesAdvance, WakeInv, AllCared, ServeNothing, Goes, Returns, tableVars,
       regionVars, flagVars, enqVars
  <2>2. r \in queued => r \in queued' \/ Cared(r)'
    BY DEF ServeNothing, Goes, Returns, tableVars, regionVars, flagVars, enqVars
  <2>3. r \in woken => r \in woken' \/ Cared(r)'
    BY DEF ServeNothing, Goes, Returns, tableVars, regionVars, flagVars, enqVars
  <2>4. Parked(r) => Parked(r)' \/ Cared(r)'
    BY DEF Parked, ServeNothing, Goes, Returns, tableVars, regionVars, flagVars, enqVars
  <2>5. r \in rerun => r \in rerun' \/ Cared(r)'
    BY DEF ServeNothing, Goes, Returns, tableVars, regionVars, flagVars, enqVars
  <2>6. CaredBy(w, r) => Cared(r)'
    <3>1. ~CaredBy(w, r)
      BY <2>1 DEF CaredBy, WakeInv, HandsEmpty, Enqueueing, ServeNothing, Runnable
    <3> QED BY <3>1
  <2> QED BY <1>0, <2>1, <2>2, <2>3, <2>4, <2>5, <2>6, CareKept
<1> QED BY <1>0, <1>1, <1>2, <1>3, <1>4 DEF WakeInv

LEMMA ServeProvedWakes ==
    ASSUME IInv, WakeInv, NEW w \in Workers, ServeProved(w) PROVE WakeInv'
<1>0. Others(w) /\ PhasesAdvance /\ EventTyped'
  BY OthersStay, PhasesGo, EventsKept DEF Worker, WakeInv
<1>1. ActiveServed'
  <2>1. /\ active' = active /\ (InService(w)' <=> InService(w))
        /\ InService(w) => at'[w] = at[w]
    BY DEF IInv, Typed, Placed, InService, Closing, Enqueueing, ServeProved, Goes,
       Returns, tableVars, regionVars, flagVars, enqVars
  <2> QED BY <1>0, <2>1, ServiceGoesOn DEF WakeInv
<1>2. HandsEmpty'
  <2>1. pc'[w] # "wake" => waking'[w] = {}
    BY DEF IInv, Typed, Placed, WakeInv, HandsEmpty, Enqueueing, ServeProved, Goes,
       Returns, tableVars, regionVars, flagVars, enqVars
  <2>2. pc'[w] \notin Enqueueing => batch'[w] = {}
    BY DEF IInv, Typed, Placed, WakeInv, HandsEmpty, Enqueueing, ServeProved, Goes,
       Returns, tableVars, regionVars, flagVars, enqVars
  <2>3. pc'[w] \in {"push", "mark", "recheck"} => target'[w] \in batch'[w]
    BY DEF IInv, Typed, Placed, WakeInv, HandsEmpty, Enqueueing, ServeProved, Goes,
       Returns, tableVars, regionVars, flagVars, enqVars
  <2> QED BY <1>0, <2>1, <2>2, <2>3, HandsKept DEF WakeInv
<1>3. ServiceStarted'
  <2>1. InService(w)' /\ pc'[w] \notin {"serve", "acquire", "settle"} => Started(at[w])'
    BY <1>0 DEF IInv, Typed, Placed, MutexHeld, WakeInv, ServiceStarted, ActiveServed,
       PhasesAdvance, Started, InService, Closing, Enqueueing, ServeProved, Goes, Returns,
       tableVars, regionVars, flagVars, enqVars
  <2>2. InService(w)' /\ pc'[w] \notin {"serve", "acquire", "search"} /\ event'[w] = "terminal"
            => phase'[at'[w]] = "failed"
    BY <1>0 DEF IInv, Typed, Placed, MutexHeld, WakeInv, ServiceStarted, ActiveServed,
       PhasesAdvance, InService, Closing, Enqueueing, ServeProved, Goes, Returns,
       tableVars, regionVars, flagVars, enqVars
  <2>3. Closing(w)' => phase'[at'[w]] = "failed"
    BY <1>0 DEF IInv, Typed, Placed, MutexHeld, WakeInv, ServiceStarted, ActiveServed,
       PhasesAdvance, InService, Closing, Enqueueing, ServeProved, Goes, Returns,
       tableVars, regionVars, flagVars, enqVars
  <2>4. \A r \in notified' \ notified : r \in Regions /\ phase'[r] = "failed"
    BY DEF ServeProved, Goes, Returns, tableVars, regionVars, flagVars, enqVars
  <2> QED BY <1>0, <2>1, <2>2, <2>3, <2>4, StartedKept DEF WakeInv
<1>4. AllCared'
  <2> SUFFICES ASSUME NEW r \in Regions, phase'[r] = "root" PROVE Cared(r)'
    BY DEF AllCared
  <2>1. phase[r] = "root" /\ Cared(r)
    BY <1>0 DEF PhasesAdvance, WakeInv, AllCared, ServeProved, Goes, Returns, tableVars,
       regionVars, flagVars, enqVars
  <2>2. r \in queued => r \in queued' \/ Cared(r)'
    BY DEF ServeProved, Goes, Returns, tableVars, regionVars, flagVars, enqVars
  <2>3. r \in woken => r \in woken' \/ Cared(r)'
    BY DEF ServeProved, Goes, Returns, tableVars, regionVars, flagVars, enqVars
  <2>4. Parked(r) => Parked(r)' \/ Cared(r)'
    BY DEF Parked, ServeProved, Goes, Returns, tableVars, regionVars, flagVars, enqVars
  <2>5. r \in rerun => r \in rerun' \/ Cared(r)'
    BY DEF ServeProved, Goes, Returns, tableVars, regionVars, flagVars, enqVars
  <2>6. CaredBy(w, r) => Cared(r)'
    BY DEF Cared, CaredBy, IInv, Typed, WakeInv, HandsEmpty, Enqueueing, ServeProved,
       Goes, Returns, tableVars, regionVars, flagVars, enqVars
  <2> QED BY <1>0, <2>1, <2>2, <2>3, <2>4, <2>5, <2>6, CareKept
<1> QED BY <1>0, <1>1, <1>2, <1>3, <1>4 DEF WakeInv

LEMMA MissesCacheWakes ==
    ASSUME IInv, WakeInv, NEW w \in Workers, MissesCache(w) PROVE WakeInv'
<1>0. Others(w) /\ PhasesAdvance /\ EventTyped'
  BY OthersStay, PhasesGo, EventsKept DEF Worker, WakeInv
<1>1. ActiveServed'
  <2>1. /\ active' = active /\ (InService(w)' <=> InService(w))
        /\ InService(w) => at'[w] = at[w]
    BY DEF IInv, Typed, Placed, InService, Closing, Enqueueing, MissesCache, Goes,
       tableVars, regionVars, flagVars, enqVars
  <2> QED BY <1>0, <2>1, ServiceGoesOn DEF WakeInv
<1>2. HandsEmpty'
  <2>1. pc'[w] # "wake" => waking'[w] = {}
    BY DEF IInv, Typed, Placed, WakeInv, HandsEmpty, Enqueueing, MissesCache, Goes,
       tableVars, regionVars, flagVars, enqVars
  <2>2. pc'[w] \notin Enqueueing => batch'[w] = {}
    BY DEF IInv, Typed, Placed, WakeInv, HandsEmpty, Enqueueing, MissesCache, Goes,
       tableVars, regionVars, flagVars, enqVars
  <2>3. pc'[w] \in {"push", "mark", "recheck"} => target'[w] \in batch'[w]
    BY DEF IInv, Typed, Placed, WakeInv, HandsEmpty, Enqueueing, MissesCache, Goes,
       tableVars, regionVars, flagVars, enqVars
  <2> QED BY <1>0, <2>1, <2>2, <2>3, HandsKept DEF WakeInv
<1>3. ServiceStarted'
  <2>1. InService(w)' /\ pc'[w] \notin {"serve", "acquire", "settle"} => Started(at[w])'
    BY <1>0 DEF IInv, Typed, Placed, MutexHeld, WakeInv, ServiceStarted, ActiveServed,
       PhasesAdvance, Started, InService, Closing, Enqueueing, MissesCache, Goes,
       tableVars, regionVars, flagVars, enqVars
  <2>2. InService(w)' /\ pc'[w] \notin {"serve", "acquire", "search"} /\ event'[w] = "terminal"
            => phase'[at'[w]] = "failed"
    BY <1>0 DEF IInv, Typed, Placed, MutexHeld, WakeInv, ServiceStarted, ActiveServed,
       PhasesAdvance, InService, Closing, Enqueueing, MissesCache, Goes, tableVars,
       regionVars, flagVars, enqVars
  <2>3. Closing(w)' => phase'[at'[w]] = "failed"
    BY <1>0 DEF IInv, Typed, Placed, MutexHeld, WakeInv, ServiceStarted, ActiveServed,
       PhasesAdvance, InService, Closing, Enqueueing, MissesCache, Goes, tableVars,
       regionVars, flagVars, enqVars
  <2>4. \A r \in notified' \ notified : r \in Regions /\ phase'[r] = "failed"
    BY DEF MissesCache, Goes, tableVars, regionVars, flagVars, enqVars
  <2> QED BY <1>0, <2>1, <2>2, <2>3, <2>4, StartedKept DEF WakeInv
<1>4. AllCared'
  <2> SUFFICES ASSUME NEW r \in Regions, phase'[r] = "root" PROVE Cared(r)'
    BY DEF AllCared
  <2>1. phase[r] = "root" /\ Cared(r)
    BY <1>0 DEF PhasesAdvance, WakeInv, AllCared, MissesCache, Goes, tableVars,
       regionVars, flagVars, enqVars
  <2>2. r \in queued => r \in queued' \/ Cared(r)'
    BY DEF MissesCache, Goes, tableVars, regionVars, flagVars, enqVars
  <2>3. r \in woken => r \in woken' \/ Cared(r)'
    BY DEF MissesCache, Goes, tableVars, regionVars, flagVars, enqVars
  <2>4. Parked(r) => Parked(r)' \/ Cared(r)'
    BY DEF Parked, MissesCache, Goes, tableVars, regionVars, flagVars, enqVars
  <2>5. r \in rerun => r \in rerun' \/ Cared(r)'
    BY DEF MissesCache, Goes, tableVars, regionVars, flagVars, enqVars
  <2>6. CaredBy(w, r) => Cared(r)'
    BY DEF Cared, CaredBy, IInv, Typed, WakeInv, HandsEmpty, Enqueueing, MissesCache,
       Goes, tableVars, regionVars, flagVars, enqVars
  <2> QED BY <1>0, <2>1, <2>2, <2>3, <2>4, <2>5, <2>6, CareKept
<1> QED BY <1>0, <1>1, <1>2, <1>3, <1>4 DEF WakeInv

LEMMA AcquireParksWakes ==
    ASSUME IInv, WakeInv, NEW w \in Workers, AcquireParks(w) PROVE WakeInv'
<1>0. Others(w) /\ PhasesAdvance /\ EventTyped'
  BY OthersStay, PhasesGo, EventsKept DEF Worker, WakeInv
<1>1. ActiveServed'
  <2>1. /\ active' = active /\ (InService(w)' <=> InService(w))
        /\ InService(w) => at'[w] = at[w]
    BY DEF IInv, Typed, Placed, InService, Closing, Enqueueing, AcquireParks, Goes,
       Returns, tableVars, regionVars, flagVars, enqVars
  <2> QED BY <1>0, <2>1, ServiceGoesOn DEF WakeInv
<1>2. HandsEmpty'
  <2>1. pc'[w] # "wake" => waking'[w] = {}
    BY DEF IInv, Typed, Placed, WakeInv, HandsEmpty, Enqueueing, AcquireParks, Goes,
       Returns, tableVars, regionVars, flagVars, enqVars
  <2>2. pc'[w] \notin Enqueueing => batch'[w] = {}
    BY DEF IInv, Typed, Placed, WakeInv, HandsEmpty, Enqueueing, AcquireParks, Goes,
       Returns, tableVars, regionVars, flagVars, enqVars
  <2>3. pc'[w] \in {"push", "mark", "recheck"} => target'[w] \in batch'[w]
    BY DEF IInv, Typed, Placed, WakeInv, HandsEmpty, Enqueueing, AcquireParks, Goes,
       Returns, tableVars, regionVars, flagVars, enqVars
  <2> QED BY <1>0, <2>1, <2>2, <2>3, HandsKept DEF WakeInv
<1>3. ServiceStarted'
  <2>1. InService(w)' /\ pc'[w] \notin {"serve", "acquire", "settle"} => Started(at[w])'
    BY <1>0 DEF IInv, Typed, Placed, MutexHeld, WakeInv, ServiceStarted, ActiveServed,
       PhasesAdvance, Started, InService, Closing, Enqueueing, AcquireParks, Goes,
       Returns, tableVars, regionVars, flagVars, enqVars
  <2>2. InService(w)' /\ pc'[w] \notin {"serve", "acquire", "search"} /\ event'[w] = "terminal"
            => phase'[at'[w]] = "failed"
    <3>1. event'[w] = "parked"
      BY DEF IInv, Typed, WakeInv, EventTyped, AcquireParks, Goes, Returns, tableVars,
         regionVars, flagVars, enqVars
    <3> QED BY <3>1
  <2>3. Closing(w)' => phase'[at'[w]] = "failed"
    BY <1>0 DEF IInv, Typed, Placed, MutexHeld, WakeInv, ServiceStarted, ActiveServed,
       PhasesAdvance, Started, InService, Closing, Enqueueing, AcquireParks, Goes,
       Returns, tableVars, regionVars, flagVars, enqVars
  <2>4. \A r \in notified' \ notified : r \in Regions /\ phase'[r] = "failed"
    BY DEF AcquireParks, Goes, Returns, tableVars, regionVars, flagVars, enqVars
  <2> QED BY <1>0, <2>1, <2>2, <2>3, <2>4, StartedKept DEF WakeInv
<1>4. AllCared'
  <2> SUFFICES ASSUME NEW r \in Regions, phase'[r] = "root" PROVE Cared(r)'
    BY DEF AllCared
  <2>1. phase[r] = "root" /\ Cared(r)
    BY <1>0 DEF PhasesAdvance, WakeInv, AllCared, AcquireParks, Goes, Returns, tableVars,
       regionVars, flagVars, enqVars
  <2>2. r \in queued => r \in queued' \/ Cared(r)'
    BY DEF AcquireParks, Goes, Returns, tableVars, regionVars, flagVars, enqVars
  <2>3. r \in woken => r \in woken' \/ Cared(r)'
    BY DEF AcquireParks, Goes, Returns, tableVars, regionVars, flagVars, enqVars
  <2>4. Parked(r) => Parked(r)' \/ Cared(r)'
    BY DEF Parked, AcquireParks, Goes, Returns, tableVars, regionVars, flagVars, enqVars
  <2>5. r \in rerun => r \in rerun' \/ Cared(r)'
    BY DEF AcquireParks, Goes, Returns, tableVars, regionVars, flagVars, enqVars
  <2>6. CaredBy(w, r) => Cared(r)'
    <3>1. CaredBy(w, r) => at[w] = r
      BY DEF CaredBy, WakeInv, HandsEmpty, Enqueueing, AcquireParks
    <3>2. ASSUME at[w] = r PROVE Parked(r)'
      <4>1. owner'[Key[r]] # None
        BY <3>2 DEF AcquireParks, Duplicate
      <4>2. Key[r] \in Keys
        BY DEF Keys
      <4>3. waiters'[Key[r]] = waiters[Key[r]] \cup {r}
        BY <3>2, <4>2 DEF AcquireParks, IInv, Typed
      <4> QED BY <4>1, <4>3 DEF Parked
    <3> QED BY <3>1, <3>2 DEF Cared
  <2> QED BY <1>0, <2>1, <2>2, <2>3, <2>4, <2>5, <2>6, CareKept
<1> QED BY <1>0, <1>1, <1>2, <1>3, <1>4 DEF WakeInv

LEMMA AcquireOwnsWakes ==
    ASSUME IInv, WakeInv, NEW w \in Workers, AcquireOwns(w) PROVE WakeInv'
<1>0. Others(w) /\ PhasesAdvance /\ EventTyped'
  BY OthersStay, PhasesGo, EventsKept DEF Worker, WakeInv
<1>1. ActiveServed'
  <2>1. /\ active' = active /\ (InService(w)' <=> InService(w))
        /\ InService(w) => at'[w] = at[w]
    BY DEF IInv, Typed, Placed, InService, Closing, Enqueueing, AcquireOwns, Goes, Enters,
       tableVars, regionVars, flagVars, enqVars
  <2> QED BY <1>0, <2>1, ServiceGoesOn DEF WakeInv
<1>2. HandsEmpty'
  <2>1. pc'[w] # "wake" => waking'[w] = {}
    BY DEF IInv, Typed, Placed, WakeInv, HandsEmpty, Enqueueing, AcquireOwns, Goes,
       Enters, tableVars, regionVars, flagVars, enqVars
  <2>2. pc'[w] \notin Enqueueing => batch'[w] = {}
    BY DEF IInv, Typed, Placed, WakeInv, HandsEmpty, Enqueueing, AcquireOwns, Goes,
       Enters, tableVars, regionVars, flagVars, enqVars
  <2>3. pc'[w] \in {"push", "mark", "recheck"} => target'[w] \in batch'[w]
    BY DEF IInv, Typed, Placed, WakeInv, HandsEmpty, Enqueueing, AcquireOwns, Goes,
       Enters, tableVars, regionVars, flagVars, enqVars
  <2> QED BY <1>0, <2>1, <2>2, <2>3, HandsKept DEF WakeInv
<1>3. ServiceStarted'
  <2>1. InService(w)' /\ pc'[w] \notin {"serve", "acquire", "settle"} => Started(at[w])'
    BY <1>0 DEF IInv, Typed, Placed, MutexHeld, WakeInv, ServiceStarted, ActiveServed,
       PhasesAdvance, Started, InService, Closing, Enqueueing, AcquireOwns, Goes, Enters,
       tableVars, regionVars, flagVars, enqVars
  <2>2. InService(w)' /\ pc'[w] \notin {"serve", "acquire", "search"} /\ event'[w] = "terminal"
            => phase'[at'[w]] = "failed"
    BY <1>0 DEF IInv, Typed, Placed, MutexHeld, WakeInv, ServiceStarted, ActiveServed,
       PhasesAdvance, InService, Closing, Enqueueing, AcquireOwns, Goes, Enters,
       tableVars, regionVars, flagVars, enqVars
  <2>3. Closing(w)' => phase'[at'[w]] = "failed"
    BY <1>0 DEF IInv, Typed, Placed, MutexHeld, WakeInv, ServiceStarted, ActiveServed,
       PhasesAdvance, InService, Closing, Enqueueing, AcquireOwns, Goes, Enters,
       tableVars, regionVars, flagVars, enqVars
  <2>4. \A r \in notified' \ notified : r \in Regions /\ phase'[r] = "failed"
    BY DEF AcquireOwns, Goes, Enters, tableVars, regionVars, flagVars, enqVars
  <2> QED BY <1>0, <2>1, <2>2, <2>3, <2>4, StartedKept DEF WakeInv
<1>4. AllCared'
  <2> SUFFICES ASSUME NEW r \in Regions, phase'[r] = "root" PROVE Cared(r)'
    BY DEF AllCared
  <2>1. phase[r] = "root" /\ Cared(r)
    BY <1>0 DEF PhasesAdvance, WakeInv, AllCared, AcquireOwns, Goes, Enters, tableVars,
       regionVars, flagVars, enqVars
  <2>2. r \in queued => r \in queued' \/ Cared(r)'
    BY DEF AcquireOwns, Goes, Enters, tableVars, regionVars, flagVars, enqVars
  <2>3. r \in woken => r \in woken' \/ Cared(r)'
    BY DEF AcquireOwns, Goes, Enters, tableVars, regionVars, flagVars, enqVars
  <2>4. Parked(r) => Parked(r)' \/ Cared(r)'
    <3>1. at[w] \in Regions /\ at[w] # None
      BY RegionsAssumption DEF IInv, Placed, AcquireOwns
    <3>2. waiters' = waiters /\ owner' = [owner EXCEPT ![Key[at[w]]] = at[w]]
      BY DEF AcquireOwns, Goes, Enters, tableVars, regionVars, flagVars, enqVars
    <3>3. owner[Key[r]] # None => owner'[Key[r]] # None
      BY <3>1, <3>2 DEF IInv, Typed, Keys
    <3> QED BY <3>2, <3>3 DEF Parked
  <2>5. r \in rerun => r \in rerun' \/ Cared(r)'
    BY DEF AcquireOwns, Goes, Enters, tableVars, regionVars, flagVars, enqVars
  <2>6. CaredBy(w, r) => Cared(r)'
    BY DEF Cared, CaredBy, IInv, Typed, WakeInv, HandsEmpty, Enqueueing, AcquireOwns,
       Goes, Enters, tableVars, regionVars, flagVars, enqVars
  <2> QED BY <1>0, <2>1, <2>2, <2>3, <2>4, <2>5, <2>6, CareKept
<1> QED BY <1>0, <1>1, <1>2, <1>3, <1>4 DEF WakeInv

LEMMA AcquireSaturatedWakes ==
    ASSUME IInv, WakeInv, NEW w \in Workers, AcquireSaturated(w) PROVE WakeInv'
<1>0. Others(w) /\ PhasesAdvance /\ EventTyped'
  BY OthersStay, PhasesGo, EventsKept DEF Worker, WakeInv
<1>1. ActiveServed'
  <2>1. /\ active' = active /\ (InService(w)' <=> InService(w))
        /\ InService(w) => at'[w] = at[w]
    BY DEF IInv, Typed, Placed, InService, Closing, Enqueueing, AcquireSaturated, Goes,
       Enters, tableVars, regionVars, flagVars, enqVars
  <2> QED BY <1>0, <2>1, ServiceGoesOn DEF WakeInv
<1>2. HandsEmpty'
  <2>1. pc'[w] # "wake" => waking'[w] = {}
    BY DEF IInv, Typed, Placed, WakeInv, HandsEmpty, Enqueueing, AcquireSaturated, Goes,
       Enters, tableVars, regionVars, flagVars, enqVars
  <2>2. pc'[w] \notin Enqueueing => batch'[w] = {}
    BY DEF IInv, Typed, Placed, WakeInv, HandsEmpty, Enqueueing, AcquireSaturated, Goes,
       Enters, tableVars, regionVars, flagVars, enqVars
  <2>3. pc'[w] \in {"push", "mark", "recheck"} => target'[w] \in batch'[w]
    BY DEF IInv, Typed, Placed, WakeInv, HandsEmpty, Enqueueing, AcquireSaturated, Goes,
       Enters, tableVars, regionVars, flagVars, enqVars
  <2> QED BY <1>0, <2>1, <2>2, <2>3, HandsKept DEF WakeInv
<1>3. ServiceStarted'
  <2>1. InService(w)' /\ pc'[w] \notin {"serve", "acquire", "settle"} => Started(at[w])'
    BY <1>0 DEF IInv, Typed, Placed, MutexHeld, WakeInv, ServiceStarted, ActiveServed,
       PhasesAdvance, Started, InService, Closing, Enqueueing, AcquireSaturated, Goes,
       Enters, tableVars, regionVars, flagVars, enqVars
  <2>2. InService(w)' /\ pc'[w] \notin {"serve", "acquire", "search"} /\ event'[w] = "terminal"
            => phase'[at'[w]] = "failed"
    BY <1>0 DEF IInv, Typed, Placed, MutexHeld, WakeInv, ServiceStarted, ActiveServed,
       PhasesAdvance, InService, Closing, Enqueueing, AcquireSaturated, Goes, Enters,
       tableVars, regionVars, flagVars, enqVars
  <2>3. Closing(w)' => phase'[at'[w]] = "failed"
    BY <1>0 DEF IInv, Typed, Placed, MutexHeld, WakeInv, ServiceStarted, ActiveServed,
       PhasesAdvance, InService, Closing, Enqueueing, AcquireSaturated, Goes, Enters,
       tableVars, regionVars, flagVars, enqVars
  <2>4. \A r \in notified' \ notified : r \in Regions /\ phase'[r] = "failed"
    BY DEF AcquireSaturated, Goes, Enters, tableVars, regionVars, flagVars, enqVars
  <2> QED BY <1>0, <2>1, <2>2, <2>3, <2>4, StartedKept DEF WakeInv
<1>4. AllCared'
  <2> SUFFICES ASSUME NEW r \in Regions, phase'[r] = "root" PROVE Cared(r)'
    BY DEF AllCared
  <2>1. phase[r] = "root" /\ Cared(r)
    BY <1>0 DEF PhasesAdvance, WakeInv, AllCared, AcquireSaturated, Goes, Enters,
       tableVars, regionVars, flagVars, enqVars
  <2>2. r \in queued => r \in queued' \/ Cared(r)'
    BY DEF AcquireSaturated, Goes, Enters, tableVars, regionVars, flagVars, enqVars
  <2>3. r \in woken => r \in woken' \/ Cared(r)'
    BY DEF AcquireSaturated, Goes, Enters, tableVars, regionVars, flagVars, enqVars
  <2>4. Parked(r) => Parked(r)' \/ Cared(r)'
    BY DEF Parked, AcquireSaturated, Goes, Enters, tableVars, regionVars, flagVars,
       enqVars
  <2>5. r \in rerun => r \in rerun' \/ Cared(r)'
    BY DEF AcquireSaturated, Goes, Enters, tableVars, regionVars, flagVars, enqVars
  <2>6. CaredBy(w, r) => Cared(r)'
    BY DEF Cared, CaredBy, IInv, Typed, WakeInv, HandsEmpty, Enqueueing, AcquireSaturated,
       Goes, Enters, tableVars, regionVars, flagVars, enqVars
  <2> QED BY <1>0, <2>1, <2>2, <2>3, <2>4, <2>5, <2>6, CareKept
<1> QED BY <1>0, <1>1, <1>2, <1>3, <1>4 DEF WakeInv

LEMMA SearchYieldsWakes ==
    ASSUME IInv, WakeInv, NEW w \in Workers, SearchYields(w) PROVE WakeInv'
<1>0. Others(w) /\ PhasesAdvance /\ EventTyped'
  BY OthersStay, PhasesGo, EventsKept DEF Worker, WakeInv
<1>1. ActiveServed'
  <2>1. /\ active' = active /\ (InService(w)' <=> InService(w))
        /\ InService(w) => at'[w] = at[w]
    BY DEF IInv, Typed, Placed, InService, Closing, Enqueueing, SearchYields, Goes,
       Returns, tableVars, regionVars, flagVars, enqVars
  <2> QED BY <1>0, <2>1, ServiceGoesOn DEF WakeInv
<1>2. HandsEmpty'
  <2>1. pc'[w] # "wake" => waking'[w] = {}
    BY DEF IInv, Typed, Placed, WakeInv, HandsEmpty, Enqueueing, SearchYields, Goes,
       Returns, tableVars, regionVars, flagVars, enqVars
  <2>2. pc'[w] \notin Enqueueing => batch'[w] = {}
    BY DEF IInv, Typed, Placed, WakeInv, HandsEmpty, Enqueueing, SearchYields, Goes,
       Returns, tableVars, regionVars, flagVars, enqVars
  <2>3. pc'[w] \in {"push", "mark", "recheck"} => target'[w] \in batch'[w]
    BY DEF IInv, Typed, Placed, WakeInv, HandsEmpty, Enqueueing, SearchYields, Goes,
       Returns, tableVars, regionVars, flagVars, enqVars
  <2> QED BY <1>0, <2>1, <2>2, <2>3, HandsKept DEF WakeInv
<1>3. ServiceStarted'
  <2>1. InService(w)' /\ pc'[w] \notin {"serve", "acquire", "settle"} => Started(at[w])'
    BY <1>0 DEF IInv, Typed, Placed, MutexHeld, WakeInv, ServiceStarted, ActiveServed,
       PhasesAdvance, Started, InService, Closing, Enqueueing, SearchYields, Goes,
       Returns, tableVars, regionVars, flagVars, enqVars
  <2>2. InService(w)' /\ pc'[w] \notin {"serve", "acquire", "search"} /\ event'[w] = "terminal"
            => phase'[at'[w]] = "failed"
    <3>1. event'[w] = "run"
      BY DEF IInv, Typed, WakeInv, EventTyped, SearchYields, Goes, Returns, tableVars,
         regionVars, flagVars, enqVars
    <3> QED BY <3>1
  <2>3. Closing(w)' => phase'[at'[w]] = "failed"
    BY <1>0 DEF IInv, Typed, Placed, MutexHeld, WakeInv, ServiceStarted, ActiveServed,
       PhasesAdvance, Started, InService, Closing, Enqueueing, SearchYields, Goes,
       Returns, tableVars, regionVars, flagVars, enqVars
  <2>4. \A r \in notified' \ notified : r \in Regions /\ phase'[r] = "failed"
    BY DEF SearchYields, Goes, Returns, tableVars, regionVars, flagVars, enqVars
  <2> QED BY <1>0, <2>1, <2>2, <2>3, <2>4, StartedKept DEF WakeInv
<1>4. AllCared'
  <2> SUFFICES ASSUME NEW r \in Regions, phase'[r] = "root" PROVE Cared(r)'
    BY DEF AllCared
  <2>1. phase[r] = "root" /\ Cared(r)
    BY <1>0 DEF PhasesAdvance, WakeInv, AllCared, SearchYields, Goes, Returns, tableVars,
       regionVars, flagVars, enqVars
  <2>2. r \in queued => r \in queued' \/ Cared(r)'
    BY DEF SearchYields, Goes, Returns, tableVars, regionVars, flagVars, enqVars
  <2>3. r \in woken => r \in woken' \/ Cared(r)'
    BY DEF SearchYields, Goes, Returns, tableVars, regionVars, flagVars, enqVars
  <2>4. Parked(r) => Parked(r)' \/ Cared(r)'
    BY DEF Parked, SearchYields, Goes, Returns, tableVars, regionVars, flagVars, enqVars
  <2>5. r \in rerun => r \in rerun' \/ Cared(r)'
    BY DEF SearchYields, Goes, Returns, tableVars, regionVars, flagVars, enqVars
  <2>6. CaredBy(w, r) => Cared(r)'
    BY DEF Cared, CaredBy, IInv, Typed, WakeInv, HandsEmpty, Enqueueing, SearchYields,
       Goes, Returns, tableVars, regionVars, flagVars, enqVars
  <2> QED BY <1>0, <2>1, <2>2, <2>3, <2>4, <2>5, <2>6, CareKept
<1> QED BY <1>0, <1>1, <1>2, <1>3, <1>4 DEF WakeInv

LEMMA SearchDonatesWakes ==
    ASSUME IInv, WakeInv, NEW w \in Workers, SearchDonates(w) PROVE WakeInv'
<1>0. Others(w) /\ PhasesAdvance /\ EventTyped'
  BY OthersStay, PhasesGo, EventsKept DEF Worker, WakeInv
<1>1. ActiveServed'
  <2>1. /\ active' = active /\ (InService(w)' <=> InService(w))
        /\ InService(w) => at'[w] = at[w]
    BY DEF IInv, Typed, Placed, InService, Closing, Enqueueing, SearchDonates, Goes,
       tableVars, regionVars, flagVars, enqVars
  <2> QED BY <1>0, <2>1, ServiceGoesOn DEF WakeInv
<1>2. HandsEmpty'
  <2>1. pc'[w] # "wake" => waking'[w] = {}
    BY DEF IInv, Typed, Placed, WakeInv, HandsEmpty, Enqueueing, SearchDonates, Goes,
       tableVars, regionVars, flagVars, enqVars
  <2>2. pc'[w] \notin Enqueueing => batch'[w] = {}
    BY DEF IInv, Typed, Placed, WakeInv, HandsEmpty, Enqueueing, SearchDonates, Goes,
       tableVars, regionVars, flagVars, enqVars
  <2>3. pc'[w] \in {"push", "mark", "recheck"} => target'[w] \in batch'[w]
    BY DEF IInv, Typed, Placed, WakeInv, HandsEmpty, Enqueueing, SearchDonates, Goes,
       tableVars, regionVars, flagVars, enqVars
  <2> QED BY <1>0, <2>1, <2>2, <2>3, HandsKept DEF WakeInv
<1>3. ServiceStarted'
  <2>1. InService(w)' /\ pc'[w] \notin {"serve", "acquire", "settle"} => Started(at[w])'
    BY <1>0 DEF IInv, Typed, Placed, MutexHeld, WakeInv, ServiceStarted, ActiveServed,
       PhasesAdvance, Started, InService, Closing, Enqueueing, SearchDonates, Goes,
       tableVars, regionVars, flagVars, enqVars
  <2>2. InService(w)' /\ pc'[w] \notin {"serve", "acquire", "search"} /\ event'[w] = "terminal"
            => phase'[at'[w]] = "failed"
    <3>1. event'[w] = "run"
      BY DEF IInv, Typed, WakeInv, EventTyped, SearchDonates, Goes, tableVars, regionVars,
         flagVars, enqVars
    <3> QED BY <3>1
  <2>3. Closing(w)' => phase'[at'[w]] = "failed"
    BY <1>0 DEF IInv, Typed, Placed, MutexHeld, WakeInv, ServiceStarted, ActiveServed,
       PhasesAdvance, Started, InService, Closing, Enqueueing, SearchDonates, Goes,
       tableVars, regionVars, flagVars, enqVars
  <2>4. \A r \in notified' \ notified : r \in Regions /\ phase'[r] = "failed"
    BY DEF SearchDonates, Goes, tableVars, regionVars, flagVars, enqVars
  <2> QED BY <1>0, <2>1, <2>2, <2>3, <2>4, StartedKept DEF WakeInv
<1>4. AllCared'
  <2> SUFFICES ASSUME NEW r \in Regions, phase'[r] = "root" PROVE Cared(r)'
    BY DEF AllCared
  <2>1. CASE phase[r] = "root"
    <3>1. Cared(r)
      BY <2>1 DEF WakeInv, AllCared
    <3>2. UNCHANGED <<queued, woken, rerun, waiters, owner>>
      BY DEF SearchDonates, Goes, tableVars, regionVars, flagVars, enqVars
    <3>3. ~CaredBy(w, r)
      <4>1. phase[at[w]] # "root"
        BY DEF IInv, MutexHeld, SearchDonates
      <4> QED BY <2>1, <4>1 DEF CaredBy, WakeInv, HandsEmpty, Enqueueing, SearchDonates
    <3>4. Parked(r) => Parked(r)'
      BY <3>2 DEF Parked
    <3> QED BY <1>0, <3>1, <3>2, <3>3, <3>4, CareKept
  <2>2. CASE phase[r] # "root"
    <3>1. PICK c \in Regions : phase' = [phase EXCEPT ![c] = "root"] /\ batch' = [batch EXCEPT ![w] = {c}]
      BY DEF SearchDonates
    <3>2. r = c
      BY <2>2, <3>1 DEF IInv, Typed
    <3>3. r \in batch'[w] /\ pc'[w] = "load"
      BY <3>1, <3>2 DEF IInv, Typed, SearchDonates, Goes
    <3> QED BY <3>3 DEF Cared, CaredBy
  <2> QED BY <2>1, <2>2
<1> QED BY <1>0, <1>1, <1>2, <1>3, <1>4 DEF WakeInv

LEMMA SearchFinishesWakes ==
    ASSUME IInv, WakeInv, NEW w \in Workers, SearchFinishes(w) PROVE WakeInv'
<1>0. Others(w) /\ PhasesAdvance /\ EventTyped'
  BY OthersStay, PhasesGo, EventsKept DEF Worker, WakeInv
<1>1. ActiveServed'
  <2>1. /\ active' = active /\ (InService(w)' <=> InService(w))
        /\ InService(w) => at'[w] = at[w]
    BY DEF IInv, Typed, Placed, InService, Closing, Enqueueing, SearchFinishes, Goes,
       Releases, Returns, Erased, tableVars, regionVars, flagVars, enqVars
  <2> QED BY <1>0, <2>1, ServiceGoesOn DEF WakeInv
<1>2. HandsEmpty'
  <2>1. pc'[w] # "wake" => waking'[w] = {}
    BY DEF IInv, Typed, Placed, WakeInv, HandsEmpty, Enqueueing, SearchFinishes, Goes,
       Releases, Returns, Erased, tableVars, regionVars, flagVars, enqVars
  <2>2. pc'[w] \notin Enqueueing => batch'[w] = {}
    BY DEF IInv, Typed, Placed, WakeInv, HandsEmpty, Enqueueing, SearchFinishes, Goes,
       Releases, Returns, Erased, tableVars, regionVars, flagVars, enqVars
  <2>3. pc'[w] \in {"push", "mark", "recheck"} => target'[w] \in batch'[w]
    BY DEF IInv, Typed, Placed, WakeInv, HandsEmpty, Enqueueing, SearchFinishes, Goes,
       Releases, Returns, Erased, tableVars, regionVars, flagVars, enqVars
  <2> QED BY <1>0, <2>1, <2>2, <2>3, HandsKept DEF WakeInv
<1>3. ServiceStarted'
  <2>1. InService(w)' /\ pc'[w] \notin {"serve", "acquire", "settle"} => Started(at[w])'
    BY <1>0 DEF IInv, Typed, Placed, MutexHeld, WakeInv, ServiceStarted, ActiveServed,
       PhasesAdvance, Started, InService, Closing, Enqueueing, SearchFinishes, Goes,
       Releases, Returns, Erased, tableVars, regionVars, flagVars, enqVars
  <2>2. InService(w)' /\ pc'[w] \notin {"serve", "acquire", "search"} /\ event'[w] = "terminal"
            => phase'[at'[w]] = "failed"
    <3>1. at[w] \in Regions /\ at' = at
      BY DEF IInv, Placed, SearchFinishes
    <3>2. event'[w] = FinishedEvent(at[w])
      <4>1. CASE at[w] \in claimed \ donated
        BY <4>1 DEF IInv, Typed, WakeInv, EventTyped, SearchFinishes
      <4>2. CASE at[w] \notin claimed \ donated
        BY <4>2 DEF IInv, Typed, WakeInv, EventTyped, SearchFinishes, Returns
      <4> QED BY <4>1, <4>2
    <3>3. phase'[at[w]] = FinishedPhase(at[w])
      BY <3>1 DEF IInv, Typed, SearchFinishes
    <3> QED BY <3>1, <3>2, <3>3 DEF FinishedEvent, FinishedPhase
  <2>3. Closing(w)' => phase'[at'[w]] = "failed"
    BY <1>0 DEF IInv, Typed, Placed, MutexHeld, WakeInv, ServiceStarted, ActiveServed,
       PhasesAdvance, Started, InService, Closing, Enqueueing, SearchFinishes, Goes,
       Releases, Returns, Erased, tableVars, regionVars, flagVars, enqVars
  <2>4. \A r \in notified' \ notified : r \in Regions /\ phase'[r] = "failed"
    BY DEF SearchFinishes, Goes, Releases, Returns, Erased, tableVars, regionVars,
       flagVars, enqVars
  <2> QED BY <1>0, <2>1, <2>2, <2>3, <2>4, StartedKept DEF WakeInv
<1>4. AllCared'
  <2> SUFFICES ASSUME NEW r \in Regions, phase'[r] = "root" PROVE Cared(r)'
    BY DEF AllCared
  <2>1. phase[r] = "root" /\ Cared(r)
    <3>1. phase' = [phase EXCEPT ![at[w]] = FinishedPhase(at[w])]
      BY DEF SearchFinishes
    <3>2. FinishedPhase(at[w]) # "root"
      BY DEF FinishedPhase
    <3>3. phase[r] = "root"
      BY <3>1, <3>2 DEF IInv, Typed
    <3> QED BY <3>3 DEF WakeInv, AllCared
  <2>2. r \in queued => r \in queued' \/ Cared(r)'
    BY DEF SearchFinishes, Goes, Releases, Returns, Erased, tableVars, regionVars,
       flagVars, enqVars
  <2>3. r \in woken => r \in woken' \/ Cared(r)'
    BY DEF SearchFinishes, Goes, Releases, Returns, Erased, tableVars, regionVars,
       flagVars, enqVars
  <2>4. Parked(r) => Parked(r)' \/ Cared(r)'
    <3>1. CASE at[w] \in claimed \ donated
      <4>1. /\ waking'[w] = waiters[Key[at[w]]]
            /\ waiters' = [waiters EXCEPT ![Key[at[w]]] = {}]
            /\ owner' = [owner EXCEPT ![Key[at[w]]] = None]
        BY <3>1 DEF IInv, Typed, SearchFinishes, Releases, Erased
      <4>2. CASE Key[r] = Key[at[w]]
        BY <4>1, <4>2 DEF Parked, Cared, CaredBy
      <4>3. CASE Key[r] # Key[at[w]]
        <5>1. Key[r] \in Keys
          BY DEF Keys
        <5>2. waiters'[Key[r]] = waiters[Key[r]] /\ owner'[Key[r]] = owner[Key[r]]
          BY <4>1, <4>3, <5>1 DEF IInv, Typed
        <5> QED BY <5>2 DEF Parked
      <4> QED BY <4>2, <4>3
    <3>2. CASE at[w] \notin claimed \ donated
      BY <3>2 DEF Parked, SearchFinishes, Returns
    <3> QED BY <3>1, <3>2
  <2>5. r \in rerun => r \in rerun' \/ Cared(r)'
    BY DEF SearchFinishes, Goes, Releases, Returns, Erased, tableVars, regionVars,
       flagVars, enqVars
  <2>6. CaredBy(w, r) => Cared(r)'
    BY DEF Cared, CaredBy, IInv, Typed, WakeInv, HandsEmpty, Enqueueing, SearchFinishes,
       Goes, Releases, Returns, Erased, tableVars, regionVars, flagVars, enqVars
  <2> QED BY <1>0, <2>1, <2>2, <2>3, <2>4, <2>5, <2>6, CareKept
<1> QED BY <1>0, <1>1, <1>2, <1>3, <1>4 DEF WakeInv

LEMMA WakesWakes ==
    ASSUME IInv, WakeInv, NEW w \in Workers, Wakes(w) PROVE WakeInv'
<1>0. Others(w) /\ PhasesAdvance /\ EventTyped'
  BY OthersStay, PhasesGo, EventsKept DEF Worker, WakeInv
<1>1. ActiveServed'
  <2>1. /\ active' = active /\ (InService(w)' <=> InService(w))
        /\ InService(w) => at'[w] = at[w]
    BY DEF IInv, Typed, Placed, InService, Closing, Enqueueing, Wakes, Goes, HandsOver,
       tableVars, regionVars, flagVars, enqVars
  <2> QED BY <1>0, <2>1, ServiceGoesOn DEF WakeInv
<1>2. HandsEmpty'
  <2>1. pc'[w] # "wake" => waking'[w] = {}
    BY DEF IInv, Typed, Placed, WakeInv, HandsEmpty, Enqueueing, Wakes, Goes, HandsOver,
       tableVars, regionVars, flagVars, enqVars
  <2>2. pc'[w] \notin Enqueueing => batch'[w] = {}
    BY DEF IInv, Typed, Placed, WakeInv, HandsEmpty, Enqueueing, Wakes, Goes, HandsOver,
       tableVars, regionVars, flagVars, enqVars
  <2>3. pc'[w] \in {"push", "mark", "recheck"} => target'[w] \in batch'[w]
    BY DEF IInv, Typed, Placed, WakeInv, HandsEmpty, Enqueueing, Wakes, Goes, HandsOver,
       tableVars, regionVars, flagVars, enqVars
  <2> QED BY <1>0, <2>1, <2>2, <2>3, HandsKept DEF WakeInv
<1>3. ServiceStarted'
  <2>1. InService(w)' /\ pc'[w] \notin {"serve", "acquire", "settle"} => Started(at[w])'
    BY <1>0 DEF IInv, Typed, Placed, MutexHeld, WakeInv, ServiceStarted, ActiveServed,
       PhasesAdvance, Started, InService, Closing, Enqueueing, Wakes, Goes, HandsOver,
       tableVars, regionVars, flagVars, enqVars
  <2>2. InService(w)' /\ pc'[w] \notin {"serve", "acquire", "search"} /\ event'[w] = "terminal"
            => phase'[at'[w]] = "failed"
    BY <1>0 DEF IInv, Typed, Placed, MutexHeld, WakeInv, ServiceStarted, ActiveServed,
       PhasesAdvance, InService, Closing, Enqueueing, Wakes, Goes, HandsOver, tableVars,
       regionVars, flagVars, enqVars
  <2>3. Closing(w)' => phase'[at'[w]] = "failed"
    BY <1>0 DEF IInv, Typed, Placed, MutexHeld, WakeInv, ServiceStarted, ActiveServed,
       PhasesAdvance, InService, Closing, Enqueueing, Wakes, Goes, HandsOver, tableVars,
       regionVars, flagVars, enqVars
  <2>4. \A r \in notified' \ notified : r \in Regions /\ phase'[r] = "failed"
    BY DEF Wakes, Goes, HandsOver, tableVars, regionVars, flagVars, enqVars
  <2> QED BY <1>0, <2>1, <2>2, <2>3, <2>4, StartedKept DEF WakeInv
<1>4. AllCared'
  <2> SUFFICES ASSUME NEW r \in Regions, phase'[r] = "root" PROVE Cared(r)'
    BY DEF AllCared
  <2>1. phase[r] = "root" /\ Cared(r)
    BY <1>0 DEF PhasesAdvance, WakeInv, AllCared, Wakes, Goes, HandsOver, tableVars,
       regionVars, flagVars, enqVars
  <2>2. r \in queued => r \in queued' \/ Cared(r)'
    BY DEF Wakes, Goes, HandsOver, tableVars, regionVars, flagVars, enqVars
  <2>3. r \in woken => r \in woken' \/ Cared(r)'
    BY DEF Wakes, Goes, HandsOver, tableVars, regionVars, flagVars, enqVars
  <2>4. Parked(r) => Parked(r)' \/ Cared(r)'
    BY DEF Parked, Wakes, Goes, HandsOver, tableVars, regionVars, flagVars, enqVars
  <2>5. r \in rerun => r \in rerun' \/ Cared(r)'
    BY DEF Wakes, Goes, HandsOver, tableVars, regionVars, flagVars, enqVars
  <2>6. CaredBy(w, r) => Cared(r)'
    BY DEF Cared, CaredBy, IInv, Typed, WakeInv, HandsEmpty, Enqueueing, Wakes, Goes,
       HandsOver, tableVars, regionVars, flagVars, enqVars
  <2> QED BY <1>0, <2>1, <2>2, <2>3, <2>4, <2>5, <2>6, CareKept
<1> QED BY <1>0, <1>1, <1>2, <1>3, <1>4 DEF WakeInv

LEMMA GivesUpWakes ==
    ASSUME IInv, WakeInv, NEW w \in Workers, GivesUp(w) PROVE WakeInv'
<1>0. Others(w) /\ PhasesAdvance /\ EventTyped'
  BY OthersStay, PhasesGo, EventsKept DEF Worker, WakeInv
<1>1. ActiveServed'
  <2>1. InService(w) /\ ~InService(w)' /\ active' = active \ {at[w]}
    BY DEF IInv, Typed, InService, Closing, Enqueueing, GivesUp, Goes, tableVars,
       regionVars, flagVars, enqVars
  <2> QED BY <1>0, <2>1, ServiceEnds DEF WakeInv
<1>2. HandsEmpty'
  <2>1. pc'[w] # "wake" => waking'[w] = {}
    BY DEF IInv, Typed, Placed, WakeInv, HandsEmpty, Enqueueing, GivesUp, Goes, tableVars,
       regionVars, flagVars, enqVars
  <2>2. pc'[w] \notin Enqueueing => batch'[w] = {}
    BY DEF IInv, Typed, Placed, WakeInv, HandsEmpty, Enqueueing, GivesUp, Goes, tableVars,
       regionVars, flagVars, enqVars
  <2>3. pc'[w] \in {"push", "mark", "recheck"} => target'[w] \in batch'[w]
    BY DEF IInv, Typed, Placed, WakeInv, HandsEmpty, Enqueueing, GivesUp, Goes, tableVars,
       regionVars, flagVars, enqVars
  <2> QED BY <1>0, <2>1, <2>2, <2>3, HandsKept DEF WakeInv
<1>3. ServiceStarted'
  <2>1. InService(w)' /\ pc'[w] \notin {"serve", "acquire", "settle"} => Started(at[w])'
    BY <1>0 DEF IInv, Typed, Placed, MutexHeld, WakeInv, ServiceStarted, ActiveServed,
       PhasesAdvance, Started, InService, Closing, Enqueueing, GivesUp, Goes, tableVars,
       regionVars, flagVars, enqVars
  <2>2. InService(w)' /\ pc'[w] \notin {"serve", "acquire", "search"} /\ event'[w] = "terminal"
            => phase'[at'[w]] = "failed"
    BY <1>0 DEF IInv, Typed, Placed, MutexHeld, WakeInv, ServiceStarted, ActiveServed,
       PhasesAdvance, InService, Closing, Enqueueing, GivesUp, Goes, tableVars,
       regionVars, flagVars, enqVars
  <2>3. Closing(w)' => phase'[at'[w]] = "failed"
    BY <1>0 DEF IInv, Typed, Placed, MutexHeld, WakeInv, ServiceStarted, ActiveServed,
       PhasesAdvance, InService, Closing, Enqueueing, GivesUp, Goes, tableVars,
       regionVars, flagVars, enqVars
  <2>4. \A r \in notified' \ notified : r \in Regions /\ phase'[r] = "failed"
    BY DEF GivesUp, Goes, tableVars, regionVars, flagVars, enqVars
  <2> QED BY <1>0, <2>1, <2>2, <2>3, <2>4, StartedKept DEF WakeInv
<1>4. AllCared'
  <2> SUFFICES ASSUME NEW r \in Regions, phase'[r] = "root" PROVE Cared(r)'
    BY DEF AllCared
  <2>1. phase[r] = "root" /\ Cared(r)
    BY <1>0 DEF PhasesAdvance, WakeInv, AllCared, GivesUp, Goes, tableVars, regionVars,
       flagVars, enqVars
  <2>2. r \in queued => r \in queued' \/ Cared(r)'
    BY DEF GivesUp, Goes, tableVars, regionVars, flagVars, enqVars
  <2>3. r \in woken => r \in woken' \/ Cared(r)'
    BY DEF GivesUp, Goes, tableVars, regionVars, flagVars, enqVars
  <2>4. Parked(r) => Parked(r)' \/ Cared(r)'
    BY DEF Parked, GivesUp, Goes, tableVars, regionVars, flagVars, enqVars
  <2>5. r \in rerun => r \in rerun' \/ Cared(r)'
    BY DEF GivesUp, Goes, tableVars, regionVars, flagVars, enqVars
  <2>6. CaredBy(w, r) => Cared(r)'
    BY DEF Cared, CaredBy, IInv, Typed, WakeInv, HandsEmpty, Enqueueing, GivesUp, Goes,
       tableVars, regionVars, flagVars, enqVars
  <2> QED BY <1>0, <2>1, <2>2, <2>3, <2>4, <2>5, <2>6, CareKept
<1> QED BY <1>0, <1>1, <1>2, <1>3, <1>4 DEF WakeInv

LEMMA ExchangesRerunWakes ==
    ASSUME IInv, WakeInv, NEW w \in Workers, ExchangesRerun(w) PROVE WakeInv'
<1>0. Others(w) /\ PhasesAdvance /\ EventTyped'
  BY OthersStay, PhasesGo, EventsKept DEF Worker, WakeInv
<1>1. ActiveServed'
  <2>1. /\ active' = active /\ (InService(w)' <=> InService(w))
        /\ InService(w) => at'[w] = at[w]
    BY DEF IInv, Typed, Placed, InService, Closing, Enqueueing, ExchangesRerun, Goes,
       tableVars, regionVars, flagVars, enqVars
  <2> QED BY <1>0, <2>1, ServiceGoesOn DEF WakeInv
<1>2. HandsEmpty'
  <2>1. pc'[w] # "wake" => waking'[w] = {}
    BY DEF IInv, Typed, Placed, WakeInv, HandsEmpty, Enqueueing, ExchangesRerun, Goes,
       tableVars, regionVars, flagVars, enqVars
  <2>2. pc'[w] \notin Enqueueing => batch'[w] = {}
    BY DEF IInv, Typed, Placed, WakeInv, HandsEmpty, Enqueueing, ExchangesRerun, Goes,
       tableVars, regionVars, flagVars, enqVars
  <2>3. pc'[w] \in {"push", "mark", "recheck"} => target'[w] \in batch'[w]
    BY DEF IInv, Typed, Placed, WakeInv, HandsEmpty, Enqueueing, ExchangesRerun, Goes,
       tableVars, regionVars, flagVars, enqVars
  <2> QED BY <1>0, <2>1, <2>2, <2>3, HandsKept DEF WakeInv
<1>3. ServiceStarted'
  <2>1. InService(w)' /\ pc'[w] \notin {"serve", "acquire", "settle"} => Started(at[w])'
    BY <1>0 DEF IInv, Typed, Placed, MutexHeld, WakeInv, ServiceStarted, ActiveServed,
       PhasesAdvance, Started, InService, Closing, Enqueueing, ExchangesRerun, Goes,
       tableVars, regionVars, flagVars, enqVars
  <2>2. InService(w)' /\ pc'[w] \notin {"serve", "acquire", "search"} /\ event'[w] = "terminal"
            => phase'[at'[w]] = "failed"
    BY <1>0 DEF IInv, Typed, Placed, MutexHeld, WakeInv, ServiceStarted, ActiveServed,
       PhasesAdvance, InService, Closing, Enqueueing, ExchangesRerun, Goes, tableVars,
       regionVars, flagVars, enqVars
  <2>3. Closing(w)' => phase'[at'[w]] = "failed"
    BY <1>0 DEF IInv, Typed, Placed, MutexHeld, WakeInv, ServiceStarted, ActiveServed,
       PhasesAdvance, InService, Closing, Enqueueing, ExchangesRerun, Goes, tableVars,
       regionVars, flagVars, enqVars
  <2>4. \A r \in notified' \ notified : r \in Regions /\ phase'[r] = "failed"
    BY DEF ExchangesRerun, Goes, tableVars, regionVars, flagVars, enqVars
  <2> QED BY <1>0, <2>1, <2>2, <2>3, <2>4, StartedKept DEF WakeInv
<1>4. AllCared'
  <2> SUFFICES ASSUME NEW r \in Regions, phase'[r] = "root" PROVE Cared(r)'
    BY DEF AllCared
  <2>1. phase[r] = "root" /\ Cared(r)
    BY <1>0 DEF PhasesAdvance, WakeInv, AllCared, ExchangesRerun, Goes, tableVars,
       regionVars, flagVars, enqVars
  <2>2. r \in queued => r \in queued' \/ Cared(r)'
    BY DEF ExchangesRerun, Goes, tableVars, regionVars, flagVars, enqVars
  <2>3. r \in woken => r \in woken' \/ Cared(r)'
    BY DEF ExchangesRerun, Goes, tableVars, regionVars, flagVars, enqVars
  <2>4. Parked(r) => Parked(r)' \/ Cared(r)'
    BY DEF Parked, ExchangesRerun, Goes, tableVars, regionVars, flagVars, enqVars
  <2>5. r \in rerun => r \in rerun' \/ Cared(r)'
    BY DEF Cared, CaredBy, IInv, Typed, ExchangesRerun, Goes, tableVars, regionVars,
       flagVars, enqVars
  <2>6. CaredBy(w, r) => Cared(r)'
    BY DEF Cared, CaredBy, IInv, Typed, WakeInv, HandsEmpty, Enqueueing, ExchangesRerun,
       Goes, tableVars, regionVars, flagVars, enqVars
  <2> QED BY <1>0, <2>1, <2>2, <2>3, <2>4, <2>5, <2>6, CareKept
<1> QED BY <1>0, <1>1, <1>2, <1>3, <1>4 DEF WakeInv

LEMMA EnqueuesAgainWakes ==
    ASSUME IInv, WakeInv, NEW w \in Workers, EnqueuesAgain(w) PROVE WakeInv'
<1>0. Others(w) /\ PhasesAdvance /\ EventTyped'
  BY OthersStay, PhasesGo, EventsKept DEF Worker, WakeInv
<1>1. ActiveServed'
  <2>1. /\ active' = active /\ (InService(w)' <=> InService(w))
        /\ InService(w) => at'[w] = at[w]
    BY DEF IInv, Typed, Placed, InService, Closing, Enqueueing, EnqueuesAgain, Goes,
       tableVars, regionVars, flagVars, enqVars
  <2> QED BY <1>0, <2>1, ServiceGoesOn DEF WakeInv
<1>2. HandsEmpty'
  <2>1. pc'[w] # "wake" => waking'[w] = {}
    BY DEF IInv, Typed, Placed, WakeInv, HandsEmpty, Enqueueing, EnqueuesAgain, Goes,
       tableVars, regionVars, flagVars, enqVars
  <2>2. pc'[w] \notin Enqueueing => batch'[w] = {}
    BY DEF IInv, Typed, Placed, WakeInv, HandsEmpty, Enqueueing, EnqueuesAgain, Goes,
       tableVars, regionVars, flagVars, enqVars
  <2>3. pc'[w] \in {"push", "mark", "recheck"} => target'[w] \in batch'[w]
    BY DEF IInv, Typed, Placed, WakeInv, HandsEmpty, Enqueueing, EnqueuesAgain, Goes,
       tableVars, regionVars, flagVars, enqVars
  <2> QED BY <1>0, <2>1, <2>2, <2>3, HandsKept DEF WakeInv
<1>3. ServiceStarted'
  <2>1. InService(w)' /\ pc'[w] \notin {"serve", "acquire", "settle"} => Started(at[w])'
    BY <1>0 DEF IInv, Typed, Placed, MutexHeld, WakeInv, ServiceStarted, ActiveServed,
       PhasesAdvance, Started, InService, Closing, Enqueueing, EnqueuesAgain, Goes,
       tableVars, regionVars, flagVars, enqVars
  <2>2. InService(w)' /\ pc'[w] \notin {"serve", "acquire", "search"} /\ event'[w] = "terminal"
            => phase'[at'[w]] = "failed"
    BY <1>0 DEF IInv, Typed, Placed, MutexHeld, WakeInv, ServiceStarted, ActiveServed,
       PhasesAdvance, InService, Closing, Enqueueing, EnqueuesAgain, Goes, tableVars,
       regionVars, flagVars, enqVars
  <2>3. Closing(w)' => phase'[at'[w]] = "failed"
    BY <1>0 DEF IInv, Typed, Placed, MutexHeld, WakeInv, ServiceStarted, ActiveServed,
       PhasesAdvance, InService, Closing, Enqueueing, EnqueuesAgain, Goes, tableVars,
       regionVars, flagVars, enqVars
  <2>4. \A r \in notified' \ notified : r \in Regions /\ phase'[r] = "failed"
    BY DEF EnqueuesAgain, Goes, tableVars, regionVars, flagVars, enqVars
  <2> QED BY <1>0, <2>1, <2>2, <2>3, <2>4, StartedKept DEF WakeInv
<1>4. AllCared'
  <2> SUFFICES ASSUME NEW r \in Regions, phase'[r] = "root" PROVE Cared(r)'
    BY DEF AllCared
  <2>1. phase[r] = "root" /\ Cared(r)
    BY <1>0 DEF PhasesAdvance, WakeInv, AllCared, EnqueuesAgain, Goes, tableVars,
       regionVars, flagVars, enqVars
  <2>2. r \in queued => r \in queued' \/ Cared(r)'
    BY DEF EnqueuesAgain, Goes, tableVars, regionVars, flagVars, enqVars
  <2>3. r \in woken => r \in woken' \/ Cared(r)'
    BY DEF EnqueuesAgain, Goes, tableVars, regionVars, flagVars, enqVars
  <2>4. Parked(r) => Parked(r)' \/ Cared(r)'
    BY DEF Parked, EnqueuesAgain, Goes, tableVars, regionVars, flagVars, enqVars
  <2>5. r \in rerun => r \in rerun' \/ Cared(r)'
    BY DEF EnqueuesAgain, Goes, tableVars, regionVars, flagVars, enqVars
  <2>6. CaredBy(w, r) => Cared(r)'
    <3>1. CaredBy(w, r) => at[w] = r
      BY DEF CaredBy, WakeInv, HandsEmpty, Enqueueing, EnqueuesAgain
    <3>2. ASSUME at[w] = r PROVE r \in batch'[w] /\ pc'[w] = "load"
      BY <2>1, <3>2 DEF IInv, Typed, Runnable, EnqueuesAgain, Goes
    <3> QED BY <3>1, <3>2 DEF Cared, CaredBy
  <2> QED BY <1>0, <2>1, <2>2, <2>3, <2>4, <2>5, <2>6, CareKept
<1> QED BY <1>0, <1>1, <1>2, <1>3, <1>4 DEF WakeInv

LEMMA ClosesWakes ==
    ASSUME IInv, WakeInv, NEW w \in Workers, Closes(w) PROVE WakeInv'
<1>0. Others(w) /\ PhasesAdvance /\ EventTyped'
  BY OthersStay, PhasesGo, EventsKept DEF Worker, WakeInv
<1>1. ActiveServed'
  <2>1. /\ active' = active /\ (InService(w)' <=> InService(w))
        /\ InService(w) => at'[w] = at[w]
    BY DEF IInv, Typed, Placed, InService, Closing, Enqueueing, Closes, Goes, tableVars,
       regionVars, flagVars, enqVars
  <2> QED BY <1>0, <2>1, ServiceGoesOn DEF WakeInv
<1>2. HandsEmpty'
  <2>1. pc'[w] # "wake" => waking'[w] = {}
    BY DEF IInv, Typed, Placed, WakeInv, HandsEmpty, Enqueueing, Closes, Goes, tableVars,
       regionVars, flagVars, enqVars
  <2>2. pc'[w] \notin Enqueueing => batch'[w] = {}
    BY DEF IInv, Typed, Placed, WakeInv, HandsEmpty, Enqueueing, Closes, Goes, tableVars,
       regionVars, flagVars, enqVars
  <2>3. pc'[w] \in {"push", "mark", "recheck"} => target'[w] \in batch'[w]
    BY DEF IInv, Typed, Placed, WakeInv, HandsEmpty, Enqueueing, Closes, Goes, tableVars,
       regionVars, flagVars, enqVars
  <2> QED BY <1>0, <2>1, <2>2, <2>3, HandsKept DEF WakeInv
<1>3. ServiceStarted'
  <2>1. InService(w)' /\ pc'[w] \notin {"serve", "acquire", "settle"} => Started(at[w])'
    BY <1>0 DEF IInv, Typed, Placed, MutexHeld, WakeInv, ServiceStarted, ActiveServed,
       PhasesAdvance, Started, InService, Closing, Enqueueing, Closes, Goes, tableVars,
       regionVars, flagVars, enqVars
  <2>2. InService(w)' /\ pc'[w] \notin {"serve", "acquire", "search"} /\ event'[w] = "terminal"
            => phase'[at'[w]] = "failed"
    BY <1>0 DEF IInv, Typed, Placed, MutexHeld, WakeInv, ServiceStarted, ActiveServed,
       PhasesAdvance, Started, InService, Closing, Enqueueing, Closes, Goes, tableVars,
       regionVars, flagVars, enqVars
  <2>3. Closing(w)' => phase'[at'[w]] = "failed"
    BY <1>0 DEF IInv, Typed, Placed, MutexHeld, WakeInv, ServiceStarted, ActiveServed,
       PhasesAdvance, Started, InService, Closing, Enqueueing, Closes, Goes, tableVars,
       regionVars, flagVars, enqVars
  <2>4. \A r \in notified' \ notified : r \in Regions /\ phase'[r] = "failed"
    <3>1. at[w] \in Regions /\ phase[at[w]] = "failed"
      BY DEF IInv, Placed, WakeInv, ServiceStarted, InService, Closing, Closes
    <3> QED BY <3>1 DEF Closes, Goes, tableVars, regionVars, flagVars, enqVars
  <2> QED BY <1>0, <2>1, <2>2, <2>3, <2>4, StartedKept DEF WakeInv
<1>4. AllCared'
  <2> SUFFICES ASSUME NEW r \in Regions, phase'[r] = "root" PROVE Cared(r)'
    BY DEF AllCared
  <2>1. phase[r] = "root" /\ Cared(r)
    BY <1>0 DEF PhasesAdvance, WakeInv, AllCared, Closes, Goes, tableVars, regionVars,
       flagVars, enqVars
  <2>2. r \in queued => r \in queued' \/ Cared(r)'
    BY DEF Closes, Goes, tableVars, regionVars, flagVars, enqVars
  <2>3. r \in woken => r \in woken' \/ Cared(r)'
    BY DEF Closes, Goes, tableVars, regionVars, flagVars, enqVars
  <2>4. Parked(r) => Parked(r)' \/ Cared(r)'
    BY DEF Parked, Closes, Goes, tableVars, regionVars, flagVars, enqVars
  <2>5. r \in rerun => r \in rerun' \/ Cared(r)'
    <3>1. phase[at[w]] = "failed"
      BY DEF WakeInv, ServiceStarted, InService, Closing, Closes
    <3> QED BY <2>1, <3>1 DEF Closes
  <2>6. CaredBy(w, r) => Cared(r)'
    <3>1. phase[at[w]] = "failed"
      BY DEF WakeInv, ServiceStarted, InService, Closing, Closes
    <3>2. ~CaredBy(w, r)
      BY <2>1, <3>1 DEF CaredBy, WakeInv, HandsEmpty, Enqueueing, Closes
    <3> QED BY <3>2
  <2> QED BY <1>0, <2>1, <2>2, <2>3, <2>4, <2>5, <2>6, CareKept
<1> QED BY <1>0, <1>1, <1>2, <1>3, <1>4 DEF WakeInv

LEMMA ChildFailsWakes ==
    ASSUME IInv, WakeInv, NEW w \in Workers, ChildFails(w) PROVE WakeInv'
<1>0. Others(w) /\ PhasesAdvance /\ EventTyped'
  BY OthersStay, PhasesGo, EventsKept DEF Worker, WakeInv
<1>1. ActiveServed'
  <2>1. /\ active' = active /\ (InService(w)' <=> InService(w))
        /\ InService(w) => at'[w] = at[w]
    BY DEF IInv, Typed, Placed, InService, Closing, Enqueueing, ChildFails, Goes,
       Releases, Erased, tableVars, regionVars, flagVars, enqVars
  <2> QED BY <1>0, <2>1, ServiceGoesOn DEF WakeInv
<1>2. HandsEmpty'
  <2>1. pc'[w] # "wake" => waking'[w] = {}
    BY DEF IInv, Typed, Placed, WakeInv, HandsEmpty, Enqueueing, ChildFails, Goes,
       Releases, Erased, tableVars, regionVars, flagVars, enqVars
  <2>2. pc'[w] \notin Enqueueing => batch'[w] = {}
    BY DEF IInv, Typed, Placed, WakeInv, HandsEmpty, Enqueueing, ChildFails, Goes,
       Releases, Erased, tableVars, regionVars, flagVars, enqVars
  <2>3. pc'[w] \in {"push", "mark", "recheck"} => target'[w] \in batch'[w]
    BY DEF IInv, Typed, Placed, WakeInv, HandsEmpty, Enqueueing, ChildFails, Goes,
       Releases, Erased, tableVars, regionVars, flagVars, enqVars
  <2> QED BY <1>0, <2>1, <2>2, <2>3, HandsKept DEF WakeInv
<1>3. ServiceStarted'
  <2>1. InService(w)' /\ pc'[w] \notin {"serve", "acquire", "settle"} => Started(at[w])'
    BY <1>0 DEF IInv, Typed, Placed, MutexHeld, WakeInv, ServiceStarted, ActiveServed,
       PhasesAdvance, Started, InService, Closing, Enqueueing, ChildFails, Goes, Releases,
       Erased, tableVars, regionVars, flagVars, enqVars
  <2>2. InService(w)' /\ pc'[w] \notin {"serve", "acquire", "search"} /\ event'[w] = "terminal"
            => phase'[at'[w]] = "failed"
    BY <1>0 DEF IInv, Typed, Placed, MutexHeld, WakeInv, ServiceStarted, ActiveServed,
       PhasesAdvance, Started, InService, Closing, Enqueueing, ChildFails, Goes, Releases,
       Erased, tableVars, regionVars, flagVars, enqVars
  <2>3. Closing(w)' => phase'[at'[w]] = "failed"
    BY <1>0 DEF IInv, Typed, Placed, MutexHeld, WakeInv, ServiceStarted, ActiveServed,
       PhasesAdvance, Started, InService, Closing, Enqueueing, ChildFails, Goes, Releases,
       Erased, tableVars, regionVars, flagVars, enqVars
  <2>4. \A r \in notified' \ notified : r \in Regions /\ phase'[r] = "failed"
    <3>1. Parent[cursor[w]] \in Regions
      BY RegionsAssumption DEF IInv, Placed, ChildFails
    <3>2. \/ notified' = notified
          \/ /\ notified' = notified \cup {Parent[cursor[w]]}
             /\ phase' = [phase EXCEPT ![Parent[cursor[w]]] = "failed"]
      BY DEF ChildFails
    <3> QED BY <3>1, <3>2 DEF IInv, Typed
  <2> QED BY <1>0, <2>1, <2>2, <2>3, <2>4, StartedKept DEF WakeInv
<1>4. AllCared'
  <2> SUFFICES ASSUME NEW r \in Regions, phase'[r] = "root" PROVE Cared(r)'
    BY DEF AllCared
  <2>1. phase[r] = "root" /\ Cared(r)
    <3>1. phase' = phase \/ phase' = [phase EXCEPT ![Parent[cursor[w]]] = "failed"]
      BY DEF ChildFails
    <3>2. phase[r] = "root"
      BY <3>1 DEF IInv, Typed
    <3> QED BY <3>2 DEF WakeInv, AllCared
  <2>2. r \in queued => r \in queued' \/ Cared(r)'
    BY DEF ChildFails, Goes, Releases, Erased, tableVars, regionVars, flagVars, enqVars
  <2>3. r \in woken => r \in woken' \/ Cared(r)'
    BY DEF ChildFails, Goes, Releases, Erased, tableVars, regionVars, flagVars, enqVars
  <2>4. Parked(r) => Parked(r)' \/ Cared(r)'
    <3> DEFINE p == Parent[cursor[w]]
    <3>1. CASE owner' = owner /\ waiters' = waiters
      BY <3>1 DEF Parked
    <3>2. CASE ~(owner' = owner /\ waiters' = waiters)
      <4>1. Releases(w, p, "close")
        BY <3>2 DEF ChildFails
      <4>2. /\ waking'[w] = waiters[Key[p]]
            /\ waiters' = [waiters EXCEPT ![Key[p]] = {}]
            /\ owner' = [owner EXCEPT ![Key[p]] = None]
        BY <4>1 DEF IInv, Typed, Releases, Erased
      <4>3. CASE Key[r] = Key[p]
        BY <4>2, <4>3 DEF Parked, Cared, CaredBy
      <4>4. CASE Key[r] # Key[p]
        <5>1. Key[r] \in Keys
          BY DEF Keys
        <5>2. waiters'[Key[r]] = waiters[Key[r]] /\ owner'[Key[r]] = owner[Key[r]]
          BY <4>2, <4>4, <5>1 DEF IInv, Typed
        <5> QED BY <5>2 DEF Parked
      <4> QED BY <4>3, <4>4
    <3> QED BY <3>1, <3>2
  <2>5. r \in rerun => r \in rerun' \/ Cared(r)'
    BY DEF ChildFails, Goes, Releases, Erased, tableVars, regionVars, flagVars, enqVars
  <2>6. CaredBy(w, r) => Cared(r)'
    BY DEF Cared, CaredBy, IInv, Typed, WakeInv, HandsEmpty, Enqueueing, ChildFails, Goes,
       Releases, Erased, tableVars, regionVars, flagVars, enqVars
  <2> QED BY <1>0, <2>1, <2>2, <2>3, <2>4, <2>5, <2>6, CareKept
<1> QED BY <1>0, <1>1, <1>2, <1>3, <1>4 DEF WakeInv

LEMMA RootFailsWakes ==
    ASSUME IInv, WakeInv, NEW w \in Workers, RootFails(w) PROVE WakeInv'
<1>0. Others(w) /\ PhasesAdvance /\ EventTyped'
  BY OthersStay, PhasesGo, EventsKept DEF Worker, WakeInv
<1>1. ActiveServed'
  <2>1. /\ active' = active /\ (InService(w)' <=> InService(w))
        /\ InService(w) => at'[w] = at[w]
    BY DEF IInv, Typed, Placed, InService, Closing, Enqueueing, RootFails, Goes,
       tableVars, regionVars, flagVars, enqVars
  <2> QED BY <1>0, <2>1, ServiceGoesOn DEF WakeInv
<1>2. HandsEmpty'
  <2>1. pc'[w] # "wake" => waking'[w] = {}
    BY DEF IInv, Typed, Placed, WakeInv, HandsEmpty, Enqueueing, RootFails, Goes,
       tableVars, regionVars, flagVars, enqVars
  <2>2. pc'[w] \notin Enqueueing => batch'[w] = {}
    BY DEF IInv, Typed, Placed, WakeInv, HandsEmpty, Enqueueing, RootFails, Goes,
       tableVars, regionVars, flagVars, enqVars
  <2>3. pc'[w] \in {"push", "mark", "recheck"} => target'[w] \in batch'[w]
    BY DEF IInv, Typed, Placed, WakeInv, HandsEmpty, Enqueueing, RootFails, Goes,
       tableVars, regionVars, flagVars, enqVars
  <2> QED BY <1>0, <2>1, <2>2, <2>3, HandsKept DEF WakeInv
<1>3. ServiceStarted'
  <2>1. InService(w)' /\ pc'[w] \notin {"serve", "acquire", "settle"} => Started(at[w])'
    BY <1>0 DEF IInv, Typed, Placed, MutexHeld, WakeInv, ServiceStarted, ActiveServed,
       PhasesAdvance, Started, InService, Closing, Enqueueing, RootFails, Goes, tableVars,
       regionVars, flagVars, enqVars
  <2>2. InService(w)' /\ pc'[w] \notin {"serve", "acquire", "search"} /\ event'[w] = "terminal"
            => phase'[at'[w]] = "failed"
    BY <1>0 DEF IInv, Typed, Placed, MutexHeld, WakeInv, ServiceStarted, ActiveServed,
       PhasesAdvance, InService, Closing, Enqueueing, RootFails, Goes, tableVars,
       regionVars, flagVars, enqVars
  <2>3. Closing(w)' => phase'[at'[w]] = "failed"
    BY <1>0 DEF IInv, Typed, Placed, MutexHeld, WakeInv, ServiceStarted, ActiveServed,
       PhasesAdvance, InService, Closing, Enqueueing, RootFails, Goes, tableVars,
       regionVars, flagVars, enqVars
  <2>4. \A r \in notified' \ notified : r \in Regions /\ phase'[r] = "failed"
    BY DEF RootFails, Goes, tableVars, regionVars, flagVars, enqVars
  <2> QED BY <1>0, <2>1, <2>2, <2>3, <2>4, StartedKept DEF WakeInv
<1>4. AllCared'
  <2> SUFFICES ASSUME NEW r \in Regions, phase'[r] = "root" PROVE Cared(r)'
    BY DEF AllCared
  <2>1. phase[r] = "root" /\ Cared(r)
    BY <1>0 DEF PhasesAdvance, WakeInv, AllCared, RootFails, Goes, tableVars, regionVars,
       flagVars, enqVars
  <2>2. r \in queued => r \in queued' \/ Cared(r)'
    BY DEF RootFails, Goes, tableVars, regionVars, flagVars, enqVars
  <2>3. r \in woken => r \in woken' \/ Cared(r)'
    BY DEF RootFails, Goes, tableVars, regionVars, flagVars, enqVars
  <2>4. Parked(r) => Parked(r)' \/ Cared(r)'
    BY DEF Parked, RootFails, Goes, tableVars, regionVars, flagVars, enqVars
  <2>5. r \in rerun => r \in rerun' \/ Cared(r)'
    BY DEF RootFails, Goes, tableVars, regionVars, flagVars, enqVars
  <2>6. CaredBy(w, r) => Cared(r)'
    BY DEF Cared, CaredBy, IInv, Typed, WakeInv, HandsEmpty, Enqueueing, RootFails, Goes,
       tableVars, regionVars, flagVars, enqVars
  <2> QED BY <1>0, <2>1, <2>2, <2>3, <2>4, <2>5, <2>6, CareKept
<1> QED BY <1>0, <1>1, <1>2, <1>3, <1>4 DEF WakeInv

LEMMA FreesWakes ==
    ASSUME IInv, WakeInv, NEW w \in Workers, Frees(w) PROVE WakeInv'
<1>0. Others(w) /\ PhasesAdvance /\ EventTyped'
  BY OthersStay, PhasesGo, EventsKept DEF Worker, WakeInv
<1>1. ActiveServed'
  <2>1. InService(w) /\ ~InService(w)' /\ active' = active \ {at[w]}
    BY DEF IInv, Typed, InService, Closing, Enqueueing, Frees, Goes, tableVars,
       regionVars, flagVars, enqVars
  <2> QED BY <1>0, <2>1, ServiceEnds DEF WakeInv
<1>2. HandsEmpty'
  <2>1. pc'[w] # "wake" => waking'[w] = {}
    BY DEF IInv, Typed, Placed, WakeInv, HandsEmpty, Enqueueing, Frees, Goes, tableVars,
       regionVars, flagVars, enqVars
  <2>2. pc'[w] \notin Enqueueing => batch'[w] = {}
    BY DEF IInv, Typed, Placed, WakeInv, HandsEmpty, Enqueueing, Frees, Goes, tableVars,
       regionVars, flagVars, enqVars
  <2>3. pc'[w] \in {"push", "mark", "recheck"} => target'[w] \in batch'[w]
    BY DEF IInv, Typed, Placed, WakeInv, HandsEmpty, Enqueueing, Frees, Goes, tableVars,
       regionVars, flagVars, enqVars
  <2> QED BY <1>0, <2>1, <2>2, <2>3, HandsKept DEF WakeInv
<1>3. ServiceStarted'
  <2>1. InService(w)' /\ pc'[w] \notin {"serve", "acquire", "settle"} => Started(at[w])'
    BY <1>0 DEF IInv, Typed, Placed, MutexHeld, WakeInv, ServiceStarted, ActiveServed,
       PhasesAdvance, Started, InService, Closing, Enqueueing, Frees, Goes, tableVars,
       regionVars, flagVars, enqVars
  <2>2. InService(w)' /\ pc'[w] \notin {"serve", "acquire", "search"} /\ event'[w] = "terminal"
            => phase'[at'[w]] = "failed"
    BY <1>0 DEF IInv, Typed, Placed, MutexHeld, WakeInv, ServiceStarted, ActiveServed,
       PhasesAdvance, InService, Closing, Enqueueing, Frees, Goes, tableVars, regionVars,
       flagVars, enqVars
  <2>3. Closing(w)' => phase'[at'[w]] = "failed"
    BY <1>0 DEF IInv, Typed, Placed, MutexHeld, WakeInv, ServiceStarted, ActiveServed,
       PhasesAdvance, InService, Closing, Enqueueing, Frees, Goes, tableVars, regionVars,
       flagVars, enqVars
  <2>4. \A r \in notified' \ notified : r \in Regions /\ phase'[r] = "failed"
    BY DEF Frees, Goes, tableVars, regionVars, flagVars, enqVars
  <2> QED BY <1>0, <2>1, <2>2, <2>3, <2>4, StartedKept DEF WakeInv
<1>4. AllCared'
  <2> SUFFICES ASSUME NEW r \in Regions, phase'[r] = "root" PROVE Cared(r)'
    BY DEF AllCared
  <2>1. phase[r] = "root" /\ Cared(r)
    BY <1>0 DEF PhasesAdvance, WakeInv, AllCared, Frees, Goes, tableVars, regionVars,
       flagVars, enqVars
  <2>2. r \in queued => r \in queued' \/ Cared(r)'
    BY DEF Frees, Goes, tableVars, regionVars, flagVars, enqVars
  <2>3. r \in woken => r \in woken' \/ Cared(r)'
    BY DEF Frees, Goes, tableVars, regionVars, flagVars, enqVars
  <2>4. Parked(r) => Parked(r)' \/ Cared(r)'
    BY DEF Parked, Frees, Goes, tableVars, regionVars, flagVars, enqVars
  <2>5. r \in rerun => r \in rerun' \/ Cared(r)'
    BY DEF Frees, Goes, tableVars, regionVars, flagVars, enqVars
  <2>6. CaredBy(w, r) => Cared(r)'
    BY DEF Cared, CaredBy, IInv, Typed, WakeInv, HandsEmpty, Enqueueing, Frees, Goes,
       tableVars, regionVars, flagVars, enqVars
  <2> QED BY <1>0, <2>1, <2>2, <2>3, <2>4, <2>5, <2>6, CareKept
<1> QED BY <1>0, <1>1, <1>2, <1>3, <1>4 DEF WakeInv

LEMMA TakesWokenWakes ==
    ASSUME IInv, WakeInv, NEW w \in Workers, TakesWoken(w) PROVE WakeInv'
<1>0. Others(w) /\ PhasesAdvance /\ EventTyped'
  BY OthersStay, PhasesGo, EventsKept DEF Worker, WakeInv
<1>1. ActiveServed'
  <2>1. /\ active' = active /\ (InService(w)' <=> InService(w))
        /\ InService(w) => at'[w] = at[w]
    BY DEF IInv, Typed, Placed, InService, Closing, Enqueueing, TakesWoken, Goes,
       tableVars, regionVars, flagVars, enqVars
  <2> QED BY <1>0, <2>1, ServiceGoesOn DEF WakeInv
<1>2. HandsEmpty'
  <2>1. pc'[w] # "wake" => waking'[w] = {}
    BY DEF IInv, Typed, Placed, WakeInv, HandsEmpty, Enqueueing, TakesWoken, Goes,
       tableVars, regionVars, flagVars, enqVars
  <2>2. pc'[w] \notin Enqueueing => batch'[w] = {}
    BY DEF IInv, Typed, Placed, WakeInv, HandsEmpty, Enqueueing, TakesWoken, Goes,
       tableVars, regionVars, flagVars, enqVars
  <2>3. pc'[w] \in {"push", "mark", "recheck"} => target'[w] \in batch'[w]
    BY DEF IInv, Typed, Placed, WakeInv, HandsEmpty, Enqueueing, TakesWoken, Goes,
       tableVars, regionVars, flagVars, enqVars
  <2> QED BY <1>0, <2>1, <2>2, <2>3, HandsKept DEF WakeInv
<1>3. ServiceStarted'
  <2>1. InService(w)' /\ pc'[w] \notin {"serve", "acquire", "settle"} => Started(at[w])'
    BY <1>0 DEF IInv, Typed, Placed, MutexHeld, WakeInv, ServiceStarted, ActiveServed,
       PhasesAdvance, Started, InService, Closing, Enqueueing, TakesWoken, Goes,
       tableVars, regionVars, flagVars, enqVars
  <2>2. InService(w)' /\ pc'[w] \notin {"serve", "acquire", "search"} /\ event'[w] = "terminal"
            => phase'[at'[w]] = "failed"
    BY <1>0 DEF IInv, Typed, Placed, MutexHeld, WakeInv, ServiceStarted, ActiveServed,
       PhasesAdvance, InService, Closing, Enqueueing, TakesWoken, Goes, tableVars,
       regionVars, flagVars, enqVars
  <2>3. Closing(w)' => phase'[at'[w]] = "failed"
    BY <1>0 DEF IInv, Typed, Placed, MutexHeld, WakeInv, ServiceStarted, ActiveServed,
       PhasesAdvance, InService, Closing, Enqueueing, TakesWoken, Goes, tableVars,
       regionVars, flagVars, enqVars
  <2>4. \A r \in notified' \ notified : r \in Regions /\ phase'[r] = "failed"
    BY DEF TakesWoken, Goes, tableVars, regionVars, flagVars, enqVars
  <2> QED BY <1>0, <2>1, <2>2, <2>3, <2>4, StartedKept DEF WakeInv
<1>4. AllCared'
  <2> SUFFICES ASSUME NEW r \in Regions, phase'[r] = "root" PROVE Cared(r)'
    BY DEF AllCared
  <2>1. phase[r] = "root" /\ Cared(r)
    BY <1>0 DEF PhasesAdvance, WakeInv, AllCared, TakesWoken, Goes, tableVars, regionVars,
       flagVars, enqVars
  <2>2. r \in queued => r \in queued' \/ Cared(r)'
    BY DEF TakesWoken, Goes, tableVars, regionVars, flagVars, enqVars
  <2>3. r \in woken => r \in woken' \/ Cared(r)'
    BY DEF Cared, CaredBy, IInv, Typed, TakesWoken, Goes, tableVars, regionVars, flagVars,
       enqVars
  <2>4. Parked(r) => Parked(r)' \/ Cared(r)'
    BY DEF Parked, TakesWoken, Goes, tableVars, regionVars, flagVars, enqVars
  <2>5. r \in rerun => r \in rerun' \/ Cared(r)'
    BY DEF TakesWoken, Goes, tableVars, regionVars, flagVars, enqVars
  <2>6. CaredBy(w, r) => Cared(r)'
    BY DEF Cared, CaredBy, IInv, Typed, WakeInv, HandsEmpty, Enqueueing, TakesWoken, Goes,
       tableVars, regionVars, flagVars, enqVars
  <2> QED BY <1>0, <2>1, <2>2, <2>3, <2>4, <2>5, <2>6, CareKept
<1> QED BY <1>0, <1>1, <1>2, <1>3, <1>4 DEF WakeInv

LEMMA EnqueueDoneWakes ==
    ASSUME IInv, WakeInv, NEW w \in Workers, EnqueueDone(w) PROVE WakeInv'
<1>0. Others(w) /\ PhasesAdvance /\ EventTyped'
  BY OthersStay, PhasesGo, EventsKept DEF Worker, WakeInv
<1>1. ActiveServed'
  <2>1. /\ active' = active /\ (InService(w)' <=> InService(w))
        /\ InService(w) => at'[w] = at[w]
    BY DEF IInv, Typed, Placed, InService, Closing, Enqueueing, EnqueueDone, Goes,
       tableVars, regionVars, flagVars, enqVars
  <2> QED BY <1>0, <2>1, ServiceGoesOn DEF WakeInv
<1>2. HandsEmpty'
  <2>1. pc'[w] # "wake" => waking'[w] = {}
    BY DEF IInv, Typed, Placed, WakeInv, HandsEmpty, Enqueueing, EnqueueDone, Goes,
       tableVars, regionVars, flagVars, enqVars
  <2>2. pc'[w] \notin Enqueueing => batch'[w] = {}
    BY DEF IInv, Typed, Placed, WakeInv, HandsEmpty, Enqueueing, EnqueueDone, Goes,
       tableVars, regionVars, flagVars, enqVars
  <2>3. pc'[w] \in {"push", "mark", "recheck"} => target'[w] \in batch'[w]
    BY DEF IInv, Typed, Placed, WakeInv, HandsEmpty, Enqueueing, EnqueueDone, Goes,
       tableVars, regionVars, flagVars, enqVars
  <2> QED BY <1>0, <2>1, <2>2, <2>3, HandsKept DEF WakeInv
<1>3. ServiceStarted'
  <2>1. InService(w)' /\ pc'[w] \notin {"serve", "acquire", "settle"} => Started(at[w])'
    BY <1>0 DEF IInv, Typed, Placed, MutexHeld, WakeInv, ServiceStarted, ActiveServed,
       PhasesAdvance, Started, InService, Closing, Enqueueing, EnqueueDone, Goes,
       tableVars, regionVars, flagVars, enqVars
  <2>2. InService(w)' /\ pc'[w] \notin {"serve", "acquire", "search"} /\ event'[w] = "terminal"
            => phase'[at'[w]] = "failed"
    BY <1>0 DEF IInv, Typed, Placed, MutexHeld, WakeInv, ServiceStarted, ActiveServed,
       PhasesAdvance, InService, Closing, Enqueueing, EnqueueDone, Goes, tableVars,
       regionVars, flagVars, enqVars
  <2>3. Closing(w)' => phase'[at'[w]] = "failed"
    BY <1>0 DEF IInv, Typed, Placed, MutexHeld, WakeInv, ServiceStarted, ActiveServed,
       PhasesAdvance, InService, Closing, Enqueueing, EnqueueDone, Goes, tableVars,
       regionVars, flagVars, enqVars
  <2>4. \A r \in notified' \ notified : r \in Regions /\ phase'[r] = "failed"
    BY DEF EnqueueDone, Goes, tableVars, regionVars, flagVars, enqVars
  <2> QED BY <1>0, <2>1, <2>2, <2>3, <2>4, StartedKept DEF WakeInv
<1>4. AllCared'
  <2> SUFFICES ASSUME NEW r \in Regions, phase'[r] = "root" PROVE Cared(r)'
    BY DEF AllCared
  <2>1. phase[r] = "root" /\ Cared(r)
    BY <1>0 DEF PhasesAdvance, WakeInv, AllCared, EnqueueDone, Goes, tableVars,
       regionVars, flagVars, enqVars
  <2>2. r \in queued => r \in queued' \/ Cared(r)'
    BY DEF EnqueueDone, Goes, tableVars, regionVars, flagVars, enqVars
  <2>3. r \in woken => r \in woken' \/ Cared(r)'
    BY DEF EnqueueDone, Goes, tableVars, regionVars, flagVars, enqVars
  <2>4. Parked(r) => Parked(r)' \/ Cared(r)'
    BY DEF Parked, EnqueueDone, Goes, tableVars, regionVars, flagVars, enqVars
  <2>5. r \in rerun => r \in rerun' \/ Cared(r)'
    BY DEF EnqueueDone, Goes, tableVars, regionVars, flagVars, enqVars
  <2>6. CaredBy(w, r) => Cared(r)'
    BY DEF Cared, CaredBy, IInv, Typed, WakeInv, HandsEmpty, Enqueueing, EnqueueDone,
       Goes, tableVars, regionVars, flagVars, enqVars
  <2> QED BY <1>0, <2>1, <2>2, <2>3, <2>4, <2>5, <2>6, CareKept
<1> QED BY <1>0, <1>1, <1>2, <1>3, <1>4 DEF WakeInv

LEMMA EnqueueLoadsWakes ==
    ASSUME IInv, WakeInv, NEW w \in Workers, EnqueueLoads(w) PROVE WakeInv'
<1>0. Others(w) /\ PhasesAdvance /\ EventTyped'
  BY OthersStay, PhasesGo, EventsKept DEF Worker, WakeInv
<1>1. ActiveServed'
  <2>1. /\ active' = active /\ (InService(w)' <=> InService(w))
        /\ InService(w) => at'[w] = at[w]
    BY DEF IInv, Typed, Placed, InService, Closing, Enqueueing, EnqueueLoads, Goes,
       tableVars, regionVars, flagVars, enqVars
  <2> QED BY <1>0, <2>1, ServiceGoesOn DEF WakeInv
<1>2. HandsEmpty'
  <2>1. pc'[w] # "wake" => waking'[w] = {}
    BY DEF IInv, Typed, Placed, WakeInv, HandsEmpty, Enqueueing, EnqueueLoads, Goes,
       tableVars, regionVars, flagVars, enqVars
  <2>2. pc'[w] \notin Enqueueing => batch'[w] = {}
    BY DEF IInv, Typed, Placed, WakeInv, HandsEmpty, Enqueueing, EnqueueLoads, Goes,
       tableVars, regionVars, flagVars, enqVars
  <2>3. pc'[w] \in {"push", "mark", "recheck"} => target'[w] \in batch'[w]
    BY DEF IInv, Typed, Placed, WakeInv, HandsEmpty, Enqueueing, EnqueueLoads, Goes,
       tableVars, regionVars, flagVars, enqVars
  <2> QED BY <1>0, <2>1, <2>2, <2>3, HandsKept DEF WakeInv
<1>3. ServiceStarted'
  <2>1. InService(w)' /\ pc'[w] \notin {"serve", "acquire", "settle"} => Started(at[w])'
    BY <1>0 DEF IInv, Typed, Placed, MutexHeld, WakeInv, ServiceStarted, ActiveServed,
       PhasesAdvance, Started, InService, Closing, Enqueueing, EnqueueLoads, Goes,
       tableVars, regionVars, flagVars, enqVars
  <2>2. InService(w)' /\ pc'[w] \notin {"serve", "acquire", "search"} /\ event'[w] = "terminal"
            => phase'[at'[w]] = "failed"
    BY <1>0 DEF IInv, Typed, Placed, MutexHeld, WakeInv, ServiceStarted, ActiveServed,
       PhasesAdvance, InService, Closing, Enqueueing, EnqueueLoads, Goes, tableVars,
       regionVars, flagVars, enqVars
  <2>3. Closing(w)' => phase'[at'[w]] = "failed"
    BY <1>0 DEF IInv, Typed, Placed, MutexHeld, WakeInv, ServiceStarted, ActiveServed,
       PhasesAdvance, InService, Closing, Enqueueing, EnqueueLoads, Goes, tableVars,
       regionVars, flagVars, enqVars
  <2>4. \A r \in notified' \ notified : r \in Regions /\ phase'[r] = "failed"
    BY DEF EnqueueLoads, Goes, tableVars, regionVars, flagVars, enqVars
  <2> QED BY <1>0, <2>1, <2>2, <2>3, <2>4, StartedKept DEF WakeInv
<1>4. AllCared'
  <2> SUFFICES ASSUME NEW r \in Regions, phase'[r] = "root" PROVE Cared(r)'
    BY DEF AllCared
  <2>1. phase[r] = "root" /\ Cared(r)
    BY <1>0 DEF PhasesAdvance, WakeInv, AllCared, EnqueueLoads, Goes, tableVars,
       regionVars, flagVars, enqVars
  <2>2. r \in queued => r \in queued' \/ Cared(r)'
    BY DEF EnqueueLoads, Goes, tableVars, regionVars, flagVars, enqVars
  <2>3. r \in woken => r \in woken' \/ Cared(r)'
    BY DEF EnqueueLoads, Goes, tableVars, regionVars, flagVars, enqVars
  <2>4. Parked(r) => Parked(r)' \/ Cared(r)'
    BY DEF Parked, EnqueueLoads, Goes, tableVars, regionVars, flagVars, enqVars
  <2>5. r \in rerun => r \in rerun' \/ Cared(r)'
    BY DEF EnqueueLoads, Goes, tableVars, regionVars, flagVars, enqVars
  <2>6. CaredBy(w, r) => Cared(r)'
    BY DEF Cared, CaredBy, IInv, Typed, WakeInv, HandsEmpty, Enqueueing, EnqueueLoads,
       Goes, tableVars, regionVars, flagVars, enqVars
  <2> QED BY <1>0, <2>1, <2>2, <2>3, <2>4, <2>5, <2>6, CareKept
<1> QED BY <1>0, <1>1, <1>2, <1>3, <1>4 DEF WakeInv

LEMMA EnqueuePushesWakes ==
    ASSUME IInv, WakeInv, NEW w \in Workers, EnqueuePushes(w) PROVE WakeInv'
<1>0. Others(w) /\ PhasesAdvance /\ EventTyped'
  BY OthersStay, PhasesGo, EventsKept DEF Worker, WakeInv
<1>1. ActiveServed'
  <2>1. /\ active' = active /\ (InService(w)' <=> InService(w))
        /\ InService(w) => at'[w] = at[w]
    BY DEF IInv, Typed, Placed, InService, Closing, Enqueueing, EnqueuePushes, Goes,
       EnqueueLeaves, tableVars, regionVars, flagVars, enqVars
  <2> QED BY <1>0, <2>1, ServiceGoesOn DEF WakeInv
<1>2. HandsEmpty'
  <2>1. pc'[w] # "wake" => waking'[w] = {}
    BY DEF IInv, Typed, Placed, WakeInv, HandsEmpty, Enqueueing, EnqueuePushes, Goes,
       EnqueueLeaves, tableVars, regionVars, flagVars, enqVars
  <2>2. pc'[w] \notin Enqueueing => batch'[w] = {}
    BY DEF IInv, Typed, Placed, WakeInv, HandsEmpty, Enqueueing, EnqueuePushes, Goes,
       EnqueueLeaves, tableVars, regionVars, flagVars, enqVars
  <2>3. pc'[w] \in {"push", "mark", "recheck"} => target'[w] \in batch'[w]
    BY DEF IInv, Typed, Placed, WakeInv, HandsEmpty, Enqueueing, EnqueuePushes, Goes,
       EnqueueLeaves, tableVars, regionVars, flagVars, enqVars
  <2> QED BY <1>0, <2>1, <2>2, <2>3, HandsKept DEF WakeInv
<1>3. ServiceStarted'
  <2>1. InService(w)' /\ pc'[w] \notin {"serve", "acquire", "settle"} => Started(at[w])'
    BY <1>0 DEF IInv, Typed, Placed, MutexHeld, WakeInv, ServiceStarted, ActiveServed,
       PhasesAdvance, Started, InService, Closing, Enqueueing, EnqueuePushes, Goes,
       EnqueueLeaves, tableVars, regionVars, flagVars, enqVars
  <2>2. InService(w)' /\ pc'[w] \notin {"serve", "acquire", "search"} /\ event'[w] = "terminal"
            => phase'[at'[w]] = "failed"
    BY <1>0 DEF IInv, Typed, Placed, MutexHeld, WakeInv, ServiceStarted, ActiveServed,
       PhasesAdvance, InService, Closing, Enqueueing, EnqueuePushes, Goes, EnqueueLeaves,
       tableVars, regionVars, flagVars, enqVars
  <2>3. Closing(w)' => phase'[at'[w]] = "failed"
    BY <1>0 DEF IInv, Typed, Placed, MutexHeld, WakeInv, ServiceStarted, ActiveServed,
       PhasesAdvance, InService, Closing, Enqueueing, EnqueuePushes, Goes, EnqueueLeaves,
       tableVars, regionVars, flagVars, enqVars
  <2>4. \A r \in notified' \ notified : r \in Regions /\ phase'[r] = "failed"
    BY DEF EnqueuePushes, Goes, EnqueueLeaves, tableVars, regionVars, flagVars, enqVars
  <2> QED BY <1>0, <2>1, <2>2, <2>3, <2>4, StartedKept DEF WakeInv
<1>4. AllCared'
  <2> SUFFICES ASSUME NEW r \in Regions, phase'[r] = "root" PROVE Cared(r)'
    BY DEF AllCared
  <2>1. phase[r] = "root" /\ Cared(r)
    BY <1>0 DEF PhasesAdvance, WakeInv, AllCared, EnqueuePushes, Goes, EnqueueLeaves,
       tableVars, regionVars, flagVars, enqVars
  <2>2. r \in queued => r \in queued' \/ Cared(r)'
    BY DEF EnqueuePushes, Goes, EnqueueLeaves, tableVars, regionVars, flagVars, enqVars
  <2>3. r \in woken => r \in woken' \/ Cared(r)'
    BY DEF EnqueuePushes, Goes, EnqueueLeaves, tableVars, regionVars, flagVars, enqVars
  <2>4. Parked(r) => Parked(r)' \/ Cared(r)'
    BY DEF Parked, EnqueuePushes, Goes, EnqueueLeaves, tableVars, regionVars, flagVars,
       enqVars
  <2>5. r \in rerun => r \in rerun' \/ Cared(r)'
    BY DEF EnqueuePushes, Goes, EnqueueLeaves, tableVars, regionVars, flagVars, enqVars
  <2>6. CaredBy(w, r) => Cared(r)'
    BY DEF Cared, CaredBy, IInv, Typed, WakeInv, HandsEmpty, Enqueueing, EnqueuePushes,
       Goes, EnqueueLeaves, tableVars, regionVars, flagVars, enqVars
  <2> QED BY <1>0, <2>1, <2>2, <2>3, <2>4, <2>5, <2>6, CareKept
<1> QED BY <1>0, <1>1, <1>2, <1>3, <1>4 DEF WakeInv

LEMMA EnqueueMarksWakes ==
    ASSUME IInv, WakeInv, NEW w \in Workers, EnqueueMarks(w) PROVE WakeInv'
<1>0. Others(w) /\ PhasesAdvance /\ EventTyped'
  BY OthersStay, PhasesGo, EventsKept DEF Worker, WakeInv
<1>1. ActiveServed'
  <2>1. /\ active' = active /\ (InService(w)' <=> InService(w))
        /\ InService(w) => at'[w] = at[w]
    BY DEF IInv, Typed, Placed, InService, Closing, Enqueueing, EnqueueMarks, Goes,
       tableVars, regionVars, flagVars, enqVars
  <2> QED BY <1>0, <2>1, ServiceGoesOn DEF WakeInv
<1>2. HandsEmpty'
  <2>1. pc'[w] # "wake" => waking'[w] = {}
    BY DEF IInv, Typed, Placed, WakeInv, HandsEmpty, Enqueueing, EnqueueMarks, Goes,
       tableVars, regionVars, flagVars, enqVars
  <2>2. pc'[w] \notin Enqueueing => batch'[w] = {}
    BY DEF IInv, Typed, Placed, WakeInv, HandsEmpty, Enqueueing, EnqueueMarks, Goes,
       tableVars, regionVars, flagVars, enqVars
  <2>3. pc'[w] \in {"push", "mark", "recheck"} => target'[w] \in batch'[w]
    BY DEF IInv, Typed, Placed, WakeInv, HandsEmpty, Enqueueing, EnqueueMarks, Goes,
       tableVars, regionVars, flagVars, enqVars
  <2> QED BY <1>0, <2>1, <2>2, <2>3, HandsKept DEF WakeInv
<1>3. ServiceStarted'
  <2>1. InService(w)' /\ pc'[w] \notin {"serve", "acquire", "settle"} => Started(at[w])'
    BY <1>0 DEF IInv, Typed, Placed, MutexHeld, WakeInv, ServiceStarted, ActiveServed,
       PhasesAdvance, Started, InService, Closing, Enqueueing, EnqueueMarks, Goes,
       tableVars, regionVars, flagVars, enqVars
  <2>2. InService(w)' /\ pc'[w] \notin {"serve", "acquire", "search"} /\ event'[w] = "terminal"
            => phase'[at'[w]] = "failed"
    BY <1>0 DEF IInv, Typed, Placed, MutexHeld, WakeInv, ServiceStarted, ActiveServed,
       PhasesAdvance, InService, Closing, Enqueueing, EnqueueMarks, Goes, tableVars,
       regionVars, flagVars, enqVars
  <2>3. Closing(w)' => phase'[at'[w]] = "failed"
    BY <1>0 DEF IInv, Typed, Placed, MutexHeld, WakeInv, ServiceStarted, ActiveServed,
       PhasesAdvance, InService, Closing, Enqueueing, EnqueueMarks, Goes, tableVars,
       regionVars, flagVars, enqVars
  <2>4. \A r \in notified' \ notified : r \in Regions /\ phase'[r] = "failed"
    BY DEF EnqueueMarks, Goes, tableVars, regionVars, flagVars, enqVars
  <2> QED BY <1>0, <2>1, <2>2, <2>3, <2>4, StartedKept DEF WakeInv
<1>4. AllCared'
  <2> SUFFICES ASSUME NEW r \in Regions, phase'[r] = "root" PROVE Cared(r)'
    BY DEF AllCared
  <2>1. phase[r] = "root" /\ Cared(r)
    BY <1>0 DEF PhasesAdvance, WakeInv, AllCared, EnqueueMarks, Goes, tableVars,
       regionVars, flagVars, enqVars
  <2>2. r \in queued => r \in queued' \/ Cared(r)'
    BY DEF EnqueueMarks, Goes, tableVars, regionVars, flagVars, enqVars
  <2>3. r \in woken => r \in woken' \/ Cared(r)'
    BY DEF EnqueueMarks, Goes, tableVars, regionVars, flagVars, enqVars
  <2>4. Parked(r) => Parked(r)' \/ Cared(r)'
    BY DEF Parked, EnqueueMarks, Goes, tableVars, regionVars, flagVars, enqVars
  <2>5. r \in rerun => r \in rerun' \/ Cared(r)'
    BY DEF EnqueueMarks, Goes, tableVars, regionVars, flagVars, enqVars
  <2>6. CaredBy(w, r) => Cared(r)'
    BY DEF Cared, CaredBy, IInv, Typed, WakeInv, HandsEmpty, Enqueueing, EnqueueMarks,
       Goes, tableVars, regionVars, flagVars, enqVars
  <2> QED BY <1>0, <2>1, <2>2, <2>3, <2>4, <2>5, <2>6, CareKept
<1> QED BY <1>0, <1>1, <1>2, <1>3, <1>4 DEF WakeInv

LEMMA EnqueueRechecksWakes ==
    ASSUME IInv, WakeInv, NEW w \in Workers, EnqueueRechecks(w) PROVE WakeInv'
<1>0. Others(w) /\ PhasesAdvance /\ EventTyped'
  BY OthersStay, PhasesGo, EventsKept DEF Worker, WakeInv
<1>1. ActiveServed'
  <2>1. /\ active' = active /\ (InService(w)' <=> InService(w))
        /\ InService(w) => at'[w] = at[w]
    BY DEF IInv, Typed, Placed, InService, Closing, Enqueueing, EnqueueRechecks, Goes,
       EnqueueLeaves, OwnerLeft, tableVars, regionVars, flagVars, enqVars
  <2> QED BY <1>0, <2>1, ServiceGoesOn DEF WakeInv
<1>2. HandsEmpty'
  <2>1. pc'[w] # "wake" => waking'[w] = {}
    BY DEF IInv, Typed, Placed, WakeInv, HandsEmpty, Enqueueing, EnqueueRechecks, Goes,
       EnqueueLeaves, OwnerLeft, tableVars, regionVars, flagVars, enqVars
  <2>2. pc'[w] \notin Enqueueing => batch'[w] = {}
    BY DEF IInv, Typed, Placed, WakeInv, HandsEmpty, Enqueueing, EnqueueRechecks, Goes,
       EnqueueLeaves, OwnerLeft, tableVars, regionVars, flagVars, enqVars
  <2>3. pc'[w] \in {"push", "mark", "recheck"} => target'[w] \in batch'[w]
    BY DEF IInv, Typed, Placed, WakeInv, HandsEmpty, Enqueueing, EnqueueRechecks, Goes,
       EnqueueLeaves, OwnerLeft, tableVars, regionVars, flagVars, enqVars
  <2> QED BY <1>0, <2>1, <2>2, <2>3, HandsKept DEF WakeInv
<1>3. ServiceStarted'
  <2>1. InService(w)' /\ pc'[w] \notin {"serve", "acquire", "settle"} => Started(at[w])'
    BY <1>0 DEF IInv, Typed, Placed, MutexHeld, WakeInv, ServiceStarted, ActiveServed,
       PhasesAdvance, Started, InService, Closing, Enqueueing, EnqueueRechecks, Goes,
       EnqueueLeaves, OwnerLeft, tableVars, regionVars, flagVars, enqVars
  <2>2. InService(w)' /\ pc'[w] \notin {"serve", "acquire", "search"} /\ event'[w] = "terminal"
            => phase'[at'[w]] = "failed"
    <3>1. /\ pc'[w] = "load" /\ at'[w] = at[w] /\ event'[w] = event[w] /\ back'[w] = back[w]
          /\ phase' = phase
      BY DEF IInv, Typed, EnqueueRechecks, Goes, EnqueueLeaves, OwnerLeft, tableVars,
         regionVars, flagVars, enqVars
    <3> QED BY <3>1 DEF WakeInv, ServiceStarted, InService, Closing, Enqueueing,
       EnqueueRechecks
  <2>3. Closing(w)' => phase'[at'[w]] = "failed"
    BY <1>0 DEF IInv, Typed, Placed, MutexHeld, WakeInv, ServiceStarted, ActiveServed,
       PhasesAdvance, Started, InService, Closing, Enqueueing, EnqueueRechecks, Goes,
       EnqueueLeaves, OwnerLeft, tableVars, regionVars, flagVars, enqVars
  <2>4. \A r \in notified' \ notified : r \in Regions /\ phase'[r] = "failed"
    BY DEF EnqueueRechecks, Goes, EnqueueLeaves, OwnerLeft, tableVars, regionVars,
       flagVars, enqVars
  <2> QED BY <1>0, <2>1, <2>2, <2>3, <2>4, StartedKept DEF WakeInv
<1>4. AllCared'
  <2> SUFFICES ASSUME NEW r \in Regions, phase'[r] = "root" PROVE Cared(r)'
    BY DEF AllCared
  <2>1. phase[r] = "root" /\ Cared(r)
    BY <1>0 DEF PhasesAdvance, WakeInv, AllCared, EnqueueRechecks, Goes, EnqueueLeaves,
       OwnerLeft, tableVars, regionVars, flagVars, enqVars
  <2>2. r \in queued => r \in queued' \/ Cared(r)'
    BY DEF EnqueueRechecks, Goes, EnqueueLeaves, OwnerLeft, tableVars, regionVars,
       flagVars, enqVars
  <2>3. r \in woken => r \in woken' \/ Cared(r)'
    BY DEF EnqueueRechecks, Goes, EnqueueLeaves, OwnerLeft, tableVars, regionVars,
       flagVars, enqVars
  <2>4. Parked(r) => Parked(r)' \/ Cared(r)'
    BY DEF Parked, EnqueueRechecks, Goes, EnqueueLeaves, OwnerLeft, tableVars, regionVars,
       flagVars, enqVars
  <2>5. r \in rerun => r \in rerun' \/ Cared(r)'
    <3>1. CASE r \in rerun'
      BY <3>1
    <3>2. CASE r \in rerun /\ r \notin rerun'
      <4>1. OwnerLeft(r) /\ target[w] = r
        BY <3>2 DEF EnqueueRechecks
      <4>2. r \in batch'[w] /\ pc'[w] = "load"
        BY <4>1 DEF IInv, Typed, WakeInv, HandsEmpty, EnqueueRechecks, Goes
      <4> QED BY <4>2 DEF Cared, CaredBy
    <3> QED BY <3>1, <3>2
  <2>6. CaredBy(w, r) => Cared(r)'
    <3> SUFFICES ASSUME CaredBy(w, r) PROVE Cared(r)'
      OBVIOUS
    <3>1. r \in batch[w] /\ (target[w] = r => r \in rerun)
      BY DEF CaredBy, WakeInv, HandsEmpty, Enqueueing, EnqueueRechecks
    <3>2. CASE OwnerLeft(target[w]) \/ target[w] # r
      <4>1. r \in batch'[w] /\ pc'[w] = "load"
        BY <3>1, <3>2 DEF IInv, Typed, EnqueueRechecks, EnqueueLeaves, Goes
      <4> QED BY <4>1 DEF Cared, CaredBy
    <3>3. CASE ~OwnerLeft(target[w]) /\ target[w] = r
      <4>1. r \in active /\ r \in rerun /\ rerun' = rerun
        BY <3>1, <3>3 DEF OwnerLeft, EnqueueRechecks
      <4>2. PICK v \in Workers : at[v] = r /\ InService(v)
        BY <4>1 DEF WakeInv, ActiveServed
      <4>3. pc[v] \in {"serve", "acquire", "settle"}
        BY <2>1, <4>2 DEF WakeInv, ServiceStarted, Started
      <4>4. v # w
        BY <4>3 DEF EnqueueRechecks
      <4> QED BY <1>0, <4>1, <4>2, <4>3, <4>4 DEF Others, Cared, CaredBy
    <3> QED BY <3>2, <3>3
  <2> QED BY <1>0, <2>1, <2>2, <2>3, <2>4, <2>5, <2>6, CareKept
<1> QED BY <1>0, <1>1, <1>2, <1>3, <1>4 DEF WakeInv

LEMMA ReconcileWakes == ASSUME IInv, WakeInv, Reconcile PROVE WakeInv'
<1>1. UNCHANGED <<workerVars, phase, active, rerun, notified>>
  BY DEF Reconcile
<1>2. ActiveServed' /\ HandsEmpty' /\ ServiceStarted' /\ EventTyped'
  BY <1>1 DEF WakeInv, ActiveServed, HandsEmpty, ServiceStarted, EventTyped, InService,
     Closing, Enqueueing, Started, workerVars, enqVars
<1>3. AllCared'
  BY <1>1 DEF Reconcile, AllCared, Cared, Runnable
<1> QED BY <1>2, <1>3 DEF WakeInv

LEMMA WakesStutter == WakeInv /\ UNCHANGED vars => WakeInv'
BY DEF WakeInv, ActiveServed, HandsEmpty, ServiceStarted, EventTyped, InService, Closing,
   Enqueueing, Started, AllCared, Cared, CaredBy, Parked, vars, tableVars, regionVars,
   flagVars, workerVars, enqVars

LEMMA InitWakes == Init => WakeInv
<1> SUFFICES ASSUME Init PROVE WakeInv
  OBVIOUS
<1>1. \A w \in Workers : ~InService(w) /\ ~Closing(w)
  BY DEF Init, InService, Closing, Enqueueing
<1>2. EventTyped /\ ActiveServed /\ HandsEmpty /\ ServiceStarted
  BY <1>1 DEF Init, EventTyped, ActiveServed, HandsEmpty, Enqueueing, ServiceStarted
<1>3. AllCared
  BY DEF Init, AllCared, Cared
<1> QED BY <1>2, <1>3 DEF WakeInv

LEMMA NextWakes == IInv /\ WakeInv /\ [Next]_vars => WakeInv'
<1> SUFFICES ASSUME IInv, WakeInv, [Next]_vars PROVE WakeInv'
  OBVIOUS
<1>1. ASSUME NEW w \in Workers, Worker(w) PROVE WakeInv'
  BY <1>1, PopWakes, UnmarkWakes, ActivateWakes, ActivateFailsWakes, ServeNothingWakes,
     ServeProvedWakes, MissesCacheWakes, AcquireParksWakes, AcquireOwnsWakes,
     AcquireSaturatedWakes, SearchYieldsWakes, SearchDonatesWakes, SearchFinishesWakes,
     WakesWakes, GivesUpWakes, ExchangesRerunWakes, EnqueuesAgainWakes, ClosesWakes,
     ChildFailsWakes, RootFailsWakes, FreesWakes, TakesWokenWakes, EnqueueDoneWakes,
     EnqueueLoadsWakes, EnqueuePushesWakes, EnqueueMarksWakes, EnqueueRechecksWakes
     DEF Worker
<1> QED BY <1>1, ReconcileWakes, WakesStutter DEF Next

LEMMA Attended == Spec => []WakeInv
BY InitWakes, NextWakes, Inductive, PTL DEF Spec

\* A region that has parked, whatever the order of the parking, the release, the
\* hand-over and the region's flags, is always in an entry that is still there, on
\* the way to the queue, or with a worker that will look at it again (enqueue,
\* parallel_decision_session.cpp:514; release, canonical_ownership.cpp:67).
THEOREM NoneForgotten == Spec => []NoLostWaiter
<1>1. WakeInv => NoLostWaiter
  <2> SUFFICES ASSUME WakeInv, NEW r \in Regions, phase[r] = "root"
               PROVE  LookedAt(r) \/ WakeupPending(r)
    BY DEF NoLostWaiter
  <2>1. ASSUME NEW w \in Workers, CaredBy(w, r) PROVE LookedAt(r) \/ WakeupPending(r)
    <3>1. pc[w] \in {"serve", "acquire", "settle"} => at[w] \in active
      BY DEF WakeInv, ActiveServed, InService
    <3> QED BY <2>1, <3>1 DEF CaredBy, LookedAt, WakeupPending
  <2> QED BY <2>1 DEF WakeInv, AllCared, Cared, Parked, LookedAt, WakeupPending
<1> QED BY <1>1, Attended, PTL

-----------------------------------------------------------------------------
\* Types, and the queue: a region is in it at most once, under its queued flag,
\* which a worker that has popped the region has not lowered yet.
Popped(w) == pc[w] = "popped"
Queue ==
    /\ \A i, j \in 1..Len(ready) : ready[i] = ready[j] => i = j
    /\ \A i \in 1..Len(ready) : ready[i] \in queued
    /\ \A w \in Workers : Popped(w) =>
         at[w] \in queued /\ \A i \in 1..Len(ready) : ready[i] # at[w]
    /\ \A v, w \in Workers : Popped(v) /\ Popped(w) /\ at[v] = at[w] => v = w
Rest ==
    /\ proved \subseteq Keys /\ queued \subseteq Regions /\ rerun \subseteq Regions
    /\ answer \in {"unresolved", "infeasible"}

LEMMA OnlyPopPops ==
    ASSUME IInv, EventTyped, NEW w \in Workers, Worker(w), ~Pop(w)
    PROVE  \A v \in Workers : Popped(v)' => Popped(v) /\ at'[v] = at[v]
<1>1. Others(w)
  BY OthersStay
<1>2. pc'[w] # "popped"
  BY SMTT(30) DEF Worker, IInv, Typed, Placed, Unmark, Activate, ActivateFails, ServeNothing, ServeProved,
     MissesCache, AcquireParks, AcquireOwns, AcquireSaturated, SearchYields, SearchDonates,
     SearchFinishes, Wakes, GivesUp, ExchangesRerun, EnqueuesAgain, Closes, ChildFails, RootFails,
     Frees, TakesWoken, EnqueueDone, EnqueueLoads, EnqueuePushes, EnqueueMarks, EnqueueRechecks,
     EnqueueLeaves, Goes, Returns, Enters, Releases
<1> QED BY <1>1, <1>2 DEF Others, Popped

LEMMA QueueStays ==
    ASSUME Queue, UNCHANGED <<queued, ready>>,
           \A v \in Workers : Popped(v)' => Popped(v) /\ at'[v] = at[v]
    PROVE  Queue'
BY DEF Queue

LEMMA PopQueues == ASSUME IInv, WakeInv, Queue, NEW w \in Workers, Pop(w) PROVE Queue'
<1>1. /\ ready \in Seq(Regions) /\ ready # <<>> /\ queued' = queued
      /\ ready' = Tail(ready) /\ at' = [at EXCEPT ![w] = ready[1]]
  BY DEF Pop, IInv, Typed
<1>2. /\ Len(ready) \in Nat \ {0} /\ Len(ready') = Len(ready) - 1
      /\ \A i \in 1..Len(ready') : ready'[i] = ready[i + 1]
  BY <1>1
<1>3. Others(w) /\ at'[w] = ready[1] /\ ~Popped(w)
  BY <1>1, OthersStay DEF IInv, Typed, Worker, WakeInv, Pop, Popped
<1>4. /\ \A i, j \in 1..Len(ready') : ready'[i] = ready'[j] => i = j
      /\ \A i \in 1..Len(ready') : ready'[i] \in queued'
  BY <1>1, <1>2 DEF Queue
<1>5. ASSUME NEW v \in Workers, Popped(v)'
      PROVE  at'[v] \in queued' /\ \A i \in 1..Len(ready') : ready'[i] # at'[v]
  BY <1>1, <1>2, <1>3, <1>5 DEF Queue, Others, Popped
<1>6. ASSUME NEW u \in Workers, NEW v \in Workers, Popped(u)', Popped(v)', at'[u] = at'[v]
      PROVE  u = v
  BY <1>2, <1>3, <1>6 DEF Queue, Others, Popped
<1> QED BY <1>4, <1>5, <1>6 DEF Queue

LEMMA UnmarkQueues == ASSUME IInv, WakeInv, Queue, NEW w \in Workers, Unmark(w) PROVE Queue'
<1>1. \A v \in Workers : Popped(v)' => Popped(v) /\ at'[v] = at[v]
  BY OnlyPopPops DEF WakeInv, Worker, Unmark, Pop
<1>2. Popped(w) /\ ~Popped(w)' /\ queued' = queued \ {at[w]} /\ ready' = ready
  BY DEF IInv, Typed, Unmark, Goes, Popped
<1> QED BY <1>1, <1>2 DEF Queue

LEMMA EnqueuePushesQueues ==
    ASSUME IInv, WakeInv, Queue, NEW w \in Workers, EnqueuePushes(w) PROVE Queue'
<1>1. \A v \in Workers : Popped(v)' => Popped(v) /\ at'[v] = at[v]
  BY OnlyPopPops DEF WakeInv, Worker, EnqueuePushes, Pop
<1>2. CASE target[w] \in queued
  <2>1. queued' = queued /\ ready' = ready
    BY <1>2 DEF EnqueuePushes, QueuedBefore
  <2> QED BY <1>1, <2>1, QueueStays
<1>3. CASE target[w] \notin queued
  <2>1. PICK r \in Regions : r = target[w]
    BY DEF IInv, Placed, EnqueuePushes
  <2>2. ready' = Append(ready, r) /\ queued' = queued \cup {r} /\ r \notin queued
    BY <1>3, <2>1 DEF EnqueuePushes, QueuedBefore
  <2>3. /\ Len(ready) \in Nat /\ Len(ready') = Len(ready) + 1 /\ ready'[Len(ready) + 1] = r
        /\ \A i \in 1..Len(ready) : ready'[i] = ready[i]
    BY <2>2 DEF IInv, Typed
  <2> QED BY <1>1, <2>2, <2>3 DEF Queue
<1> QED BY <1>2, <1>3

LEMMA ReconcileQueues == ASSUME IInv, Queue, Reconcile PROVE Queue'
<1> DEFINE new == {r \in Regions : Runnable(r)} \ queued
<1>1. PICK q \in Orders(new) : ready' = ready \o q
  BY DEF Reconcile
<1>2. queued' = queued \cup new /\ pc' = pc /\ \A w \in Workers : pc[w] = "top"
  BY DEF Reconcile, workerVars
<1>3. q \in Seq(Regions)
  BY <1>1, OrdersTyped, new \in SUBSET Regions
<1>4. \A i \in 1..Len(q) : q[i] \in new
  <2>1. q \in [1..Cardinality(new) -> new]
    BY <1>1 DEF Orders
  <2>2. DOMAIN q = 1..Len(q)
    BY <1>3
  <2> QED BY <2>1, <2>2
<1>5. \A i, j \in 1..Len(q) : q[i] = q[j] => i = j
  <2>1. DOMAIN q = 1..Cardinality(new) /\ DOMAIN q = 1..Len(q)
    BY <1>1, <1>3 DEF Orders
  <2>2. \A i, j \in DOMAIN q : q[i] = q[j] => i = j
    BY <1>1, <2>1 DEF Orders
  <2> QED BY <2>1, <2>2
<1> HIDE DEF new
<1>6. /\ Len(ready) \in Nat /\ Len(q) \in Nat /\ Len(ready') = Len(ready) + Len(q)
      /\ \A i \in 1..Len(ready) : ready'[i] = ready[i]
      /\ \A i \in 1..Len(ready') \ 1..Len(ready) : ready'[i] = q[i - Len(ready)]
                                                 /\ i - Len(ready) \in 1..Len(q)
  BY <1>1, <1>3 DEF IInv, Typed
<1>7. \A i \in 1..Len(ready) : ready[i] \in queued /\ ready[i] \notin new
  BY DEF Queue, new
<1>8. \A i, j \in 1..Len(ready') : ready'[i] = ready'[j] => i = j
  <2> SUFFICES ASSUME NEW i \in 1..Len(ready'), NEW j \in 1..Len(ready'), ready'[i] = ready'[j]
               PROVE  i = j
    OBVIOUS
  <2>1. CASE i \in 1..Len(ready) /\ j \in 1..Len(ready)
    BY <1>6, <2>1 DEF Queue
  <2>2. CASE i \in 1..Len(ready) /\ j \notin 1..Len(ready)
    BY <1>4, <1>6, <1>7, <2>2
  <2>3. CASE i \notin 1..Len(ready) /\ j \in 1..Len(ready)
    BY <1>4, <1>6, <1>7, <2>3
  <2>4. CASE i \notin 1..Len(ready) /\ j \notin 1..Len(ready)
    BY <1>5, <1>6, <2>4
  <2> QED BY <2>1, <2>2, <2>3, <2>4
<1>9. \A i \in 1..Len(ready') : ready'[i] \in queued'
  BY <1>2, <1>4, <1>6, <1>7
<1>10. \A w \in Workers : ~Popped(w)'
  BY <1>2 DEF Popped
<1> QED BY <1>8, <1>9, <1>10 DEF Queue

LEMMA RestStays ==
    ASSUME IInv, Rest, Next
    PROVE  Rest'
<1>1. ASSUME NEW w \in Workers, Pop(w) \/ Unmark(w) \/ Activate(w) \/ ServeNothing(w) \/ ServeProved(w)
             \/ MissesCache(w) \/ AcquireParks(w) \/ AcquireOwns(w) \/ AcquireSaturated(w)
             \/ SearchYields(w) \/ SearchDonates(w) \/ Wakes(w) \/ GivesUp(w) \/ ExchangesRerun(w)
             \/ EnqueuesAgain(w) \/ Closes(w) \/ RootFails(w) \/ Frees(w) \/ TakesWoken(w)
             \/ EnqueueDone(w) \/ EnqueueLoads(w) \/ EnqueueRechecks(w)
      PROVE  Rest'
  BY <1>1 DEF Rest, Pop, Unmark, Activate, ServeNothing, ServeProved, MissesCache, AcquireParks,
     AcquireOwns, AcquireSaturated, SearchYields, SearchDonates, Wakes, GivesUp, ExchangesRerun,
     EnqueuesAgain, Closes, RootFails, Frees, TakesWoken, EnqueueDone, EnqueueLoads,
     EnqueueRechecks, flagVars
<1>2. ASSUME NEW w \in Workers, ActivateFails(w) \/ EnqueuePushes(w) \/ EnqueueMarks(w) PROVE Rest'
  BY <1>2 DEF Rest, IInv, Placed, ActivateFails, EnqueuePushes, EnqueueMarks
<1>3. ASSUME NEW w \in Workers, SearchFinishes(w) PROVE Rest'
  <2>1. at[w] \in Regions
    BY <1>3 DEF IInv, Placed, SearchFinishes
  <2>2. proved' \subseteq proved \cup {Key[at[w]]}
    BY <1>3 DEF SearchFinishes, Records
  <2> QED BY <1>3, <2>1, <2>2 DEF Rest, SearchFinishes, Keys, flagVars
<1>4. ASSUME NEW w \in Workers, ChildFails(w) PROVE Rest'
  <2>1. Parent[cursor[w]] \in Regions
    BY <1>4, RegionsAssumption DEF IInv, Placed, ChildFails
  <2>2. proved' \subseteq proved \cup {Key[Parent[cursor[w]]]}
    BY <1>4 DEF ChildFails
  <2> QED BY <1>4, <2>1, <2>2 DEF Rest, ChildFails, Keys, flagVars
<1>5. ASSUME Reconcile PROVE Rest'
  BY <1>5 DEF Rest, Reconcile
<1> QED BY <1>1, <1>2, <1>3, <1>4, <1>5 DEF Next, Worker

\* The table, the flags and the workers' places keep their types, and the ready
\* queue holds a region at most once, under its queued flag, whoever pushes, pops
\* and unmarks it meanwhile (enqueue, pop_ready, parallel_decision_session.cpp).
THEOREM Typing == Spec => []TypeOK
<1>1. Init => Queue /\ Rest
  <2> SUFFICES ASSUME Init PROVE Queue /\ Rest
    OBVIOUS
  <2>1. Len(ready) = 1 /\ ready[1] = Root
    BY DEF Init
  <2> QED BY <2>1, RegionsAssumption DEF Init, Queue, Rest, Popped
<1>2. IInv /\ WakeInv /\ Queue /\ Rest /\ [Next]_vars => (Queue /\ Rest)'
  <2> SUFFICES ASSUME IInv, WakeInv, Queue, Rest, [Next]_vars PROVE (Queue /\ Rest)'
    OBVIOUS
  <2>1. ASSUME NEW w \in Workers, Worker(w) PROVE Queue'
    <3>1. CASE Pop(w) \/ Unmark(w) \/ EnqueuePushes(w)
      BY <3>1, PopQueues, UnmarkQueues, EnqueuePushesQueues
    <3>2. CASE ~(Pop(w) \/ Unmark(w) \/ EnqueuePushes(w))
      <4>1. UNCHANGED <<queued, ready>>
        BY <2>1, <3>2 DEF Worker, Activate, ActivateFails, ServeNothing, ServeProved, MissesCache,
           AcquireParks, AcquireOwns, AcquireSaturated, SearchYields, SearchDonates,
           SearchFinishes, Wakes, GivesUp, ExchangesRerun, EnqueuesAgain, Closes, ChildFails,
           RootFails, Frees, TakesWoken, EnqueueDone, EnqueueLoads, EnqueueMarks,
           EnqueueRechecks, flagVars
      <4> QED BY <2>1, <3>2, <4>1, OnlyPopPops, QueueStays DEF WakeInv
    <3> QED BY <3>1, <3>2
  <2>2. CASE UNCHANGED vars
    BY <2>2 DEF Queue, Rest, Popped, vars, flagVars, workerVars
  <2> QED BY <2>1, <2>2, ReconcileQueues, RestStays DEF Next
<1>3. IInv /\ WakeInv /\ Queue /\ Rest => TypeOK
  <2> SUFFICES ASSUME IInv, WakeInv, Queue, Rest PROVE TypeOK
    OBVIOUS
  <2>1. ToSet(ready) = {ready[i] : i \in 1..Len(ready)} /\ Len(ready) \in Nat
    BY SMTT(30) DEF ToSet, IInv, Typed
  <2>2. ready \in Bijection(1..Len(ready), ToSet(ready))
    BY SMTT(30), <2>1 DEF Queue, Bijection, Injection, Surjection, IsInjective, IInv, Typed
  <2>3. Len(ready) = Cardinality(ToSet(ready))
    <3>1. ExistsBijection(1..Len(ready), ToSet(ready))
      BY <2>2 DEF ExistsBijection
    <3>2. IsFiniteSet(1..Len(ready)) /\ Cardinality(1..Len(ready)) = Len(ready)
      <4>1. PICK n \in Nat : n = Len(ready)
        BY <2>1
      <4>2. /\ IsFiniteSet(1..n)
            /\ Cardinality(1..n) = IF 1 > n THEN 0 ELSE n - 1 + 1
        BY FS_Interval
      <4> QED BY <4>1, <4>2
    <3> QED BY <3>1, <3>2, FS_Bijection
  <2>4. ToSet(ready) \subseteq queued
    BY <2>1 DEF Queue
  <2> QED BY <2>3, <2>4 DEF TypeOK, IInv, Typed, WakeInv, ActiveServed, ServiceStarted, Rest
<1> QED BY <1>1, <1>2, <1>3, Attended, Inductive, PTL DEF Spec
=============================================================================
