--------------------------- MODULE OptimizerProofs ---------------------------
(* Proofs about Optimizer, for any widths, any amount of work and any options:  *)
(* the interval encloses the cutwidth however the results of the arms are       *)
(* ordered, and what a session has searched is never lost.                     *)
EXTENDS Optimizer, TLAPS

(* A right interval, and sessions, completed thresholds and a SAT proof that    *)
(* tell the truth. A session that is saved is never decided.                   *)
Right(c) ==
    /\ c \in Intervals
    /\ c.lower <= opt /\ opt <= c.width /\ c.width <= c.upper

Honest(s, t) == s \in Sessions /\ s.status \in {"unresolved", Truth(t)}

HonestSessions(S) ==
    /\ S \in [Thresholds -> {None} \cup Sessions]
    /\ \A t \in Thresholds : S[t] # None => Honest(S[t], t)
Unresolved(R) ==
    /\ R \in [Thresholds -> {None} \cup Sessions]
    /\ \A t \in Thresholds : R[t] # None => R[t].status = "unresolved"
TrueEntries(C) == \A e \in C : e.status = Truth(e.threshold)
TrueJob(j) ==
    /\ j \in {None} \cup [threshold : Thresholds, state : {"running", "unsat", "other"}]
    /\ j # None /\ j.state = "unsat" => j.threshold < opt

(* The interval is open while a threshold of it is served, closed at the end.   *)
Placed(p, c) ==
    /\ p \in Places
    /\ p = "serve" => c.lower < c.upper
    /\ p = "done" => c.lower >= c.upper

IInv ==
    /\ mode \in Modes /\ opt \in RootBound..SeedWidth
    /\ Right(cut) /\ HonestSessions(sess) /\ Unresolved(resumed)
    /\ TrueEntries(completed) /\ TrueJob(job) /\ Placed(pc, cut)

-----------------------------------------------------------------------------
(* The operators.                                                             *)

LEMMA RecordsAreSomething == ASSUME NEW s \in Sessions PROVE s # None
  BY NoneAssumption

(* A bound that holds may be taken whenever it comes.                          *)
LEMMA RaisedRight ==
  ASSUME opt \in Nat, NEW c, Right(c), NEW b \in Int, b <= opt
  PROVE  Right(Raised(c, b)) /\ Raised(c, b).upper = c.upper
  BY DEF Right, Intervals, Raised, Larger

(* A witness of a feasible threshold tightens a right interval.                *)
LEMMA ImprovedRight ==
  ASSUME opt \in Nat, WidthAssumption, NEW c, Right(c), NEW t \in Thresholds, NEW w \in opt..t
  PROVE  Right(Improved(c, t, w))
<1>1. opt <= w /\ w <= t /\ t \in 0..SeedWidth /\ w \in 0..SeedWidth
  BY DEF Thresholds, WidthAssumption
<1>2. CASE t < c.upper
  <2>1. Improved(c, t, w) = [c EXCEPT !.upper = t, !.width = w]
    BY <1>2 DEF Improved
  <2>2. c.lower <= opt /\ c.lower \in Nat
    BY DEF Right, Intervals
  <2> QED BY <1>1, <2>1, <2>2 DEF Right, Intervals
<1>3. CASE ~(t < c.upper)
  BY <1>3 DEF Improved
<1> QED BY <1>2, <1>3

LEMMA DecisionRight ==
  ASSUME opt \in Nat, NEW c, Right(c), NEW t \in Thresholds,
         NEW status \in {"unresolved", Truth(t)}, NEW d \in DecisionResults(c, t, status)
  PROVE  Right(d)
<1>1. CASE status = "unresolved"
  BY <1>1 DEF DecisionResults
<1>2. CASE status = "infeasible"
  <2>1. t + 1 <= opt /\ t \in Nat
    BY <1>2 DEF Truth, Thresholds
  <2>2. d = [c EXCEPT !.lower = t + 1]
    BY <1>2 DEF DecisionResults
  <2> QED BY <2>1, <2>2 DEF Right, Intervals
<1>3. CASE status = "feasible"
  <2>1. PICK w \in opt..t : d = Improved(c, t, w)
    BY <1>3 DEF DecisionResults
  <2> QED BY <2>1, ImprovedRight, WidthAssumption
<1> QED BY <1>1, <1>2, <1>3 DEF Truth

LEMMA IncumbentRight ==
  ASSUME opt \in Nat, NEW c, Right(c), NEW d \in IncumbentResults(c)
  PROVE  Right(d)
<1>1. CASE d = c
  BY <1>1
<1>2. CASE \E w \in opt..(c.upper - 1) : d = Improved(c, w, w)
  <2>1. PICK w \in opt..(c.upper - 1) : d = Improved(c, w, w)
    BY <1>2
  <2>2. w \in Thresholds /\ w \in opt..w
    BY WidthAssumption DEF Right, Intervals, Thresholds
  <2> QED BY <2>1, <2>2, ImprovedRight, WidthAssumption
<1> QED BY <1>1, <1>2 DEF IncumbentResults

(* The results of the secondaries of a window, whichever is taken first.       *)
LEMMA SecondaryRight ==
  ASSUME opt \in Nat, NEW c, Right(c), NEW S, DOMAIN S \subseteq Thresholds,
         \A u \in DOMAIN S : Honest(S[u], u), NEW d \in SecondaryResults(c, S)
  PROVE  Right(d)
<1>1. ASSUME NEW b \in SecondaryLower(c, S) PROVE b \in Nat /\ b <= opt
  <2>1. \A u \in Below(S) : u \in Nat /\ u < opt
    BY DEF Below, Honest, Truth, Thresholds
  <2> QED BY <2>1 DEF SecondaryLower, Right, Intervals
<1>2. \A u \in Reached(S) : u \in Thresholds /\ opt <= u
  BY DEF Reached, Honest, Truth, Thresholds
<1>3. CASE \E b \in SecondaryLower(c, S) :
             d = [lower |-> b, upper |-> c.upper, width |-> c.width]
  BY <1>1, <1>3 DEF Right, Intervals
<1>4. CASE \E u \in Reached(S) : \E b \in SecondaryLower(c, S), w \in opt..u :
             d = [lower |-> b, upper |-> u, width |-> w]
  <2>0. PICK u \in Reached(S) : \E b \in SecondaryLower(c, S), w \in opt..u :
             d = [lower |-> b, upper |-> u, width |-> w]
    BY <1>4
  <2>1. PICK b \in SecondaryLower(c, S), w \in opt..u :
             d = [lower |-> b, upper |-> u, width |-> w]
    BY <2>0
  <2>2. u \in 0..SeedWidth /\ w \in 0..SeedWidth
    BY <1>2, WidthAssumption DEF Thresholds
  <2> QED BY <1>1, <2>1, <2>2 DEF Right, Intervals
<1> QED BY <1>3, <1>4 DEF SecondaryResults
-----------------------------------------------------------------------------
(* The sessions: a service tells the truth and loses no work.                  *)

LEMMA TruthDecides == ASSUME NEW t PROVE Truth(t) \in {"infeasible", "feasible"}
  BY DEF Truth

LEMMA HeldOf ==
  ASSUME HonestSessions(sess), Unresolved(resumed), NEW t \in Thresholds
  PROVE  /\ Held(t) \in 0..Work
         /\ sess[t] # None => sess[t] \in Sessions /\ Held(t) = sess[t].done
         /\ sess[t] = None /\ resumed[t] # None => resumed[t] \in Sessions /\ Held(t) = resumed[t].done
         /\ sess[t] = None /\ resumed[t] = None => Held(t) = 0
  BY WorkAssumption DEF HonestSessions, Unresolved, Held, Sessions

LEMMA ServedHonest ==
  ASSUME NEW t \in Thresholds, NEW s, Honest(s, t), NEW a \in Served(s, t)
  PROVE  Honest(a, t) /\ a.done >= s.done
<1>1. s \in Sessions /\ s.done \in 0..Work
  BY DEF Honest, Sessions
<1>2. CASE a = s
  BY <1>1, <1>2
<1>3. CASE a = [s EXCEPT !.status = Truth(t), !.done = Work]
  <2>1. Truth(t) \in {"unresolved", "infeasible", "feasible"}
    BY TruthDecides
  <2>0. Work \in Nat /\ Work \in 0..Work
    BY WorkAssumption
  <2>2. a \in Sessions /\ a.status = Truth(t) /\ a.done = Work
    <3>1. a = [status |-> Truth(t), done |-> Work, services |-> s.services, pooled |-> s.pooled]
      BY <1>1, <1>3 DEF Sessions
    <3> QED BY <1>1, <2>0, <2>1, <3>1 DEF Sessions
  <2> QED BY <1>1, <2>0, <2>2 DEF Honest
<1>4. CASE s.done + 1 < Work /\ a = [s EXCEPT !.done = @ + 1]
  BY <1>1, <1>4, WorkAssumption DEF Honest, Sessions
<1> QED BY <1>2, <1>3, <1>4 DEF Served

LEMMA CountedHonest ==
  ASSUME NEW t \in Thresholds, NEW b, NEW a, Honest(a, t)
  PROVE  Honest(Counted(b, a), t) /\ Counted(b, a).done = a.done
<1>1. CASE Counted(b, a) = a
  BY <1>1
<1>2. CASE Counted(b, a) = [a EXCEPT !.services = @ + 1]
  BY <1>2 DEF Honest, Sessions
<1> QED BY <1>1, <1>2 DEF Counted

LEMMA CreatedHonest ==
  ASSUME HonestSessions(sess), Unresolved(resumed), NEW t \in Thresholds, NEW b \in Created(t)
  PROVE  Honest(b, t) /\ b.done >= Held(t)
<1> DEFINE new == NewSession(FALSE)
<1>0. Pool \in BOOLEAN
  BY DEF Pool, Dfs
<1>1. \A p \in BOOLEAN : NewSession(p) \in Sessions /\ NewSession(p).done = 0
                          /\ NewSession(p).status = "unresolved"
  BY WorkAssumption DEF NewSession, Sessions
<1>2. CASE b = Opened(t)
  <2>1. CASE sess[t] # None
    BY <1>2, <2>1, HeldOf DEF Opened, HonestSessions, Honest, Sessions
  <2>2. CASE sess[t] = None /\ resumed[t] # None
    <3>1. resumed[t] \in Sessions /\ resumed[t].status = "unresolved" /\ Held(t) = resumed[t].done
      BY <2>2, HeldOf DEF Unresolved
    <3>2. b = [resumed[t] EXCEPT !.pooled = Pool]
      BY <1>2, <2>2 DEF Opened
    <3> QED BY <1>0, <3>1, <3>2 DEF Honest, Sessions
  <2>3. CASE sess[t] = None /\ resumed[t] = None
    <3>1. Held(t) = 0 /\ b = NewSession(Pool)
      BY <1>2, <2>3, HeldOf DEF Opened
    <3> QED BY <1>0, <1>1, <3>1 DEF Honest
  <2> QED BY <2>1, <2>2, <2>3
<1>3. CASE sess[t] = None /\ resumed[t] = None /\ b = [new EXCEPT !.status = Truth(t)]
  <2>1. Held(t) = 0
    BY <1>3, HeldOf
  <2>2. Truth(t) \in {"unresolved", "infeasible", "feasible"}
    BY TruthDecides
  <2>3. new \in Sessions /\ new.done = 0
    BY <1>1
  <2> HIDE DEF new
  <2>4. b \in Sessions /\ b.status = Truth(t) /\ b.done = 0
    BY <1>3, <2>2, <2>3 DEF Sessions
  <2> QED BY <2>1, <2>4 DEF Honest
<1> QED BY <1>2, <1>3 DEF Created

(* S holds secondaries that tell the truth and have lost nothing.              *)
Secondary(S) ==
    /\ DOMAIN S \subseteq {u \in Thresholds : sess[u] # None}
    /\ \A u \in DOMAIN S : Honest(S[u], u) /\ S[u].done >= sess[u].done

LEMMA SecondariesHonest ==
  ASSUME HonestSessions(sess), NEW t, NEW k, NEW Sec \in Secondaries(t, k),
         NEW S \in [Sec -> UNION {Served(sess[u], u) : u \in Sec}],
         \A u \in Sec : S[u] \in Served(sess[u], u)
  PROVE  Secondary(S)
<1>1. Sec \subseteq {u \in Thresholds : sess[u] # None}
  BY DEF Secondaries, Potential, Open
<1>2. DOMAIN S = Sec
  OBVIOUS
<1>3. ASSUME NEW u \in Sec PROVE Honest(S[u], u) /\ S[u].done >= sess[u].done
  <2>1. u \in Thresholds /\ Honest(sess[u], u)
    BY <1>1 DEF HonestSessions
  <2> QED BY <2>1, ServedHonest
<1> QED BY <1>1, <1>2, <1>3 DEF Secondary

LEMMA NoSecondaries == Secondary(<< >>)
  BY DEF Secondary

LEMMA AfterHonest ==
  ASSUME HonestSessions(sess), Unresolved(resumed),
         NEW t \in Thresholds, NEW s, Honest(s, t), s.done >= Held(t), NEW S, Secondary(S),
         NEW d, NEW x, d \in Thresholds => Honest(x, d) /\ x.done >= Held(d)
  PROVE  /\ HonestSessions(SessionsAfter(t, s, S, d, x))
         /\ \A u \in Thresholds :
              IF SessionsAfter(t, s, S, d, x)[u] = None
              THEN sess[u] = None /\ u # t /\ u # d
              ELSE SessionsAfter(t, s, S, d, x)[u].done >= Held(u)
<1> DEFINE A == SessionsAfter(t, s, S, d, x)
<1>1. ASSUME NEW u \in Thresholds
      PROVE  /\ A[u] \in {None} \cup Sessions
             /\ A[u] # None => Honest(A[u], u) /\ A[u].done >= Held(u)
             /\ A[u] = None => sess[u] = None /\ u # t /\ u # d
  <2>1. CASE u = t
    BY <2>1, RecordsAreSomething DEF SessionsAfter, Honest
  <2>2. CASE u # t /\ u \in DOMAIN S
    <3>1. A[u] = S[u] /\ sess[u] # None
      BY <2>2 DEF SessionsAfter, Secondary
    <3> QED BY <2>2, <3>1, HeldOf, RecordsAreSomething DEF Secondary, Honest
  <2>3. CASE u # t /\ u \notin DOMAIN S /\ u = d
    <3>1. A[u] = x
      BY <2>3, NoneAssumption DEF SessionsAfter, Thresholds
    <3> QED BY <2>3, <3>1, RecordsAreSomething DEF Honest
  <2>4. CASE u # t /\ u \notin DOMAIN S /\ u # d
    <3>1. A[u] = sess[u]
      BY <2>4 DEF SessionsAfter
    <3> QED BY <2>4, <3>1, HeldOf DEF HonestSessions, Sessions
  <2> QED BY <2>1, <2>2, <2>3, <2>4
<1>2. A \in [Thresholds -> {None} \cup Sessions]
  BY <1>1 DEF SessionsAfter
<1> QED BY <1>1, <1>2 DEF HonestSessions

(* A fragment of the proof may close a forest; nothing else changes.           *)
LEMMA CheapHonest ==
  ASSUME NEW S, HonestSessions(S), NEW f, NEW Q \in CheapCloses(S, f)
  PROVE  /\ HonestSessions(Q)
         /\ \A u \in Thresholds : IF S[u] = None THEN Q[u] = None
                                  ELSE Q[u] # None /\ Q[u].done = S[u].done
<1>1. CASE Q = S
  BY <1>1
<1>2. CASE /\ f \in Thresholds /\ S[f] # None /\ S[f].status = "unresolved" /\ f < opt
           /\ Q = [S EXCEPT ![f].status = "infeasible"]
  <2>1. ASSUME NEW u \in Thresholds
        PROVE  /\ Q[u] \in {None} \cup Sessions /\ (Q[u] # None => Honest(Q[u], u))
               /\ IF S[u] = None THEN Q[u] = None ELSE Q[u] # None /\ Q[u].done = S[u].done
    <3>1. CASE u # f
      BY <1>2, <3>1 DEF HonestSessions
    <3>2. CASE u = f
      <4>1. S[u] \in Sessions /\ Q[u] = [S[u] EXCEPT !.status = "infeasible"]
        BY <1>2, <3>2 DEF HonestSessions
      <4>2. Q[u] \in Sessions /\ Q[u].done = S[u].done /\ Q[u].status = "infeasible"
        BY <4>1 DEF Sessions
      <4> QED BY <1>2, <3>2, <4>2, RecordsAreSomething DEF Honest, Truth
    <3> QED BY <3>1, <3>2
  <2>2. Q \in [Thresholds -> {None} \cup Sessions]
    BY <1>2, <2>1 DEF HonestSessions
  <2> QED BY <2>1, <2>2 DEF HonestSessions
<1> QED BY <1>1, <1>2 DEF CheapCloses
-----------------------------------------------------------------------------
(* The actions. Kept is what ProgressKept says of one step.                    *)

Kept == \A t \in Open(cut') : Decidedly(t) \/ Held(t)' >= Held(t)

LEMMA Numbers == ASSUME IInv PROVE opt \in Nat /\ RootBound <= opt
  BY WidthAssumption DEF IInv

(* The cutwidth stays as it is: what is right before a step is right after it.  *)
LEMMA Frame ==
  ASSUME IInv, UNCHANGED <<mode, opt>>, Right(cut'), HonestSessions(sess'), Unresolved(resumed'),
         TrueEntries(completed'), TrueJob(job'), Placed(pc', cut')
  PROVE  IInv'
  BY DEF IInv, Right, HonestSessions, Honest, Unresolved, TrueEntries, TrueJob, Placed, Truth

LEMMA NothingServed ==
  ASSUME IInv, UNCHANGED <<sess, resumed>>
  PROVE  HonestSessions(sess') /\ Unresolved(resumed') /\ Kept
<1>1. ASSUME NEW t \in Open(cut') PROVE Held(t)' >= Held(t)
  <2>1. Held(t) \in 0..Work
    BY HeldOf DEF IInv, Open
  <2> QED BY <2>1, WorkAssumption DEF Held
<1> QED BY <1>1 DEF IInv, Kept

(* A refutation that is polled late still holds.                               *)
LEMMA PolledRight == ASSUME IInv PROVE Right(Polled) /\ Polled.upper = cut.upper
<1>1. CASE job # None /\ job.state = "unsat"
  <2>1. job.threshold + 1 \in Int /\ job.threshold + 1 <= opt
    BY <1>1, Numbers DEF IInv, TrueJob, Thresholds
  <2> QED BY <1>1, <2>1, Numbers, RaisedRight DEF IInv, Polled
<1>2. CASE ~(job # None /\ job.state = "unsat")
  BY <1>2 DEF IInv, Polled
<1> QED BY <1>1, <1>2

(* A proof is started at an open threshold only.                               *)
LEMMA JobAfterTrue ==
  ASSUME IInv, NEW c, Right(c), ~Closed(c) PROVE TrueJob(JobAfter(c))
<1>1. CASE Spawns(c)
  <2>1. c.upper - 1 \in Thresholds
    BY Numbers, WidthAssumption DEF Closed, Right, Intervals, Thresholds
  <2> QED BY <1>1, <2>1 DEF JobAfter, TrueJob
<1>2. CASE ~Spawns(c)
  BY <1>2 DEF IInv, JobAfter, TrueJob
<1> QED BY <1>1, <1>2

LEMMA ClosesStep == ASSUME IInv, Closes PROVE IInv' /\ Kept
<1>1. Right(cut') /\ Placed(pc', cut')
  BY PolledRight DEF Closes, Closed, Placed, Places
<1>2. TrueJob(job')
  BY DEF Closes, TrueJob
<1> QED BY <1>1, <1>2, Frame, NothingServed DEF Closes, IInv

LEMMA RunsOutStep == ASSUME IInv, RunsOut PROVE IInv' /\ Kept
<1>1. Right(cut') /\ Placed(pc', cut') /\ TrueJob(job')
  BY PolledRight, JobAfterTrue DEF RunsOut, Enters, Placed, Places
<1> QED BY <1>1, Frame, NothingServed DEF RunsOut, IInv

LEMMA JobEndsStep == ASSUME IInv, JobEnds PROVE IInv' /\ Kept
<1>1. TrueJob(job')
  BY DEF JobEnds, IInv, TrueJob
<1> QED BY <1>1, Frame, NothingServed DEF JobEnds, IInv

(* The sessions outside the interval are dropped, those inside are kept.       *)
LEMMA ContinuesStep == ASSUME IInv, Continues PROVE IInv' /\ Kept
<1>1. Right(cut') /\ TrueJob(job')
  BY PolledRight, JobAfterTrue DEF Continues, Enters
<1>2. Placed(pc', cut')
  BY PolledRight DEF Continues, Enters, Closed, Placed, Places, Right, Intervals
<1>3. CASE Dfs /\ Moved(Polled)
  <2>1. sess' = [t \in Thresholds |-> IF t \in Open(Polled) THEN sess[t] ELSE None]
    BY <1>3 DEF Continues
  <2>2. HonestSessions(sess')
    BY <2>1 DEF HonestSessions, IInv
  <2>3. ASSUME NEW t \in Open(cut') PROVE Held(t)' >= Held(t)
    <3>1. t \in Thresholds /\ sess'[t] = sess[t] /\ resumed' = resumed
      BY <2>1 DEF Continues, Enters, Open
    <3>2. Held(t) \in 0..Work
      BY <3>1, HeldOf DEF IInv
    <3> QED BY <3>1, <3>2, WorkAssumption DEF Held
  <2>4. UNCHANGED <<mode, opt, resumed, completed>>
    BY DEF Continues
  <2> QED BY <1>1, <1>2, <2>2, <2>3, <2>4, Frame DEF IInv, Kept
<1>4. CASE ~(Dfs /\ Moved(Polled))
  <2>1. UNCHANGED <<mode, opt, sess, resumed, completed>>
    BY <1>4 DEF Continues
  <2> QED BY <1>1, <1>2, <2>1, Frame, NothingServed DEF IInv
<1> QED BY <1>3, <1>4

LEMMA ServeDpStep == ASSUME IInv, ServeDp PROVE IInv' /\ Kept
<1>1. Right(cut')
  BY RaisedRight, Numbers DEF ServeDp, IInv
<1>2. Placed(pc', cut')
  BY DEF ServeDp, Placed, Places
<1> QED BY <1>1, <1>2, Frame, NothingServed DEF ServeDp, IInv

LEMMA SdpBoundsHold == ASSUME IInv, NEW b \in SdpBounds PROVE b \in Int /\ b <= opt
  BY Numbers DEF SdpBounds, IInv, Right, Intervals

LEMMA ServeSdpStep == ASSUME IInv, ServeSdp PROVE IInv' /\ Kept
<1>1. Right(cut')
  BY RaisedRight, SdpBoundsHold, Numbers DEF ServeSdp, IInv
<1>2. Placed(pc', cut')
  BY DEF ServeSdp, Placed, Places
<1> QED BY <1>1, <1>2, Frame, NothingServed DEF ServeSdp, IInv

LEMMA ServeCheapStep == ASSUME IInv, ServeCheap PROVE IInv' /\ Kept
<1>1. sess' \in CheapCloses(sess, aux.cheapOf) /\ UNCHANGED <<mode, opt, cut, resumed, completed, job>>
  BY DEF ServeCheap
<1>2. HonestSessions(sess')
  BY <1>1, CheapHonest DEF IInv
<1>3. ASSUME NEW t \in Open(cut') PROVE Held(t)' >= Held(t)
  <2>1. t \in Thresholds
    BY <1>3 DEF Open
  <2>2. Held(t) \in 0..Work
    BY <2>1, HeldOf DEF IInv
  <2>3. IF sess[t] = None THEN sess'[t] = None ELSE sess'[t] # None /\ sess'[t].done = sess[t].done
    BY <1>1, <2>1, CheapHonest DEF IInv
  <2> QED BY <1>1, <2>2, <2>3, WorkAssumption DEF Held
<1>4. Placed(pc', cut')
  BY DEF ServeCheap, Placed, Places
<1> QED BY <1>1, <1>2, <1>3, <1>4, Frame DEF IInv, Kept
LEMMA OneShotsRight ==
  ASSUME IInv, NEW complete, NEW c \in OneShotResults(complete) PROVE Right(c)
<1> DEFINE after == IF complete THEN Raised(cut, opt) ELSE cut
<1>1. Right(after)
  BY RaisedRight, Numbers DEF IInv
<1>2. c = after \/ \E b \in SdpBounds : c = Raised(after, b)
  BY DEF OneShotResults
<1> HIDE DEF after
<1> QED BY <1>1, <1>2, RaisedRight, SdpBoundsHold, Numbers

(* What every service ends with.                                               *)
LEMMA ConcludesRight ==
  ASSUME IInv, NEW t \in Thresholds, NEW s, Honest(s, t), NEW S, Secondary(S),
         NEW d, NEW new, NEW c, Right(c), NEW w, Concludes(t, s, S, d, new, c, w)
  PROVE  /\ Right(cut') /\ Placed(pc', cut') /\ TrueEntries(completed') /\ TrueJob(job')
         /\ Unresolved(resumed') /\ UNCHANGED <<mode, opt>>
         /\ \A u \in Thresholds : u # t /\ u # d => resumed'[u] = resumed[u]
<1>1. Right(cut')
  <2>1. PICK joined \in (IF ConcurrentIncumbent THEN IncumbentResults(c) ELSE {c}) :
          \E decision \in DecisionResults(joined, t, s.status) :
            cut' \in (IF SerialIncumbent(decision) THEN IncumbentResults(decision) ELSE {decision})
    BY DEF Concludes
  <2>2. PICK decision \in DecisionResults(joined, t, s.status) :
            cut' \in (IF SerialIncumbent(decision) THEN IncumbentResults(decision) ELSE {decision})
    BY <2>1
  <2>3. Right(joined)
    BY IncumbentRight, Numbers
  <2>4. Right(decision)
    BY <2>3, DecisionRight, Numbers DEF Honest
  <2> QED BY <2>2, <2>4, IncumbentRight, Numbers
<1>2. TrueEntries(completed')
  <2>1. ASSUME NEW e \in completed' PROVE e.status = Truth(e.threshold)
    <3>1. CASE e \in completed
      BY <3>1 DEF IInv, TrueEntries
    <3>2. CASE e = Entry(t, s) /\ Decided(s)
      BY <3>2 DEF Entry, Decided, Honest
    <3>3. CASE \E u \in DOMAIN S : e = Entry(u, S[u]) /\ Decided(S[u])
      BY <3>3 DEF Entry, Decided, Honest, Secondary
    <3> QED BY <3>1, <3>2, <3>3 DEF Concludes, Completions
  <2> QED BY <2>1 DEF TrueEntries
<1>3. resumed' = [u \in Thresholds |-> IF u = t \/ (d # None /\ u = d) THEN None ELSE resumed[u]]
  BY DEF Concludes
<1>4. Unresolved(resumed')
  BY <1>3 DEF Unresolved, IInv
<1> QED BY <1>1, <1>2, <1>3, <1>4 DEF Concludes, IInv, Placed, Places

(* The threshold served, one let in, and all others: none has lost any work.   *)
LEMMA ServiceStep ==
  ASSUME IInv, NEW t \in Thresholds, NEW s, Honest(s, t), s.done >= Held(t),
         NEW S, Secondary(S), NEW d, NEW new, d \in Thresholds => Honest(new, d) /\ new.done >= Held(d),
         NEW f, sess' \in CheapCloses(SessionsAfter(t, s, S, d, new), f),
         NEW c, Right(c), NEW w, Concludes(t, s, S, d, new, c, w)
  PROVE  IInv' /\ Kept
<1> DEFINE A == SessionsAfter(t, s, S, d, new)
<1>1. /\ HonestSessions(A)
      /\ \A u \in Thresholds : IF A[u] = None THEN sess[u] = None /\ u # t /\ u # d
                               ELSE A[u].done >= Held(u)
  BY AfterHonest DEF IInv
<1>2. HonestSessions(sess')
  BY <1>1, CheapHonest
<1>3. \A u \in Thresholds : IF A[u] = None THEN sess'[u] = None
                            ELSE sess'[u] # None /\ sess'[u].done = A[u].done
  BY <1>1, CheapHonest
<1>4. /\ Right(cut') /\ Placed(pc', cut') /\ TrueEntries(completed') /\ TrueJob(job')
      /\ Unresolved(resumed') /\ UNCHANGED <<mode, opt>>
      /\ \A u \in Thresholds : u # t /\ u # d => resumed'[u] = resumed[u]
  BY ConcludesRight
<1>5. IInv'
  BY <1>2, <1>4, Frame
<1> HIDE DEF A
<1>6. ASSUME NEW u \in Open(cut') PROVE Held(u)' >= Held(u)
  <2>1. u \in Thresholds
    BY <1>6 DEF Open
  <2>2. CASE A[u] # None
    BY <1>1, <1>3, <2>1, <2>2 DEF Held
  <2>3. CASE A[u] = None
    <3>1. sess[u] = None /\ sess'[u] = None /\ resumed'[u] = resumed[u]
      BY <1>1, <1>3, <1>4, <2>1, <2>3
    <3>2. Held(u) \in 0..Work
      BY <2>1, HeldOf DEF IInv
    <3> QED BY <3>1, <3>2, WorkAssumption DEF Held
  <2> QED BY <2>2, <2>3
<1> QED BY <1>5, <1>6 DEF Kept
LEMMA ServiceHonest ==
  ASSUME HonestSessions(sess), Unresolved(resumed), NEW t \in Thresholds,
         NEW before \in Created(t), NEW after \in Served(before, t)
  PROVE  Honest(Counted(before, after), t) /\ Counted(before, after).done >= Held(t)
<1>1. Honest(before, t) /\ before.done >= Held(t)
  BY CreatedHonest
<1>2. Honest(after, t) /\ after.done >= before.done
  BY <1>1, ServedHonest
<1>3. Honest(Counted(before, after), t) /\ Counted(before, after).done = after.done
  BY <1>2, CountedHonest
<1>4. before.done \in Int /\ after.done \in Int /\ Held(t) \in Int
  BY <1>1, <1>2, HeldOf, WorkAssumption DEF Honest, Sessions
<1> QED BY <1>1, <1>2, <1>3, <1>4

LEMMA ServesAloneStep ==
  ASSUME IInv, NEW t \in Thresholds, ServesAlone(t) PROVE IInv' /\ Kept
<1>1. PICK before \in Created(t) : \E after \in Served(before, t) :
        LET s == Counted(before, after)
        IN  /\ sess' = SessionsAfter(t, s, << >>, None, None)
            /\ Concludes(t, s, << >>, None, None, cut, NoOneShots)
  BY DEF ServesAlone
<1>2. PICK after \in Served(before, t) :
        LET s == Counted(before, after)
        IN  /\ sess' = SessionsAfter(t, s, << >>, None, None)
            /\ Concludes(t, s, << >>, None, None, cut, NoOneShots)
  BY <1>1
<1> DEFINE s == Counted(before, after)
<1>3. Honest(s, t) /\ s.done >= Held(t)
  BY ServiceHonest DEF IInv
<1> HIDE DEF s
<1>4. sess' \in CheapCloses(SessionsAfter(t, s, << >>, None, None), None)
  BY <1>2 DEF CheapCloses, s
<1>5. Right(cut) /\ None \notin Thresholds
  BY NoneAssumption DEF IInv, Thresholds
<1>6. Concludes(t, s, << >>, None, None, cut, NoOneShots)
  BY <1>2 DEF s
<1> QED BY <1>3, <1>4, <1>5, <1>6, NoSecondaries, ServiceStep

LEMMA SettlesStep ==
  ASSUME IInv, NEW t \in Thresholds, NEW s, Honest(s, t), s.done >= Held(t), NEW S, Secondary(S),
         NEW d, NEW new, d \in Thresholds => Honest(new, d) /\ new.done >= Held(d),
         NEW claimed, NEW complete, Settles(t, s, S, d, new, claimed, complete)
  PROVE  IInv' /\ Kept
<1> DEFINE w == [dp |-> AdmitsDp, complete |-> complete, sdp |-> AdmitsSdp, cheap |-> AdmitsCheap]
<1>1. PICK oneShots \in OneShotResults(complete) :
        \E c \in SecondaryResults(oneShots, S) : Concludes(t, s, S, d, new, c, w)
  BY DEF Settles
<1>2. PICK c \in SecondaryResults(oneShots, S) : Concludes(t, s, S, d, new, c, w)
  BY <1>1
<1>3. \E f : sess' \in CheapCloses(SessionsAfter(t, s, S, d, new), f)
  <2>1. CASE claimed
    BY <2>1 DEF Settles
  <2>2. CASE ~claimed
    <3>1. sess' \in CheapCloses(SessionsAfter(t, s, S, d, new), None)
      BY <2>2 DEF CheapCloses, Settles
    <3> QED BY <3>1
  <2> QED BY <2>1, <2>2
<1> HIDE DEF w
<1>4. Right(c)
  BY OneShotsRight, SecondaryRight, Numbers DEF Secondary
<1> QED BY <1>2, <1>3, <1>4, ServiceStep

LEMMA ServesWindowStep ==
  ASSUME IInv, NEW t \in Thresholds, ServesWindow(t) PROVE IInv' /\ Kept
<1>0. PICK before \in Created(t),
           claimed \in (IF AdmitsCheap /\ aux.cheapOf # Dropped THEN BOOLEAN ELSE {FALSE}),
           complete \in (IF AdmitsDp THEN BOOLEAN ELSE {FALSE}) :
        \E d \in Demanded(t, before) :
        \E Sec \in Secondaries(t, claimed),
           new \in (IF d = None THEN {None} ELSE Created(d)),
           after \in Served(before, t) :
        \E S \in [Sec -> UNION {Served(sess[u], u) : u \in Sec}] :
            /\ \A u \in Sec : S[u] \in Served(sess[u], u)
            /\ Settles(t, Counted(before, after), S, d, new, claimed, complete)
  BY DEF ServesWindow
<1>1. PICK d \in Demanded(t, before) :
        \E Sec \in Secondaries(t, claimed),
           new \in (IF d = None THEN {None} ELSE Created(d)),
           after \in Served(before, t) :
        \E S \in [Sec -> UNION {Served(sess[u], u) : u \in Sec}] :
            /\ \A u \in Sec : S[u] \in Served(sess[u], u)
            /\ Settles(t, Counted(before, after), S, d, new, claimed, complete)
  BY <1>0
<1>2. PICK Sec \in Secondaries(t, claimed),
           new \in (IF d = None THEN {None} ELSE Created(d)),
           after \in Served(before, t) :
        \E S \in [Sec -> UNION {Served(sess[u], u) : u \in Sec}] :
            /\ \A u \in Sec : S[u] \in Served(sess[u], u)
            /\ Settles(t, Counted(before, after), S, d, new, claimed, complete)
  BY <1>1
<1>3. PICK S \in [Sec -> UNION {Served(sess[u], u) : u \in Sec}] :
            /\ \A u \in Sec : S[u] \in Served(sess[u], u)
            /\ Settles(t, Counted(before, after), S, d, new, claimed, complete)
  BY <1>2
<1>4. Honest(Counted(before, after), t) /\ Counted(before, after).done >= Held(t)
  BY ServiceHonest DEF IInv
<1>5. Secondary(S)
  BY <1>3, SecondariesHonest DEF IInv
<1>6. d \in Thresholds => Honest(new, d) /\ new.done >= Held(d)
  BY CreatedHonest, NoneAssumption DEF IInv, Thresholds
<1> QED BY <1>3, <1>4, <1>5, <1>6, SettlesStep

LEMMA ServesStep == ASSUME IInv, NEW t \in Thresholds, Serves(t) PROVE IInv' /\ Kept
  BY ServesAloneStep, ServesWindowStep DEF Serves

LEMMA RefusesEpochStep == ASSUME IInv, RefusesEpoch PROVE IInv' /\ Kept
<1>1. Placed(pc', cut')
  BY DEF RefusesEpoch, Placed, Places
<1> QED BY <1>1, Frame, NothingServed DEF RefusesEpoch, IInv

(* The controllers without sessions decide an open threshold.                  *)
LEMMA DecidesStep == ASSUME IInv, Decides PROVE IInv' /\ Kept
<1> DEFINE t == StaticThreshold(cut)
<1>1. t \in Thresholds
  <2>1. cut.lower \in Nat /\ cut.upper \in Nat /\ cut.lower < cut.upper /\ cut.upper <= SeedWidth
    BY WidthAssumption DEF Decides, IInv, Right, Intervals, Placed
  <2>2. cut.upper - 1 \in Thresholds /\ Midpoint(cut) \in Thresholds
    BY <2>1, WidthAssumption DEF Midpoint, Thresholds
  <2> QED BY <2>2 DEF StaticThreshold, PortfolioThreshold
<1> HIDE DEF t
<1>2. Right(cut')
  BY <1>1, DecisionRight, TruthDecides, Numbers DEF Decides, IInv, t
<1>3. TrueEntries(completed')
  BY DEF Decides, TrueEntries, IInv
<1>4. Placed(pc', cut')
  BY DEF Decides, Placed, Places
<1> QED BY <1>2, <1>3, <1>4, Frame, NothingServed DEF Decides, IInv

(* What the file holds of an open threshold is what its session has searched.   *)
LEMMA SavesStep == ASSUME IInv, Saves PROVE IInv' /\ Kept
<1>1. /\ resumed' = [t \in Thresholds |-> Saved(t)] /\ sess' = [t \in Thresholds |-> None]
      /\ job' = None /\ pc' = "saved" /\ UNCHANGED <<mode, opt, cut, completed>>
  BY DEF Saves
<1>2. ASSUME NEW t \in Thresholds
      PROVE  /\ Saved(t) \in {None} \cup Sessions
             /\ Saved(t) # None => Saved(t).status = "unresolved"
             /\ t \in Open(cut) /\ ~Decidedly(t) =>
                  IF Saved(t) = None THEN Held(t) = 0 ELSE Saved(t).done = Held(t)
  <2>1. sess[t] # None => sess[t] \in Sessions /\ Held(t) = sess[t].done
    BY HeldOf DEF IInv
  <2>2. sess[t] = None /\ resumed[t] # None =>
          resumed[t] \in Sessions /\ Held(t) = resumed[t].done /\ resumed[t].status = "unresolved"
    BY HeldOf DEF IInv, Unresolved
  <2>3. sess[t] = None /\ resumed[t] = None => Held(t) = 0
    BY HeldOf DEF IInv
  <2>4. CASE t \notin Open(cut) \/ Decidedly(t)
    BY <2>4 DEF Saved, Decidedly
  <2>5. CASE t \in Open(cut) /\ sess[t] # None /\ ~Decidedly(t)
    <3>1. Saved(t) = [sess[t] EXCEPT !.pooled = FALSE] /\ sess[t].status = "unresolved"
      BY <2>5 DEF Saved, Decidedly, Decided
    <3>2. Saved(t) \in Sessions /\ Saved(t).done = sess[t].done /\ Saved(t).status = "unresolved"
      BY <2>1, <2>5, <3>1 DEF Sessions
    <3> QED BY <2>1, <2>5, <3>2, RecordsAreSomething
  <2>6. CASE t \in Open(cut) /\ sess[t] = None /\ resumed[t] # None
    <3>1. Saved(t) = [resumed[t] EXCEPT !.services = 0]
      BY <2>6 DEF Saved
    <3>2. Saved(t) \in Sessions /\ Saved(t).done = resumed[t].done /\ Saved(t).status = "unresolved"
      BY <2>2, <2>6, <3>1 DEF Sessions
    <3> QED BY <2>2, <2>6, <3>2, RecordsAreSomething
  <2>7. CASE t \in Open(cut) /\ sess[t] = None /\ resumed[t] = None
    BY <2>3, <2>7 DEF Saved
  <2> QED BY <2>4, <2>5, <2>6, <2>7
<1>3. Unresolved(resumed') /\ HonestSessions(sess')
  BY <1>1, <1>2 DEF Unresolved, HonestSessions
<1>4. ASSUME NEW t \in Open(cut') PROVE Decidedly(t) \/ Held(t)' >= Held(t)
  <2>1. t \in Thresholds /\ t \in Open(cut)
    BY <1>1, <1>4 DEF Open
  <2>2. Held(t) \in 0..Work /\ sess'[t] = None /\ resumed'[t] = Saved(t)
    BY <1>1, <2>1, HeldOf DEF IInv
  <2> QED BY <1>2, <2>1, <2>2, WorkAssumption DEF Held
<1>5. Placed(pc', cut') /\ TrueJob(job')
  BY <1>1 DEF Placed, Places, TrueJob
<1> QED BY <1>1, <1>3, <1>4, <1>5, Frame DEF IInv, Kept

LEMMA RefusesCheckpointStep == ASSUME IInv, RefusesCheckpoint PROVE IInv' /\ Kept
<1>1. Placed(pc', cut')
  BY DEF RefusesCheckpoint, Placed, Places
<1> QED BY <1>1, Frame, NothingServed DEF RefusesCheckpoint, IInv

LEMMA StopsStep == ASSUME IInv, Stops PROVE IInv' /\ Kept
<1>1. Placed(pc', cut')
  BY DEF Stops, Placed, Places
<1> QED BY <1>1, Frame, NothingServed DEF Stops, IInv

LEMMA ResumesStep == ASSUME IInv, Resumes PROVE IInv' /\ Kept
<1>1. SeedLower \in Int /\ SeedLower <= opt
  BY WidthAssumption, Numbers DEF SeedLower
<1>2. Right(cut')
  BY <1>1, RaisedRight, Numbers DEF Resumes, IInv
<1>3. Placed(pc', cut')
  BY DEF Resumes, Placed, Places
<1> QED BY <1>2, <1>3, Frame, NothingServed DEF Resumes, IInv

-----------------------------------------------------------------------------
LEMMA Initially == Init => IInv
<1> SUFFICES ASSUME Init PROVE IInv
  OBVIOUS
<1>1. opt \in RootBound..SeedWidth /\ mode \in Modes /\ pc = "head"
  BY DEF Init
<1>2. PICK b \in SeedLower..SeedWidth :
        /\ b = SeedLower \/ (mode.controller = "static" /\ "sdp" \in mode.arms /\ b <= opt)
        /\ cut = [lower |-> b, upper |-> SeedWidth, width |-> SeedWidth]
  BY DEF Init
<1>3. SeedLower \in Nat /\ SeedLower <= RootBound
  BY WidthAssumption DEF SeedLower
<1>4. Right(cut)
  BY <1>1, <1>2, <1>3, WidthAssumption DEF Right, Intervals
<1>5. HonestSessions(sess) /\ Unresolved(resumed) /\ TrueEntries(completed) /\ TrueJob(job)
  BY DEF Init, HonestSessions, Unresolved, TrueEntries, TrueJob
<1> QED BY <1>1, <1>4, <1>5 DEF IInv, Placed, Places

LEMMA Step == ASSUME IInv, Next PROVE IInv' /\ Kept
<1>1. CASE \E t \in Thresholds : Serves(t)
  BY <1>1, ServesStep
<1>2. CASE Closes \/ RunsOut \/ Continues \/ JobEnds
  BY <1>2, ClosesStep, RunsOutStep, ContinuesStep, JobEndsStep
<1>3. CASE ServeDp \/ ServeSdp \/ ServeCheap
  BY <1>3, ServeDpStep, ServeSdpStep, ServeCheapStep
<1>4. CASE RefusesEpoch \/ Decides \/ Stops
  BY <1>4, RefusesEpochStep, DecidesStep, StopsStep
<1>5. CASE Saves \/ RefusesCheckpoint \/ Resumes
  BY <1>5, SavesStep, RefusesCheckpointStep, ResumesStep
<1> QED BY <1>1, <1>2, <1>3, <1>4, <1>5 DEF Next, Controller

(* The inductive invariant: a right interval, honest sessions and completed     *)
(* thresholds, a SAT proof that refutes only what is below the cutwidth.        *)
THEOREM Invariance == Spec => []IInv
<1>1. Init => IInv
  BY Initially
<1>2. IInv /\ [Next]_vars => IInv'
  <2>1. ASSUME IInv, UNCHANGED vars PROVE IInv'
    BY <2>1 DEF vars, IInv, Right, HonestSessions, Honest, Unresolved, TrueEntries, TrueJob,
       Placed, Truth
  <2> QED BY <2>1, Step
<1> QED BY <1>1, <1>2, PTL DEF Spec

(* The types: no threshold outside the seed's interval, no session beyond its   *)
(* work.                                                                       *)
THEOREM TypeCorrect == Spec => []TypeOK
<1>1. IInv => TypeOK
  BY DEF IInv, TypeOK, Right, HonestSessions, Unresolved, TrueJob, Placed
<1> QED BY <1>1, Invariance, PTL

(* The interval encloses the cutwidth whatever the arms find and in whatever    *)
(* order it is taken, and a run that closes it returns the cutwidth.            *)
THEOREM Soundness == Spec => []IntervalSound
<1>1. IInv => IntervalSound
  <2> SUFFICES ASSUME IInv PROVE IntervalSound
    OBVIOUS
  <2>1. cut.lower <= opt /\ opt <= cut.width /\ cut.width <= cut.upper
    BY DEF IInv, Right
  <2>2. \A t \in Thresholds :
          /\ sess[t] # None => sess[t].status \in {"unresolved", Truth(t)}
          /\ resumed[t] # None => resumed[t].status = "unresolved"
    BY DEF IInv, HonestSessions, Honest, Unresolved
  <2>3. \A e \in completed : e.status = Truth(e.threshold)
    BY DEF IInv, TrueEntries
  <2>4. pc = "done" => cut.lower = opt /\ cut.upper = opt /\ cut.width = opt
    BY <2>1, Numbers, WidthAssumption DEF IInv, Placed, Right, Intervals
  <2> QED BY <2>1, <2>2, <2>3, <2>4 DEF IntervalSound
<1> QED BY <1>1, Invariance, PTL

(* What has been searched of an open threshold is never searched anew, across   *)
(* switches of thresholds, checkpoints and resumes.                             *)
THEOREM NothingLost == Spec => ProgressKept
<1>1. IInv /\ [Next]_vars => [Kept]_vars
  BY Step
<1>2. [Kept]_vars => [\A t \in Open(cut') : Decidedly(t) \/ Held(t)' >= Held(t)]_vars
  BY DEF Kept
<1> QED BY <1>1, <1>2, Invariance, PTL DEF Spec, ProgressKept
=============================================================================
