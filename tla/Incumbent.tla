------------------------------ MODULE Incumbent ------------------------------
(* PersistentIncumbentSession (incumbent_session.cpp): the upper-bound search   *)
(* that goes on between the services of the optimizer. A large part of the      *)
(* current order is destroyed and its vertices are put back one by one, each at *)
(* its best place. A step is one place tried, so a snapshot may be taken in the *)
(* middle of a repair. What the generator draws is any choice.                  *)
EXTENDS Cutwidth

H == INSTANCE Heuristics

Nothing == << >>

CutProfile(g, o) == H!Profile(H!Cuts(g, o))

NewSession(g, o) ==
    [current |-> o, best |-> o, width |-> OrderingCutwidth(g, o),
     bestWidth |-> OrderingCutwidth(g, o), cursor |-> 0, scale |-> 1, repair |-> Nothing]

(* Around the widest cuts, a run of neighbours, the largest degree and cut, or  *)
(* anywhere: the positions that may be destroyed.                              *)
DestroyPositions(g, s) ==
    LET n == Len(s.current)
        count == Min({s.scale, n})
        cuts == H!Cuts(g, s.current)
        top(score) == {ToSet(SubSeq(Sorted(1..n, LAMBDA i, j :
                            score[i] > score[j] \/ (score[i] = score[j] /\ i < j)), 1, count))}
    IN  IF n = 0 THEN {{}} ELSE
        CASE s.cursor = 0 -> top(cuts)
          [] s.cursor = 1 -> {{((first + i) % n) + 1 : i \in 0..(count - 1)} : first \in 0..(n - 1)}
          [] s.cursor = 2 -> top([i \in 1..n |-> cuts[i] + Degree(g, s.current[i])])
          [] OTHER -> kSubset(count, 1..n)

(* The next vertex of a repair; no place has been tried yet.                   *)
Trying(kept, pending) ==
    [kept |-> kept, vertex |-> pending[1], pending |-> Tail(pending), next |-> 0,
     best |-> << >>, bestProfile |-> << >>]

Advanced(s) ==
    LET cursor == (s.cursor + 1) % 4
    IN  [s EXCEPT !.cursor = cursor,
                  !.scale = IF cursor # 0 THEN @
                            ELSE IF @ >= Len(s.current) THEN 1
                            ELSE Min({Len(s.current), 2 * @})]

(* finish_repaired_candidate.                                                 *)
Finished(g, s, o) ==
    LET width == OrderingCutwidth(g, o)
        accepted == width < s.width \/ (width = s.width /\
                        H!LexLess(CutProfile(g, o), CutProfile(g, s.current)))
        moved == IF accepted THEN [s EXCEPT !.current = o, !.width = width] ELSE s
    IN  Advanced(IF width < s.bestWidth
                 THEN [moved EXCEPT !.best = o, !.bestWidth = width, !.repair = Nothing]
                 ELSE [moved EXCEPT !.repair = Nothing])

BeginRepair(g, s) ==
    {LET at(S) == [k \in 1..Cardinality(S) |-> s.current[Sorted(S, <)[k]]]
         kept == at((DOMAIN s.current) \ positions)
     IN  IF positions = {} THEN Finished(g, s, kept)
         ELSE [s EXCEPT !.repair = Trying(kept, at(positions))] :
        positions \in DestroyPositions(g, s)}

(* One place tried: the vertex at it, those still outside behind.              *)
Tried(g, r) ==
    LET trial == InsertAt(r.kept, r.next + 1, r.vertex) \o r.pending
        profile == CutProfile(g, trial)
        better == r.best = << >> \/ OrderingCutwidth(g, trial) < OrderingCutwidth(g, r.best)
                    \/ /\ OrderingCutwidth(g, trial) = OrderingCutwidth(g, r.best)
                       /\ H!LexLess(profile, r.bestProfile)
    IN  [r EXCEPT !.next = @ + 1, !.best = IF better THEN trial ELSE @,
                  !.bestProfile = IF better THEN profile ELSE @]

Repaired(g, s) ==
    LET r == Tried(g, s.repair)
        placed == SubSeq(r.best, 1, Len(r.best) - Len(r.pending))
    IN  IF r.next <= Len(r.kept) THEN [s EXCEPT !.repair = r]
        ELSE IF r.pending # << >> THEN [s EXCEPT !.repair = Trying(placed, r.pending)]
        ELSE Finished(g, s, placed)

(* repair_step: the repair is begun and its first place tried at one go.       *)
RepairStep(g, s) ==
    {IF t.repair = Nothing THEN t ELSE Repaired(g, t) :
        t \in IF s.repair = Nothing THEN BeginRepair(g, s) ELSE {s}}

(* service: at most so many places are tried before the deadline.              *)
Service(g, s, work) ==
    LET after[n \in 0..work] == IF n = 0 THEN {s} ELSE UNION {RepairStep(g, t) : t \in after[n - 1]}
    IN  UNION {{[session |-> t, improved |-> t.bestWidth < s.bestWidth, width |-> t.bestWidth,
                 order |-> t.best] : t \in after[n]} : n \in 0..work}

(* What the restoring constructor asks of a snapshot.                          *)
ValidSnapshot(g, s) ==
    LET r == s.repair
    IN  /\ ValidOrdering(g, s.current) /\ ValidOrdering(g, s.best)
        /\ s.width = OrderingCutwidth(g, s.current) /\ s.bestWidth = OrderingCutwidth(g, s.best)
        /\ s.bestWidth <= s.width
        /\ s.cursor \in 0..3 /\ s.scale > 0
        /\ s.current # << >> => s.scale <= Len(s.current)
        /\ r # Nothing =>
            /\ ValidOrdering(g, Append(r.kept, r.vertex) \o r.pending)
            /\ r.next <= Len(r.kept)
            /\ \/ r.next = 0 /\ r.best = << >> /\ r.bestProfile = << >>
               \/ ValidOrdering(g, r.best) /\ r.bestProfile = CutProfile(g, r.best)
=============================================================================
