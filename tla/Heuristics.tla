----------------------------- MODULE Heuristics ------------------------------
(* Where upper bounds come from: layouts whose cuts are updated incrementally  *)
(* (incremental_layout.cpp) and the constructions and local searches of         *)
(* optimizer_v2.cpp over them. A search that looks at the clock has a number    *)
(* of polls left that still say "go on"; one that draws random numbers is the   *)
(* set of what it may return. Each loop may be stopped on its own. Positions    *)
(* are counted from 1.                                                        *)
EXTENDS Cutwidth

Kinds == {"insertion", "swap", "reversal"}

(* mutate.                                                                    *)
Moved(o, kind, a, b) ==
    LET lo == Min({a, b})
        hi == Max({a, b})
    IN  CASE kind = "swap"      -> [o EXCEPT ![a] = o[b], ![b] = o[a]]
          [] kind = "insertion" -> InsertAt(RemoveAt(o, a), b, o[a])
          [] kind = "reversal"  -> [i \in DOMAIN o |-> IF i \in lo..hi THEN o[lo + hi - i] ELSE o[i]]

Cuts(g, o)  == [i \in DOMAIN o |-> Cut(g, ToSet(SubSeq(o, 1, i)))]
Width(cuts) == Max({0} \cup ToSet(cuts))

Firsts(s, n) == SubSeq(s, 1, Min({n, Len(s)}))

LexLess(s, t) ==
    \/ IsStrictPrefix(s, t)
    \/ \E i \in (DOMAIN s) \cap (DOMAIN t) :
        s[i] < t[i] /\ \A j \in 1..(i - 1) : s[j] = t[j]

Profile(cuts) == SortSeq(cuts, >)
ProfileBetter(candidate, incumbent) == LexLess(Profile(candidate), Profile(incumbent))

(* Only the cuts between the two positions are computed again, each from the   *)
(* one before it.                                                             *)
CutsAfter(g, o, cuts, kind, a, b) ==
    LET c == Moved(o, kind, a, b)
        lo == Min({a, b})
        hi == Max({a, b})
        crossing[i \in (lo - 1)..hi] ==
            IF i < lo THEN (IF lo = 1 THEN 0 ELSE cuts[lo - 1])
            ELSE crossing[i - 1] + Degree(g, c[i])
                    - 2 * Cardinality(g[c[i]] \cap ToSet(SubSeq(c, 1, i - 1)))
    IN  [i \in DOMAIN o |-> IF i \in lo..hi THEN crossing[i] ELSE cuts[i]]

Layout(g, o) == [order |-> o, cuts |-> Cuts(g, o)]

Applied(g, s, kind, a, b) ==
    [order |-> Moved(s.order, kind, a, b), cuts |-> CutsAfter(g, s.order, s.cuts, kind, a, b)]

(* Whether new cuts replace old ones; with the profile as tie-break also those *)
(* of the same width that are high less often.                                *)
Better(new, old, tiebreak) ==
    \/ Width(new) < Width(old)
    \/ Width(new) = Width(old) /\ tiebreak /\ ProfileBetter(new, old)
-----------------------------------------------------------------------------
(* Constructions.                                                             *)

NextCut(g, placed, cut, v) == cut + Degree(g, v) - 2 * Cardinality(g[v] \cap placed)

(* The vertex that opens the least cut next, of equal ones the smallest.       *)
GreedyOrder(g, first) ==
    FoldLeft(LAMBDA s, i :
                LET placed == ToSet(s.order)
                    next(v) == NextCut(g, placed, s.cut, v)
                    v == CHOOSE v \in Vertices(g) \ placed : \A u \in Vertices(g) \ placed :
                            next(v) < next(u) \/ (next(v) = next(u) /\ v <= u)
                IN  [order |-> Append(s.order, v), cut |-> next(v)],
             [order |-> <<first>>, cut |-> Degree(g, first)],
             [i \in 1..(Cardinality(Vertices(g)) - 1) |-> i]).order

(* A construction out of time returns nothing: the loop over first vertices    *)
(* ends there, after the first n of them.                                      *)
Seeds(g, n) == [i \in 1..n |-> GreedyOrder(g, i - 1)]

(* One of the two to five candidates that cut least, larger degrees first.     *)
GraspChoices(g, placed, cut) ==
    LET next(v) == NextCut(g, placed, cut, v)
        ranked == Sorted(Vertices(g) \ placed, LAMBDA u, v :
            \/ next(u) < next(v)
            \/ next(u) = next(v) /\ Degree(g, u) > Degree(g, v)
            \/ next(u) = next(v) /\ Degree(g, u) = Degree(g, v) /\ u < v)
    IN  ToSet(Firsts(ranked, 5))

GraspOrders(g) ==
    FoldLeft(LAMBDA S, i :
                UNION {{[order |-> Append(s.order, v), cut |-> NextCut(g, ToSet(s.order), s.cut, v)] :
                            v \in GraspChoices(g, ToSet(s.order), s.cut)} : s \in S},
             {[order |-> << >>, cut |-> 0]}, [i \in 1..Cardinality(Vertices(g)) |-> i])

(* By the entries of a floating-point eigenvector: any order, and its reverse. *)
FiedlerOrders(g) ==
    IF Cardinality(Vertices(g)) < 2 THEN {Sorted(Vertices(g), <)} ELSE SetToSeqs(Vertices(g))
-----------------------------------------------------------------------------
(* incremental_heuristic.                                                     *)

(* One scan of the adjacent pairs, moving on from whatever it has found.       *)
SwapScan(g, s, tiebreak) ==
    FoldLeft(LAMBDA t, i :
                IF Better(CutsAfter(g, t.order, t.cuts, "swap", i, i + 1), t.cuts, tiebreak)
                THEN Applied(g, t, "swap", i, i + 1) ELSE t,
             s, [i \in 1..(Len(s.order) - 1) |-> i])

RECURSIVE SwapDescent(_, _, _, _)
SwapDescent(g, s, tiebreak, polls) ==
    LET t == SwapScan(g, s, tiebreak)
    IN  IF polls = 0 \/ t = s THEN s ELSE SwapDescent(g, t, tiebreak, polls - 1)

(* Moves that touch a cut of at least width - 1 are tried before all others;   *)
(* the first that helps is made.                                              *)
Pairs(o) == Sorted({p \in (DOMAIN o) \X (DOMAIN o) : p[1] # p[2]}, LexLess)

Touches(s, p) ==
    \E i \in Min({p[1], p[2]})..Max({p[1], p[2]}) : s.cuts[i] + 1 >= Width(s.cuts)

InsertionStep(g, s, tiebreak) ==
    LET helps(p) == Better(CutsAfter(g, s.order, s.cuts, "insertion", p[1], p[2]), s.cuts, tiebreak)
        pairs == SelectSeq(Pairs(s.order), helps)
        inRoi == SelectSeq(pairs, LAMBDA p : Touches(s, p))
        p == IF inRoi # << >> THEN inRoi[1] ELSE pairs[1]
    IN  IF pairs = << >> THEN s ELSE Applied(g, s, "insertion", p[1], p[2])

RECURSIVE InsertionDescent(_, _, _, _)
InsertionDescent(g, s, tiebreak, polls) ==
    LET t == InsertionStep(g, s, tiebreak)
    IN  IF polls = 0 \/ t = s THEN s ELSE InsertionDescent(g, Layout(g, t.order), tiebreak, polls - 1)

BestSeed(g, start, seeds, tiebreak, polls) ==
    FoldLeft(LAMBDA best, o :
                LET s == SwapDescent(g, Layout(g, o), tiebreak, polls)
                IN  IF Better(s.cuts, best.cuts, tiebreak) THEN s ELSE best,
             Layout(g, start), seeds)

IncrementalHeuristic(g, tiebreak, seeds, polls) ==
    LET start == Sorted(Vertices(g), <)
        best == InsertionDescent(g, BestSeed(g, start, Seeds(g, seeds), tiebreak, polls),
                                 tiebreak, polls)
    IN  [width |-> OrderingCutwidth(g, best.order), order |-> best.order]
-----------------------------------------------------------------------------
(* basic_heuristic.                                                           *)

Result(g, o) == [width |-> OrderingCutwidth(g, o), order |-> o]

(* Of equal widths the lexicographically smaller order.                       *)
Preferred(new, old) ==
    new.width < old.width \/ (new.width = old.width /\ LexLess(new.order, old.order))

Kept(best, new) == IF Preferred(new, best) THEN new ELSE best

(* One scan over the first n adjacent pairs.                                   *)
BasicScan(g, r, n) ==
    FoldLeft(LAMBDA t, i :
                LET new == Result(g, Moved(t.order, "swap", i, i + 1))
                IN  IF new.width < t.width THEN new ELSE t,
             r, [i \in 1..Min({n, Len(r.order) - 1}) |-> i])

(* The deadline may end a scan anywhere; what it has found so far is kept.      *)
RECURSIVE BasicDescent(_, _, _, _)
BasicDescent(g, r, polls, looked) ==
    LET t == BasicScan(g, r, Len(r.order))
    IN  IF polls = 0 THEN BasicScan(g, r, looked)
        ELSE IF t = r THEN r
        ELSE BasicDescent(g, t, polls - 1, looked)

(* Every relocation, then every exchange.                                      *)
Neighbours(o) ==
    LET pairs == Pairs(o)
        rising == SelectSeq(pairs, LAMBDA p : p[1] < p[2])
    IN  [i \in DOMAIN pairs |-> Moved(o, "insertion", pairs[i][1], pairs[i][2])]
            \o [i \in DOMAIN rising |-> Moved(o, "swap", rising[i][1], rising[i][2])]

(* The best of them, taken only if it is narrower.                             *)
Relocated(g, best, orders) ==
    LET improved == FoldLeft(LAMBDA r, o : Kept(r, Result(g, o)), best, orders)
    IN  IF improved.width < best.width THEN improved ELSE best

RECURSIVE Relocation(_, _, _, _)
Relocation(g, best, polls, looked) ==
    LET t == Relocated(g, best, Neighbours(best.order))
    IN  IF polls = 0 THEN Relocated(g, best, Firsts(Neighbours(best.order), looked))
        ELSE IF t = best THEN best
        ELSE Relocation(g, t, polls - 1, looked)

BasicHeuristic(g, seeds, polls, looked) ==
    LET multiStart == FoldLeft(LAMBDA best, o : Kept(best, BasicDescent(g, Result(g, o), polls, looked)),
                               Result(g, Sorted(Vertices(g), <)), Seeds(g, seeds))
    IN  Relocation(g, multiStart, polls, looked)

(* Annealing draws two positions, reverses at most seven vertices or exchanges  *)
(* two, and takes worse orders by chance while it is hot.                      *)
Temperature(iteration, iterations) == 4 - (4 * iteration) \div iterations

AnnealMoves(o) ==
    UNION {{Moved(o, "swap", p[1], p[2]),
            Moved(o, "reversal", Min({p[1], p[2]}), Min({Max({p[1], p[2]}), Min({p[1], p[2]}) + 6}))} :
                p \in {p \in (DOMAIN o) \X (DOMAIN o) : p[1] # p[2]}}

AnnealStep(g, s, iteration, iterations) ==
    LET n == Cardinality(Vertices(g))
        accepted(r) == [current |-> r, best |-> Kept(s.best, r)]
        moved == UNION {LET r == Result(g, o)
                        IN  IF r.width <= s.current.width THEN {accepted(r)}
                            ELSE IF r.width - s.current.width <= Temperature(iteration, iterations)
                                 THEN {s, accepted(r)}
                            ELSE {s} : o \in AnnealMoves(s.current.order)}
        restarted(t) == IF (iteration + 1) % (10 * n) = 0 THEN [t EXCEPT !.current = t.best] ELSE t
    IN  {s} \cup {restarted(t) : t \in moved}
-----------------------------------------------------------------------------
(* vns_improve and the portfolio.                                             *)

(* In the order they are considered: an insertion for every pair, an exchange   *)
(* and a short reversal for every ordered one.                                 *)
VnsMoves(o) ==
    FoldLeft(LAMBDA q, p :
                Append(q, <<"insertion", p[1], p[2]>>)
                    \o (IF p[1] < p[2] THEN << <<"swap", p[1], p[2]>> >> ELSE << >>)
                    \o (IF p[1] < p[2] /\ p[2] - p[1] <= 10
                        THEN << <<"reversal", p[1], p[2]>> >> ELSE << >>),
             << >>, Pairs(o))

(* The best of the moves looked at before the deadline.                        *)
VnsPass(g, s, moves) ==
    FoldLeft(LAMBDA best, move :
                LET cuts == CutsAfter(g, s.order, s.cuts, move[1], move[2], move[3])
                IN  IF Better(cuts, best.cuts, TRUE)
                    THEN Applied(g, s, move[1], move[2], move[3]) ELSE best,
             s, moves)

RECURSIVE VnsImprove(_, _, _, _)
VnsImprove(g, s, passes, looked) ==
    LET t == VnsPass(g, s, VnsMoves(s.order))
    IN  IF passes = 0 THEN VnsPass(g, s, Firsts(VnsMoves(s.order), looked))
        ELSE IF t = s THEN s
        ELSE VnsImprove(g, t, passes - 1, looked)

(* heuristic: whatever the seeds were improved to, in any number; the width of  *)
(* what it returns is computed from the order alone.                           *)
Portfolio(g, incumbent, seeds, passes, looked) ==
    LET improved == FoldLeft(LAMBDA best, o :
                        Kept(best, Result(g, VnsImprove(g, Layout(g, o), passes, looked).order)),
                        incumbent, seeds)
    IN  Result(g, improved.order)
=============================================================================
