----------------------------- MODULE SearchNode -----------------------------
(* One node of the depth-first search: the state that apply and undo keep up  *)
(* to date, the children of a node, and the rules that prune it               *)
(* (decision_session.cpp, local_continuation_bound.hpp, residual_dp.cpp).     *)
(* A node is a record with the path of placed vertices, before (their         *)
(* neighbours placed earlier), the residual degrees with their histogram and   *)
(* maximum, and the change of the cut each unplaced vertex would make          *)
(* (DeltaBucketCandidateIndex, DeltaHistogram).                                *)
EXTENDS PartialBounds

Placed(q) == ToSet(q.path)

(* Neighbours of v in path before v itself, all of them while v is unplaced.  *)
BeforeOf(g, path) ==
    [v \in Vertices(g) |->
        Cardinality({i \in DOMAIN path : path[i] \in g[v] /\ \A j \in 1..i : path[j] # v})]

Delta(g, before, v) == Degree(g, v) - 2 * before[v]

Histogram(g, P) ==
    [d \in 0..Cardinality(Vertices(g)) |->
        Cardinality({v \in Vertices(g) \ P : ResidualDegree(g, P, v) = d})]

(* The constructor, load_pending and the restoring constructor build the state *)
(* from a path alone; tracked is residual_state_enabled.                      *)
NodeAt(g, path, tracked) ==
    LET P == ToSet(path)
    IN  [path |-> path, tracked |-> tracked, before |-> BeforeOf(g, path),
         degree |-> [v \in Vertices(g) |->
                        IF v \in P \/ ~tracked THEN 0 ELSE ResidualDegree(g, P, v)],
         bins |-> IF tracked THEN Histogram(g, P) ELSE [d \in 0..Cardinality(Vertices(g)) |-> 0],
         top |-> IF tracked THEN MaximumDegree(g, P) ELSE 0,
         deltas |-> [v \in Vertices(g) \ P |-> Delta(g, BeforeOf(g, path), v)]]

RemoveBin(q, d) ==
    LET bins == [q.bins EXCEPT ![d] = @ - 1]
    IN  [q EXCEPT !.bins = bins, !.top = Max({0} \cup {e \in 1..@ : bins[e] > 0})]

AddBin(q, d) == [q EXCEPT !.bins[d] = @ + 1, !.top = Max({@, d})]

Rebinned(q, u, by) ==
    [AddBin(RemoveBin(q, q.degree[u]), q.degree[u] + by) EXCEPT !.degree[u] = @ + by]

Apply(g, q, v) ==
    LET others == g[v] \ (Placed(q) \cup {v})
        lowered == IF ~q.tracked THEN q
                   ELSE FoldSet(LAMBDA u, s : Rebinned(s, u, -1), RemoveBin(q, q.degree[v]), others)
    IN  [lowered EXCEPT
            !.path = Append(@, v),
            !.before = [u \in DOMAIN @ |-> IF u \in others THEN @[u] + 1 ELSE @[u]],
            !.deltas = [u \in DOMAIN @ \ {v} |-> IF u \in others THEN @[u] - 2 ELSE @[u]]]

(* Mutant: the neighbours keep the changes they had below v.                  *)
UndoKeepsDeltas(g, q, v) ==
    LET others == g[v] \ Placed(q)
        before == [u \in DOMAIN q.before |-> IF u \in others THEN q.before[u] - 1 ELSE q.before[u]]
        raised == IF ~q.tracked THEN q
                  ELSE LET s == FoldSet(LAMBDA u, t : Rebinned(t, u, 1), q, others)
                       IN  AddBin(s, s.degree[v])
    IN  [raised EXCEPT
            !.path = Front(@), !.before = before,
            !.deltas = [u \in DOMAIN @ \cup {v} |-> IF u = v THEN Delta(g, before, u) ELSE @[u]]]
Undo(g, q, v) ==
    LET others == g[v] \ Placed(q)
        before == [u \in DOMAIN q.before |-> IF u \in others THEN q.before[u] - 1 ELSE q.before[u]]
        raised == IF ~q.tracked THEN q
                  ELSE LET s == FoldSet(LAMBDA u, t : Rebinned(t, u, 1), q, others)
                       IN  AddBin(s, s.degree[v])
    IN  [raised EXCEPT
            !.path = Front(@),
            !.before = before,
            !.deltas = [u \in DOMAIN @ \cup {v} |->
                           IF u = v \/ u \in others THEN Delta(g, before, u) ELSE @[u]]]

(* What the incremental state must be on a path, whichever way it was reached.*)
ExactState(g, q) ==
    LET fresh == NodeAt(g, q.path, q.tracked)
    IN  /\ q.before = fresh.before /\ q.deltas = fresh.deltas
        /\ q.bins = fresh.bins /\ q.top = fresh.top
        /\ q.tracked => \A v \in Vertices(g) \ Placed(q) : q.degree[v] = fresh.degree[v]

(* The restoring constructor leaves no residual degree to the vertices that    *)
(* are placed, and undo brings them back with none: the histogram still counts  *)
(* the degrees, and no degree is larger than it is.                            *)
ResumedState(g, q) ==
    LET fresh == NodeAt(g, q.path, q.tracked)
        free == Vertices(g) \ Placed(q)
    IN  /\ q.before = fresh.before /\ q.deltas = fresh.deltas
        /\ q.tracked =>
            /\ \A v \in free : q.degree[v] <= fresh.degree[v]
            /\ q.top = Max({0} \cup {q.degree[v] : v \in free})
            /\ \A d \in DOMAIN q.bins : q.bins[d] = Cardinality({v \in free : q.degree[v] = d})

(* apply lowers the degree of a neighbour that has none: logic_error.          *)
Overflows(g, q, v) == q.tracked /\ \E u \in g[v] \ (Placed(q) \cup {v}) : q.degree[u] = 0

TwinBlocked(twins, P, v) == ~(twins[v] \subseteq P)

ScanCandidates(g, q, twins, k, cut) ==
    {[vertex |-> v, cut |-> cut + Delta(g, q.before, v)] :
        v \in {u \in Vertices(g) \ Placed(q) :
                  ~TwinBlocked(twins, Placed(q), u) /\ cut + Delta(g, q.before, u) <= k}}

IndexCandidates(q, twins, k, cut) ==
    {[vertex |-> v, cut |-> cut + q.deltas[v]] :
        v \in {u \in DOMAIN q.deltas : ~TwinBlocked(twins, Placed(q), u) /\ q.deltas[u] <= k - cut}}

(* The children of a node that keep within the threshold, the most constrained *)
(* first when failFirst.                                                      *)
Candidates(g, q, twins, k, cut, useIndex, failFirst) ==
    Sorted(IF useIndex THEN IndexCandidates(q, twins, k, cut)
                 ELSE ScanCandidates(g, q, twins, k, cut),
        LAMBDA a, b : IF a.cut # b.cut THEN (a.cut > b.cut) = failFirst ELSE a.vertex < b.vertex)

(* Depth-two lookahead: something can follow placed.                          *)
LegalSecond(g, q, twins, k, placed, cut) ==
    \E v \in Vertices(g) \ (Placed(q) \cup {placed}) :
        /\ ~TwinBlocked(twins, Placed(q) \cup {placed}, v)
        /\ cut + Delta(g, q.before, v) - (IF v \in g[placed] THEN 2 ELSE 0) <= k

BestNextExceeds(q, k, cut) ==
    DOMAIN q.deltas # {} /\ cut + Min(Range(q.deltas)) > k

(* LocalContinuationProbe: sets of up to depth more vertices, each placed      *)
(* within the threshold. A probe that ends at its state limit says nothing.   *)
ContinuationExists(g, q, twins, k, depth) ==
    LET P == Placed(q)
        steps == Min({depth, Cardinality(Vertices(g) \ P)})
        next(O) == {v \in Vertices(g) \ (P \cup O) :
                       /\ ~TwinBlocked(twins, P \cup O, v)
                       /\ Cut(g, P \cup O \cup {v}) <= k}
        overlay[i \in 0..steps] ==
            IF i = 0 THEN {{}} ELSE UNION {{O \cup {v} : v \in next(O)} : O \in overlay[i - 1]}
    IN  overlay[steps] # {}

(* The residual DP over the subsets of the unplaced vertices, and the order it *)
(* traces back, the smallest vertex first.                                    *)
ResidualTable(g, P) ==
    LET table[S \in SUBSET (Vertices(g) \ P)] ==
            IF S = {} THEN Cut(g, P)
            ELSE Min({Max({table[S \ {v}], Cut(g, P \cup S)}) : v \in S})
    IN  table

ReconstructWitness(g, P) ==
    LET table == ResidualTable(g, P)
        last(S) == Min({v \in S : Max({table[S \ {v}], Cut(g, P \cup S)}) = table[S]})
        order[S \in SUBSET (Vertices(g) \ P)] ==
            IF S = {} THEN << >> ELSE Append(order[S \ {last(S)}], last(S))
    IN  order[Vertices(g) \ P]

ResidualStates(g, P) == 2 ^ Cardinality(Vertices(g) \ P)
=============================================================================
