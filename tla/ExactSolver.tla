----------------------------- MODULE ExactSolver -----------------------------
(* The first solver of the repository (solver.cpp): a branch and bound over      *)
(* prefixes with a table of the least width a prefix was reached with, for       *)
(* graphs of at most 64 vertices; and the two oracles of oracle.cpp. polls is    *)
(* the number of looks at the clock that still say "go on".                    *)
EXTENDS Cutwidth

H == INSTANCE Heuristics

BruteForce(g) == Min({OrderingCutwidth(g, o) : o \in SetToSeqs(Vertices(g))})

ToPrefix(g, P, v)    == Cardinality(g[v] \cap P)
ToRemaining(g, P, v) == Cardinality(g[v] \ (P \cup {v}))
NextCut(g, P, cut, v) == cut + ToRemaining(g, P, v) - ToPrefix(g, P, v)

(* Of vertices that cut as little, the one with fewer neighbours to come.      *)
GreedyOrder(g, first) ==
    FoldLeft(LAMBDA s, i :
                LET P == ToSet(s.order)
                    rank(v) == <<NextCut(g, P, s.cut, v), ToRemaining(g, P, v), v>>
                    v == CHOOSE v \in Vertices(g) \ P : \A u \in Vertices(g) \ (P \cup {v}) :
                            H!LexLess(rank(v), rank(u))
                IN  [order |-> Append(s.order, v), cut |-> NextCut(g, P, s.cut, v)],
             [order |-> <<first>>, cut |-> Degree(g, first)],
             [i \in 1..(Cardinality(Vertices(g)) - 1) |-> i]).order

(* A start that the deadline interrupts is dropped, and the search with it.     *)
InitialIncumbent(g, starts) ==
    FoldLeft(LAMBDA best, first :
                H!Kept(best, H!BasicDescent(g, H!Result(g, GreedyOrder(g, first)), 99, 0)),
             H!Result(g, Sorted(Vertices(g), <)), H!Firsts(Sorted(Vertices(g), <), starts))

InducedDegreeBound(g, R) == (Max({0} \cup {Cardinality(g[v] \cap R) : v \in R}) + 1) \div 2

NewSearch(g, options, starts, polls) ==
    LET best == InitialIncumbent(g, starts)
    IN  [width |-> best.width, order |-> best.order, table |-> << >>, polls |-> polls,
         timedOut |-> starts < Cardinality(Vertices(g)), options |-> options]

Dominated(s, P, seen) == P \in DOMAIN s.table /\ s.table[P] <= seen

(* A known prefix is lowered; a new one goes in while there is room.           *)
Entered(s, P, seen) ==
    IF ~s.options.table THEN s
    ELSE IF P \in DOMAIN s.table THEN [s EXCEPT !.table[P] = seen]
    ELSE IF s.options.limit = 0 \/ Cardinality(DOMAIN s.table) < s.options.limit
         THEN [s EXCEPT !.table = (P :> seen) @@ @]
    ELSE s

(* Narrowest first.                                                           *)
Candidates(g, P, cut, seen) ==
    LET next(v) == NextCut(g, P, cut, v)
    IN  Sorted(Vertices(g) \ P, LAMBDA u, v :
            H!LexLess(<<Max({seen, next(u)}), next(u), u>>, <<Max({seen, next(v)}), next(v), v>>))

RECURSIVE Dfs(_, _, _, _, _)
Dfs(g, s, path, cut, seen) ==
    LET P == ToSet(path)
        R == Vertices(g) \ P
        descend(t, v) ==
            LET next == NextCut(g, P, cut, v)
                maximum == Max({seen, next})
            IN  IF t.timedOut \/ maximum >= t.width THEN t
                ELSE Dfs(g, t, Append(path, v), next, maximum)
    IN  IF s.timedOut THEN s
        ELSE IF s.polls = 0 THEN [s EXCEPT !.timedOut = TRUE]
        ELSE LET looked == [s EXCEPT !.polls = @ - 1]
             IN  IF Max({seen, InducedDegreeBound(g, R)}) >= s.width THEN looked
                 ELSE IF R = {} THEN [looked EXCEPT !.width = seen, !.order = path]
                 ELSE IF s.options.table /\ Dominated(s, P, seen) THEN looked
                 ELSE FoldLeft(descend, Entered(looked, P, seen), Candidates(g, P, cut, seen))

Solve(g, options, starts, polls) ==
    LET s == Dfs(g, NewSearch(g, options, starts, polls), << >>, 0, 0)
    IN  [optimal |-> ~s.timedOut, upper |-> s.width, order |-> s.order,
         lower |-> IF s.timedOut THEN InducedDegreeBound(g, Vertices(g)) ELSE s.width]
=============================================================================
