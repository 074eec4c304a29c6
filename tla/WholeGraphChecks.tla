-------------------------- MODULE WholeGraphChecks --------------------------
(* Answers about whole graphs: components and twins (Decomposition), whatever   *)
(* is found out about the parts, and the branch and bound of solver.cpp         *)
(* (ExactSolver), on all graphs of four vertices.                              *)
EXTENDS Cutwidth

D == INSTANCE Decomposition
X == INSTANCE ExactSolver

FourGraphs == {SimpleGraph(4, E) : E \in SUBSET {<<a, b>> \in (0..3) \X (0..3) : a < b}}
Exact(g)   == SubsetDp(g)[Vertices(g)]

(* The two oracles agree.                                                     *)
ASSUME OraclesAgree == \A g \in FourGraphs : X!BruteForce(g) = Exact(g)

(* Components partition the vertices, no edge leaves one, and the widest of     *)
(* them is as wide as the graph. No vertex has twins of both kinds, so that the *)
(* order of the classes, by their first vertices, is defined.                  *)
ASSUME ComponentsExact ==
    \A g \in FourGraphs :
        LET parts == D!ConnectedComponents(g)
            sets == D!ComponentSets(g)
        IN  /\ UNION ToSet(sets) = Vertices(g)
            /\ \A i, j \in DOMAIN sets : i # j => sets[i] \cap sets[j] = {}
            /\ \A i \in DOMAIN sets : Cut(g, sets[i]) = 0
            /\ Exact(g) = Max({Exact(parts[i].graph) : i \in DOMAIN parts})
            /\ \A S, T \in D!FalseClasses(g) \cup D!TrueClasses(g) : S # T => S \cap T = {}
            /\ \A S \in ToSet(D!TwinClasses(g)) : \A a, b \in S :
                a # b => EqualOpen(g, a, b) \/ EqualClosed(g, a, b)

Two == SimpleGraph(4, {<<0, 2>>, <<1, 3>>})
Lopsided == SimpleGraph(4, {<<0, 1>>, <<1, 3>>, <<0, 3>>})

Answers(c, k) ==
    {[status |-> "timed_out", order |-> << >>]}
        \cup (IF Exact(c) > k THEN {[status |-> "infeasible", order |-> << >>]}
              ELSE {[status |-> "feasible", order |-> o] :
                        o \in {o \in SetToSeqs(Vertices(c)) : OrderingCutwidth(c, o) <= k}})

(* Whatever the searches of the components may answer: the graph is feasible    *)
(* only with an order that shows it, infeasible only if it is.                 *)
ASSUME DecisionsSound ==
    \A g \in {Two, Lopsided}, k \in 0..2 :
        LET parts == D!ConnectedComponents(g)
        IN  \A a \in Answers(parts[1].graph, k), b \in Answers(parts[2].graph, k) :
                LET r == D!DecideParts(parts, <<a, b>>)
                IN  /\ r.status = "feasible" =>
                        ValidOrdering(g, r.order) /\ OrderingCutwidth(g, r.order) <= k
                    /\ r.status = "infeasible" => Exact(g) > k

(* Results a search of a component may come back with.                         *)
Results(c) ==
    {[lower |-> l, order |-> o] : l \in 0..Exact(c), o \in {Sorted(Vertices(c), <), Sorted(Vertices(c), >)}}

Milps(g) ==
    {[status |-> "time_limit", optimum |-> D!NoValue, incumbent |-> D!NoValue, order |-> << >>],
     [status |-> "time_limit", optimum |-> D!NoValue, incumbent |-> OrderingCutwidth(g, <<3, 1, 0, 2>>),
      order |-> <<3, 1, 0, 2>>]}
        \cup {[status |-> "optimal", optimum |-> Exact(g), incumbent |-> OrderingCutwidth(g, o), order |-> o] :
                o \in {<<0, 2, 1, 3>>, <<0, 1, 2, 3>>}}

(* Whatever is found out about the parts, and wherever the time is up: the      *)
(* interval holds the cutwidth, the order is one of all vertices and as wide as *)
(* its upper end, and an optimum is one.                                      *)
ASSUME IntervalsSound ==
    \A g \in {Two, Lopsided}, adaptive \in BOOLEAN :
        LET parts == D!Parts(g, adaptive)
            found == UNION {{q \in [1..n -> UNION {Results(parts[i].graph) : i \in 1..n}] :
                                \A i \in 1..n : q[i] \in Results(parts[i].graph)} : n \in 1..Len(parts)}
        IN  \A q \in found, seed \in {<< >>, <<0, 1, 2, 3>>, <<2, 0, 3, 1>>}, milp \in Milps(g),
                sdp \in {D!NoValue} \cup 0..Exact(g) :
                LET r == D!OptimizeParts(g, parts, q, seed, milp, sdp)
                IN  /\ ValidOrdering(g, r.order) /\ r.upper = OrderingCutwidth(g, r.order)
                    /\ r.lower <= Exact(g) /\ Exact(g) <= r.upper
                    /\ r.optimal <=> r.lower = r.upper

(* What the bisection certificates may say is below the cutwidth, for every     *)
(* prefix size that is asked.                                                 *)
ASSUME BisectionsSound ==
    \A g \in FourGraphs : \A k \in ToSet(D!Cardinalities(4, <<0, 1, 0, 2, 9>>)) :
        D!BisectionWidth(g, k) <= Exact(g)

(* Left alone, the branch and bound finds the cutwidth, with the table, without *)
(* it or with one too small; stopped anywhere, it brackets it.                 *)
ASSUME SolverExact ==
    \A g \in FourGraphs, options \in [table : BOOLEAN, limit : {0, 2}], starts \in {1, 4}, polls \in {0, 3, 9, 99} :
        LET r == X!Solve(g, options, starts, polls)
        IN  /\ ValidOrdering(g, r.order) /\ r.upper = OrderingCutwidth(g, r.order)
            /\ r.lower <= Exact(g) /\ Exact(g) <= r.upper
            /\ r.optimal => r.lower = r.upper
            /\ starts = 4 /\ polls = 99 => r.optimal
=============================================================================
