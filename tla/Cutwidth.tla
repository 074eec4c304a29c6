------------------------------ MODULE Cutwidth ------------------------------
(* Graphs, cuts and orderings (graph.cpp, vertex_set.cpp), and the exact      *)
(* values every search of the solver is measured against (oracle.cpp,         *)
(* node_memo.cpp). A graph is the function from a vertex to its neighbours; a  *)
(* VertexSet is a set.                                                        *)
EXTENDS Integers, SequencesExt

(* A set in the order of Less, a total order on it.                           *)
Ahead(R, S, x) == {y \in S : <<y, x>> \in R}
InOrder(R, S) ==
    LET rank == [x \in S |-> Cardinality(Ahead(R, S, x))]
    IN  [i \in 1..Cardinality(S) |-> CHOOSE x \in S : rank[x] = i - 1]
Sorted(S, Less(_, _)) == InOrder({p \in S \X S : Less(p[1], p[2])}, S)

(* A record or table with the fields of another it lacks itself.               *)
Extended(f, extra) ==
    [x \in DOMAIN f \cup DOMAIN extra |-> IF x \in DOMAIN f THEN f[x] ELSE extra[x]]

SumOf(f) == MapThenSumSet(LAMBDA x : f[x], DOMAIN f)

(* Loops are dropped and parallel edges are one.                              *)
SimpleGraph(n, edges) ==
    [a \in 0..(n - 1) |-> {b \in (0..(n - 1)) \ {a} : <<a, b>> \in edges \/ <<b, a>> \in edges}]

IsSimple(g) ==
    /\ IsFiniteSet(DOMAIN g) /\ DOMAIN g \subseteq Nat
    /\ \A v \in DOMAIN g : g[v] \subseteq DOMAIN g \ {v}
    /\ \A u, v \in DOMAIN g : u \in g[v] => v \in g[u]

Vertices(g)  == DOMAIN g
Degree(g, v) == Cardinality(g[v])
EdgeCount(g) == MapThenSumSet(LAMBDA v : Degree(g, v), Vertices(g)) \div 2

(* Edges with exactly one endpoint in S.                                      *)
Cut(g, S) == MapThenSumSet(LAMBDA v : Cardinality(g[v] \ S), S)

ValidOrdering(g, o) == Len(o) = Cardinality(Vertices(g)) /\ ToSet(o) = Vertices(g)

OrderingCutwidth(g, o) ==
    Max({0} \cup {Cut(g, ToSet(SubSeq(o, 1, i))) : i \in DOMAIN o})

(* The least width over all orders of the vertices of a set, by the last one. *)
SubsetDp(g) ==
    LET dp[S \in SUBSET Vertices(g)] ==
            IF S = {} THEN 0
            ELSE Max({Cut(g, S), Min({dp[S \ {v}] : v \in S})})
    IN  dp

(* The least width over all completions of a prefix, cut off after d further  *)
(* vertices: with d = |V| the exact value of the prefix.                      *)
FiniteHorizon(g, S, d) ==
    LET bound[T \in SUBSET Vertices(g)] ==
            IF T = Vertices(g) \/ Cardinality(T \ S) >= d THEN Cut(g, T)
            ELSE Max({Cut(g, T), Min({bound[T \cup {v}] : v \in Vertices(g) \ T})})
    IN  bound[S]

Completion(g, S) == FiniteHorizon(g, S, Cardinality(Vertices(g)))

EqualOpen(g, a, b)   == b \notin g[a] /\ g[a] = g[b]
EqualClosed(g, a, b) == b \in g[a] /\ g[a] \cup {a} = g[b] \cup {b}

(* Of several interchangeable vertices only the smallest is tried first.      *)
EarlierTwins(g) ==
    [v \in Vertices(g) |-> {u \in Vertices(g) : u < v /\ (EqualOpen(g, u, v) \/ EqualClosed(g, u, v))}]
=============================================================================
