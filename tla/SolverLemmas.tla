---------------------------- MODULE SolverLemmas ----------------------------
(***************************************************************************)
(* What the searches of the solver rest on, for every simple graph: how a   *)
(* cut changes when a vertex is placed, what the exact value of a prefix is, *)
(* and that twins may be dropped, bounds and tables trusted, and the state   *)
(* kept up to date by apply and undo (graph.cpp, oracle.cpp, residual_dp.cpp,*)
(* partial_bounds.cpp, decision_session.cpp). Before that, what the proofs    *)
(* need of finite sets: least elements and minimal sets, on which every      *)
(* induction rests; that a recursive definition over a ranked set has a       *)
(* solution; and the sum over a set (MapThenSumSet), taken apart in any order.*)
(***************************************************************************)
EXTENDS SearchNode, FiniteSetTheorems, WellFoundedInduction, TLAPS

-----------------------------------------------------------------------------
\* Least and minimal.

LEMMA Least ==
    ASSUME NEW S \in SUBSET Nat, S # {}
    PROVE  \E m \in S : \A k \in S : m <= k
<1>. DEFINE R == StrictSubsetOrdering(Nat)
            T == {0 .. k : k \in S}
<1>1. IsWellFoundedOn(R, FiniteSubsetsOf(Nat))
    BY FS_StrictSubsetOrderingWellFounded
<1>2. T \subseteq FiniteSubsetsOf(Nat)
    <2>. SUFFICES ASSUME NEW k \in S PROVE 0 .. k \in FiniteSubsetsOf(Nat)
        OBVIOUS
    <2>1. IsFiniteSet(0 .. k)
        BY FS_Interval
    <2>2. 0 .. k \in SUBSET Nat
        OBVIOUS
    <2>. QED BY <2>1, <2>2 DEF FiniteSubsetsOf
<1>3. PICK x \in T : \A y \in T : <<y, x>> \notin R
    <2>1. T # {}
        OBVIOUS
    <2>. HIDE DEF R, T
    <2>. QED BY <1>1, <1>2, <2>1, WFMin
<1>4. PICK m \in S : x = 0 .. m
    OBVIOUS
<1>5. ASSUME NEW k \in S, k < m PROVE FALSE
    <2>1. (0 .. k) \subseteq (0 .. m) /\ 0 .. k # 0 .. m /\ 0 .. k \in T
        <3>1. m \in 0 .. m /\ m \notin 0 .. k
            BY <1>5
        <3>. QED BY <1>5, <3>1
    <2>2. <<0 .. k, x>> \in R
        BY <1>4, <2>1 DEF StrictSubsetOrdering
    <2>. QED BY <1>3, <2>1, <2>2
<1>. QED BY <1>5

\* Of the elements of a set that have a rank, one has the least.
LEMMA LeastRank ==
    ASSUME NEW S, S # {}, NEW rank, \A x \in S : rank[x] \in Nat
    PROVE  \E m \in S : \A k \in S : rank[m] <= rank[k]
<1>. DEFINE T == {rank[x] : x \in S}
<1>1. PICK n \in T : \A k \in T : n <= k
    <2>1. T \in SUBSET Nat /\ T # {}
        OBVIOUS
    <2>. HIDE DEF T
    <2>. QED BY <2>1, Least
<1>. QED BY <1>1

\* A nonempty finite set of integers has a least and a greatest element.
LEMMA Extremes ==
    ASSUME NEW S \in SUBSET Int, IsFiniteSet(S), S # {}
    PROVE  /\ \E m \in S : \A k \in S : m <= k
           /\ \E m \in S : \A k \in S : k <= m
<1>. DEFINE B == {T \in SUBSET S : T # {} /\ ~( /\ \E m \in T : \A k \in T : m <= k
                                                /\ \E m \in T : \A k \in T : k <= m)}
            size == [T \in SUBSET S |-> Cardinality(T)]
<1>1. SUFFICES ASSUME B # {} PROVE FALSE
    OBVIOUS
<1>2. \A T \in SUBSET S : IsFiniteSet(T) /\ size[T] \in Nat
    BY FS_Subset, FS_CardinalityType
<1>3. PICK T \in B : \A X \in B : size[T] <= size[X]
    <2>. HIDE DEF B
    <2>1. \A T \in B : size[T] \in Nat
        BY <1>2 DEF B
    <2>. HIDE DEF size
    <2>. QED BY <1>1, <2>1, LeastRank
<1>4. PICK x \in T : TRUE
    OBVIOUS
<1>5. T \ {x} \in SUBSET S /\ x \in Int
    OBVIOUS
<1>6. T \ {x} \notin B
    <2>1. IsFiniteSet(T) /\ Cardinality(T) \in Nat
        BY <1>2
    <2>2. Cardinality(T \ {x}) = Cardinality(T) - 1
        BY <2>1, FS_RemoveElement
    <2>3. size[T \ {x}] = Cardinality(T \ {x}) /\ size[T] = Cardinality(T)
        BY <1>5
    <2>4. ~(size[T] <= size[T \ {x}])
        BY <2>1, <2>2, <2>3
    <2>. QED BY <1>3, <2>4
<1>7. CASE T = {x}
    BY <1>3, <1>5, <1>7
<1>8. CASE T # {x}
    <2>1. PICK m \in T \ {x}, n \in T \ {x} : \A k \in T \ {x} : m <= k /\ k <= n
        BY <1>5, <1>6, <1>8
    <2>2. \A k \in T : k \in Int
        OBVIOUS
    <2>3. \E a \in T : \A k \in T : a <= k
        BY <2>1, <2>2, <1>4
    <2>4. \E a \in T : \A k \in T : k <= a
        BY <2>1, <2>2, <1>4
    <2>. QED BY <2>3, <2>4, <1>3
<1>. QED BY <1>7, <1>8

LEMMA MinIs ==
    ASSUME NEW S \in SUBSET Int, IsFiniteSet(S), S # {}
    PROVE  Min(S) \in S /\ \A k \in S : Min(S) <= k
<1>1. \E m \in S : \A k \in S : m <= k
    BY Extremes
<1>. QED BY <1>1 DEF Min

LEMMA MaxIs ==
    ASSUME NEW S \in SUBSET Int, IsFiniteSet(S), S # {}
    PROVE  Max(S) \in S /\ \A k \in S : k <= Max(S)
<1>1. \E m \in S : \A k \in S : k <= m
    BY Extremes
<1>2. \E m \in S : \A k \in S : m >= k
    BY <1>1
<1>3. Max(S) \in S /\ \A k \in S : Max(S) >= k
    BY <1>2 DEF Max
<1>. QED BY <1>3

\* Among sets of subsets of a finite set, one is minimal, and one maximal.
LEMMA MinimalSet ==
    ASSUME NEW U, IsFiniteSet(U), NEW B \in SUBSET (SUBSET U), B # {}
    PROVE  \E T \in B : \A X \in SUBSET T : X # T => X \notin B
<1>. DEFINE size == [T \in B |-> Cardinality(T)]
<1>1. \A T \in B : IsFiniteSet(T) /\ size[T] \in Nat
    BY FS_Subset, FS_CardinalityType
<1>2. PICK T \in B : \A X \in B : size[T] <= size[X]
    <2>. HIDE DEF size
    <2>. QED BY <1>1, LeastRank
<1>3. ASSUME NEW X \in SUBSET T, X # T, X \in B PROVE FALSE
    <2>1. Cardinality(X) < Cardinality(T)
        <3>1. /\ Cardinality(X) <= Cardinality(T)
              /\ Cardinality(T) = Cardinality(X) => T = X
            BY <1>1, FS_Subset
        <3>. QED BY <1>1, <1>3, <3>1
    <2>. QED BY <1>1, <1>2, <1>3, <2>1
<1>. QED BY <1>3

LEMMA MaximalSet ==
    ASSUME NEW U, IsFiniteSet(U), NEW B \in SUBSET (SUBSET U), B # {}
    PROVE  \E T \in B : \A X \in SUBSET U : T \subseteq X /\ X # T => X \notin B
<1>. DEFINE C == {U \ T : T \in B}
<1>1. PICK Y \in C : \A X \in SUBSET Y : X # Y => X \notin C
    <2>1. C \in SUBSET (SUBSET U)
        OBVIOUS
    <2>2. C # {}
        <3>1. PICK T \in B : TRUE
            OBVIOUS
        <3>2. U \ T \in C
            OBVIOUS
        <3>. QED BY <3>2
    <2>. HIDE DEF C
    <2>. QED BY <2>1, <2>2, MinimalSet
<1>2. PICK T \in B : Y = U \ T
    OBVIOUS
<1>3. ASSUME NEW X \in SUBSET U, T \subseteq X, X # T, X \in B PROVE FALSE
    <2>1. U \ X \in SUBSET Y /\ U \ X # Y
        BY <1>2, <1>3
    <2>2. U \ X \in C
        BY <1>3
    <2>. QED BY <1>1, <2>1, <2>2
<1>. QED BY <1>3

-----------------------------------------------------------------------------
\* Recursion.

\* D, which gives an element of V for an element of X and a guess for all of X,
\* looks in the guess at elements of smaller rank only.
Ranked(X, V, rank, bound, D) ==
    /\ \A x \in X : rank[x] \in 0 .. bound
    /\ \A x \in X : \A g \in [X -> V] : D[x][g] \in V
    /\ \A x \in X : \A g, h \in [X -> V] :
            (\A y \in X : rank[y] < rank[x] => g[y] = h[y]) => D[x][g] = D[x][h]

\* Such a definition has a solution.
LEMMA RankedRecursion ==
    ASSUME NEW X, NEW V, V # {}, NEW rank, NEW bound \in Nat, NEW D,
           Ranked(X, V, rank, bound, D)
    PROVE  \E f \in [X -> V] : \A x \in X : f[x] = D[x][f]
<1>. DEFINE Solves(g, n) == \A x \in X : rank[x] < n => g[x] = D[x][g]
            Bad == {n \in 0 .. bound + 1 : \A g \in [X -> V] : ~Solves(g, n)}
<1>1. CASE Bad = {}
    <2>1. bound + 1 \in 0 .. bound + 1
        OBVIOUS
    <2>2. bound + 1 \notin Bad
        <3>. HIDE DEF Bad
        <3>. QED BY <1>1
    <2>3. PICK g \in [X -> V] : Solves(g, bound + 1)
        BY <2>1, <2>2
    <2>. QED BY <2>3 DEF Ranked
<1>2. CASE Bad # {}
    <2>1. PICK n \in Bad : \A m \in Bad : n <= m
        <3>1. Bad \in SUBSET Nat
            OBVIOUS
        <3>. HIDE DEF Bad
        <3>. QED BY <1>2, <3>1, Least
    <2>2. n # 0
        <3>1. PICK v \in V : TRUE
            OBVIOUS
        <3>2. [x \in X |-> v] \in [X -> V]
            OBVIOUS
        <3>3. Solves([x \in X |-> v], 0)
            BY DEF Ranked
        <3>. QED BY <3>2, <3>3
    <2>3. n - 1 \in 0 .. bound + 1 /\ n - 1 \notin Bad
        BY <2>1, <2>2
    <2>4. PICK g \in [X -> V] : Solves(g, n - 1)
        BY <2>3
    <2>5. PICK h : h = [x \in X |-> IF rank[x] < n - 1 THEN g[x] ELSE D[x][g]]
        OBVIOUS
    <2>6. h \in [X -> V]
        BY <2>5 DEF Ranked
    <2>7. ASSUME NEW x \in X, rank[x] < n PROVE h[x] = D[x][h]
        <3>1. \A y \in X : rank[y] < rank[x] => h[y] = g[y]
            BY <2>5, <2>7 DEF Ranked
        <3>2. D[x][h] = D[x][g]
            BY <2>6, <3>1 DEF Ranked
        <3>. QED BY <2>4, <2>5, <3>2
    <2>. QED BY <2>6, <2>7
<1>. QED BY <1>1, <1>2

-----------------------------------------------------------------------------
\* The sum over a set.

Pick(s) == CHOOSE x \in s : TRUE
Partial(f, S) ==
    CHOOSE h : h = [s \in SUBSET S |-> IF s = {} THEN 0 ELSE f[Pick(s)] + h[s \ {Pick(s)}]]
Total(f, S) == Partial(f, S)[S]

LEMMA TotalIsSum ==
    \A f, S : MapThenSumSet(LAMBDA x : f[x], S) = Total(f, S)
BY DEF Total, Partial, Pick, MapThenSumSet, MapThenFoldSet

LEMMA PickIn == \A s : s # {} => Pick(s) \in s
BY DEF Pick

LEMMA PartialEquation ==
    ASSUME NEW S, IsFiniteSet(S), NEW f, \A x \in S : f[x] \in Int
    PROVE  Partial(f, S) =
             [s \in SUBSET S |-> IF s = {} THEN 0 ELSE f[Pick(s)] + Partial(f, S)[s \ {Pick(s)}]]
<1>. DEFINE X == SUBSET S
            rank == [s \in X |-> Cardinality(s)]
            D == [s \in X |-> [h \in [X -> Int] |->
                     IF s = {} THEN 0 ELSE f[Pick(s)] + h[s \ {Pick(s)}]]]
<1>1. \A s \in X : IsFiniteSet(s) /\ rank[s] \in 0 .. Cardinality(S)
    <2>1. \A s \in X : IsFiniteSet(s) /\ Cardinality(s) \in Nat /\ Cardinality(s) <= Cardinality(S)
        BY FS_Subset, FS_CardinalityType
    <2>2. Cardinality(S) \in Nat
        BY FS_CardinalityType
    <2>. QED BY <2>1, <2>2
<1>2. \A s \in X : s # {} => /\ Pick(s) \in S /\ s \ {Pick(s)} \in X
                             /\ rank[s \ {Pick(s)}] < rank[s]
    <2>. SUFFICES ASSUME NEW s \in X, s # {}
                  PROVE  /\ Pick(s) \in S /\ s \ {Pick(s)} \in X
                         /\ rank[s \ {Pick(s)}] < rank[s]
        OBVIOUS
    <2>1. Pick(s) \in s
        BY PickIn
    <2>2. IsFiniteSet(s) /\ Cardinality(s) \in Nat
        BY FS_Subset, FS_CardinalityType
    <2>3. Cardinality(s \ {Pick(s)}) = Cardinality(s) - 1
        BY <2>1, <2>2, FS_RemoveElement
    <2>4. s \ {Pick(s)} \in X
        OBVIOUS
    <2>5. rank[s \ {Pick(s)}] = Cardinality(s \ {Pick(s)}) /\ rank[s] = Cardinality(s)
        BY <2>4
    <2>. QED BY <2>1, <2>2, <2>3, <2>4, <2>5
<1>3. \A s \in X : \A h \in [X -> Int] :
        D[s][h] = (IF s = {} THEN 0 ELSE f[Pick(s)] + h[s \ {Pick(s)}])
    OBVIOUS
<1>4. \E f1 \in [X -> Int] : \A s \in X : f1[s] = D[s][f1]
    <2>1. \A s \in X : \A h \in [X -> Int] : D[s][h] \in Int
        <3>. SUFFICES ASSUME NEW s \in X, NEW h \in [X -> Int] PROVE D[s][h] \in Int
            OBVIOUS
        <3>1. CASE s = {}
            BY <3>1
        <3>2. CASE s # {}
            <4>1. f[Pick(s)] \in Int /\ h[s \ {Pick(s)}] \in Int
                BY <1>2, <3>2
            <4>. QED BY <1>3, <3>2, <4>1
        <3>. QED BY <3>1, <3>2
    <2>2. \A s \in X : \A g, h \in [X -> Int] :
             (\A y \in X : rank[y] < rank[s] => g[y] = h[y]) => D[s][g] = D[s][h]
        BY <1>2, <1>3
    <2>3. Cardinality(S) \in Nat /\ Int # {}
        BY FS_CardinalityType
    <2>4. Ranked(X, Int, rank, Cardinality(S), D)
        <3>1. \A s \in X : rank[s] \in 0 .. Cardinality(S)
            BY <1>1
        <3>. HIDE DEF X, rank, D
        <3>. QED BY <2>1, <2>2, <3>1 DEF Ranked
    <2>. HIDE DEF X, D, rank
    <2>. QED BY <2>3, <2>4, RankedRecursion
<1>5. PICK h \in [X -> Int] : \A s \in X : h[s] = D[s][h]
    BY <1>4
<1>6. h = [s \in SUBSET S |-> IF s = {} THEN 0 ELSE f[Pick(s)] + h[s \ {Pick(s)}]]
    BY <1>3, <1>5
<1>. QED BY <1>6 DEF Partial

LEMMA PartialAt ==
    ASSUME NEW S, IsFiniteSet(S), NEW f, \A x \in S : f[x] \in Int, NEW s \in SUBSET S
    PROVE  Partial(f, S)[s] = IF s = {} THEN 0 ELSE f[Pick(s)] + Partial(f, S)[s \ {Pick(s)}]
<1>1. PICK h : h = Partial(f, S)
    OBVIOUS
<1>2. h = [t \in SUBSET S |-> IF t = {} THEN 0 ELSE f[Pick(t)] + h[t \ {Pick(t)}]]
    <2>1. Partial(f, S) =
            [t \in SUBSET S |-> IF t = {} THEN 0 ELSE f[Pick(t)] + Partial(f, S)[t \ {Pick(t)}]]
        BY PartialEquation
    <2>. QED BY <1>1, <2>1
<1>3. h[s] = IF s = {} THEN 0 ELSE f[Pick(s)] + h[s \ {Pick(s)}]
    BY <1>2
<1>. QED BY <1>1, <1>3

LEMMA PartialInt ==
    ASSUME NEW S, IsFiniteSet(S), NEW f, \A x \in S : f[x] \in Int, NEW s \in SUBSET S
    PROVE  Partial(f, S)[s] \in Int
<1>. DEFINE B == {T \in SUBSET S : Partial(f, S)[T] \notin Int}
<1>1. SUFFICES ASSUME B # {} PROVE FALSE
    OBVIOUS
<1>2. PICK T \in B : \A X \in SUBSET T : X # T => X \notin B
    <2>1. B \in SUBSET (SUBSET S)
        OBVIOUS
    <2>. HIDE DEF B
    <2>. QED BY <1>1, <2>1, MinimalSet
<1>3. Partial(f, S)[T] = IF T = {} THEN 0 ELSE f[Pick(T)] + Partial(f, S)[T \ {Pick(T)}]
    BY PartialAt
<1>4. T # {}
    BY <1>3
<1>5. Pick(T) \in T
    BY <1>4, PickIn
<1>6. T \ {Pick(T)} \in SUBSET T /\ T \ {Pick(T)} # T
    BY <1>5
<1>7. Partial(f, S)[T \ {Pick(T)}] \in Int
    BY <1>2, <1>6
<1>8. f[Pick(T)] \in Int
    BY <1>5
<1>. QED BY <1>3, <1>4, <1>7, <1>8

\* A partial sum depends on the elements it is of.
LEMMA PartialsAgree ==
    ASSUME NEW S, IsFiniteSet(S), NEW f, \A x \in S : f[x] \in Int,
           NEW R, IsFiniteSet(R), NEW g, \A x \in R : g[x] \in Int,
           NEW s \in SUBSET S, s \in SUBSET R, \A x \in s : f[x] = g[x]
    PROVE  Partial(f, S)[s] = Partial(g, R)[s]
<1>. DEFINE B == {T \in SUBSET s : Partial(f, S)[T] # Partial(g, R)[T]}
<1>1. SUFFICES ASSUME B # {} PROVE FALSE
    OBVIOUS
<1>2. PICK T \in B : \A X \in SUBSET T : X # T => X \notin B
    <2>1. B \in SUBSET (SUBSET s) /\ IsFiniteSet(s)
        BY FS_Subset
    <2>. HIDE DEF B
    <2>. QED BY <1>1, <2>1, MinimalSet
<1>3. T \in SUBSET S /\ T \in SUBSET R
    OBVIOUS
<1>4. /\ Partial(f, S)[T] = IF T = {} THEN 0 ELSE f[Pick(T)] + Partial(f, S)[T \ {Pick(T)}]
      /\ Partial(g, R)[T] = IF T = {} THEN 0 ELSE g[Pick(T)] + Partial(g, R)[T \ {Pick(T)}]
    BY <1>3, PartialAt
<1>5. T # {}
    BY <1>4
<1>6. Pick(T) \in T
    BY <1>5, PickIn
<1>7. T \ {Pick(T)} \in SUBSET T /\ T \ {Pick(T)} # T
    BY <1>6
<1>8. Partial(f, S)[T \ {Pick(T)}] = Partial(g, R)[T \ {Pick(T)}]
    BY <1>2, <1>7
<1>. QED BY <1>4, <1>5, <1>6, <1>8

\* The sum of a function over a finite set, as the proofs use it.
LEMMA TotalInt ==
    ASSUME NEW S, IsFiniteSet(S), NEW f, \A x \in S : f[x] \in Int
    PROVE  Total(f, S) \in Int
BY PartialInt DEF Total

LEMMA TotalEmpty == \A f : Total(f, {}) = 0
<1>. SUFFICES ASSUME NEW f PROVE Partial(f, {})[{}] = 0
    BY DEF Total
<1>. QED BY PartialAt, FS_EmptySet

LEMMA TotalsAgree ==
    ASSUME NEW S, IsFiniteSet(S), NEW f, NEW g, \A x \in S : f[x] \in Int /\ g[x] = f[x]
    PROVE  Total(g, S) = Total(f, S)
BY PartialsAgree DEF Total

LEMMA TotalPicked ==
    ASSUME NEW S, IsFiniteSet(S), NEW f, \A x \in S : f[x] \in Int, S # {}
    PROVE  Total(f, S) = f[Pick(S)] + Total(f, S \ {Pick(S)})
<1>. DEFINE T == S \ {Pick(S)}
<1>1. T \in SUBSET S /\ T \in SUBSET T /\ IsFiniteSet(T)
    BY FS_Subset
<1>2. Partial(f, S)[T] = Partial(f, T)[T]
    BY <1>1, PartialsAgree
<1>3. Partial(f, S)[S] = f[Pick(S)] + Partial(f, S)[T]
    BY PartialAt
<1>. QED BY <1>2, <1>3 DEF Total

\* Any element may be taken off first.
LEMMA TotalWithout ==
    ASSUME NEW S, IsFiniteSet(S), NEW f, \A x \in S : f[x] \in Int, NEW x \in S
    PROVE  Total(f, S) = f[x] + Total(f, S \ {x})
<1>. DEFINE B == {T \in SUBSET S : \E y \in T : Total(f, T) # f[y] + Total(f, T \ {y})}
<1>1. SUFFICES ASSUME B # {} PROVE FALSE
    OBVIOUS
<1>2. PICK T \in B : \A X \in SUBSET T : X # T => X \notin B
    <2>1. B \in SUBSET (SUBSET S)
        OBVIOUS
    <2>. HIDE DEF B
    <2>. QED BY <1>1, <2>1, MinimalSet
<1>3. PICK y \in T : Total(f, T) # f[y] + Total(f, T \ {y})
    OBVIOUS
<1>4. PICK c : c = Pick(T)
    OBVIOUS
<1>5. c \in T
    BY <1>4, PickIn
<1>6. \A X \in SUBSET T : IsFiniteSet(X) /\ (\A z \in X : f[z] \in Int) /\ Total(f, X) \in Int
    BY FS_Subset, TotalInt
<1>7. Total(f, T) = f[c] + Total(f, T \ {c})
    BY <1>4, <1>5, <1>6, TotalPicked
<1>8. c # y
    BY <1>3, <1>7
<1>9. \A X \in SUBSET T : X # T => \A z \in X : Total(f, X) = f[z] + Total(f, X \ {z})
    BY <1>2
<1>10. Total(f, T \ {c}) = f[y] + Total(f, (T \ {c}) \ {y})
    BY <1>5, <1>8, <1>9
<1>11. Total(f, T \ {y}) = f[c] + Total(f, (T \ {y}) \ {c})
    BY <1>5, <1>8, <1>9
<1>12. (T \ {c}) \ {y} = (T \ {y}) \ {c}
    OBVIOUS
<1>13. f[y] \in Int /\ f[c] \in Int /\ Total(f, (T \ {c}) \ {y}) \in Int
    BY <1>5, <1>6
<1>. QED BY <1>3, <1>7, <1>10, <1>11, <1>12, <1>13

\* One summand changes.
LEMMA TotalChanged ==
    ASSUME NEW S, IsFiniteSet(S), NEW f, \A y \in S : f[y] \in Int, NEW x \in S,
           NEW g, g[x] \in Int, \A y \in S : y # x => g[y] = f[y]
    PROVE  Total(g, S) = Total(f, S) - f[x] + g[x]
<1>1. IsFiniteSet(S \ {x}) /\ \A y \in S : g[y] \in Int
    BY FS_Subset
<1>2. Total(f, S) = f[x] + Total(f, S \ {x})
    BY TotalWithout
<1>3. Total(g, S) = g[x] + Total(g, S \ {x})
    BY <1>1, TotalWithout
<1>4. Total(g, S \ {x}) = Total(f, S \ {x})
    BY <1>1, TotalsAgree
<1>5. Total(f, S \ {x}) \in Int
    BY <1>1, TotalInt
<1>. QED BY <1>2, <1>3, <1>4, <1>5

LEMMA TotalZero ==
    ASSUME NEW S, IsFiniteSet(S), NEW f, \A x \in S : f[x] = 0
    PROVE  Total(f, S) = 0
<1>. DEFINE B == {T \in SUBSET S : Total(f, T) # 0}
<1>1. SUFFICES ASSUME B # {} PROVE FALSE
    OBVIOUS
<1>2. PICK T \in B : \A X \in SUBSET T : X # T => X \notin B
    <2>1. B \in SUBSET (SUBSET S)
        OBVIOUS
    <2>. HIDE DEF B
    <2>. QED BY <1>1, <2>1, MinimalSet
<1>3. T # {}
    BY TotalEmpty
<1>4. PICK x \in T : TRUE
    BY <1>3
<1>5. Total(f, T) = f[x] + Total(f, T \ {x})
    <2>1. IsFiniteSet(T) /\ \A y \in T : f[y] \in Int
        BY FS_Subset
    <2>. QED BY <2>1, TotalWithout
<1>6. Total(f, T \ {x}) = 0
    BY <1>2
<1>. QED BY <1>5, <1>6

\* Summands that grow make the sum grow.
LEMMA TotalsOrdered ==
    ASSUME NEW S, IsFiniteSet(S), NEW f, NEW g,
           \A x \in S : f[x] \in Int /\ g[x] \in Int /\ f[x] <= g[x]
    PROVE  Total(f, S) <= Total(g, S)
<1>. DEFINE B == {T \in SUBSET S : ~(Total(f, T) <= Total(g, T))}
<1>1. SUFFICES ASSUME B # {} PROVE FALSE
    OBVIOUS
<1>2. PICK T \in B : \A X \in SUBSET T : X # T => X \notin B
    <2>1. B \in SUBSET (SUBSET S)
        OBVIOUS
    <2>. HIDE DEF B
    <2>. QED BY <1>1, <2>1, MinimalSet
<1>3. T # {}
    BY TotalEmpty
<1>4. PICK x \in T : TRUE
    BY <1>3
<1>5. \A X \in SUBSET T : IsFiniteSet(X) /\ (\A y \in X : f[y] \in Int /\ g[y] \in Int)
    BY FS_Subset
<1>6. Total(f, T) = f[x] + Total(f, T \ {x}) /\ Total(g, T) = g[x] + Total(g, T \ {x})
    BY <1>5, TotalWithout
<1>7. Total(f, T \ {x}) \in Int /\ Total(g, T \ {x}) \in Int
    BY <1>5, TotalInt
<1>8. Total(f, T \ {x}) <= Total(g, T \ {x})
    BY <1>2
<1>. QED BY <1>6, <1>7, <1>8

-----------------------------------------------------------------------------
\* Sums.

LEMMA TotalDifference ==
    ASSUME NEW S, IsFiniteSet(S), NEW f, NEW h, NEW e,
           \A x \in S : f[x] \in Int /\ h[x] \in Int /\ e[x] = f[x] - h[x]
    PROVE  Total(e, S) = Total(f, S) - Total(h, S)
<1>. DEFINE B == {T \in SUBSET S : Total(e, T) # Total(f, T) - Total(h, T)}
<1>1. SUFFICES ASSUME B # {} PROVE FALSE
    OBVIOUS
<1>2. PICK T \in B : \A X \in SUBSET T : X # T => X \notin B
    <2>1. B \in SUBSET (SUBSET S)
        OBVIOUS
    <2>. HIDE DEF B
    <2>. QED BY <1>1, <2>1, MinimalSet
<1>3. T # {}
    BY TotalEmpty
<1>4. PICK x \in T : TRUE
    BY <1>3
<1>5. \A X \in SUBSET T : IsFiniteSet(X) /\ (\A y \in X : f[y] \in Int /\ h[y] \in Int /\ e[y] \in Int)
    BY FS_Subset
<1>6. /\ Total(f, T) = f[x] + Total(f, T \ {x}) /\ Total(h, T) = h[x] + Total(h, T \ {x})
      /\ Total(e, T) = e[x] + Total(e, T \ {x})
    BY <1>5, TotalWithout
<1>7. /\ Total(f, T \ {x}) \in Int /\ Total(h, T \ {x}) \in Int /\ Total(e, T \ {x}) \in Int
    BY <1>5, TotalInt
<1>8. Total(e, T \ {x}) = Total(f, T \ {x}) - Total(h, T \ {x})
    BY <1>2
<1>. QED BY <1>5, <1>6, <1>7, <1>8

LEMMA TotalNat ==
    ASSUME NEW S, IsFiniteSet(S), NEW f, \A x \in S : f[x] \in Nat
    PROVE  Total(f, S) \in Nat
<1>. DEFINE z == [x \in S |-> 0]
<1>1. Total(z, S) = 0
    BY TotalZero
<1>2. \A x \in S : z[x] \in Int /\ f[x] \in Int /\ z[x] <= f[x]
    OBVIOUS
<1>3. Total(z, S) <= Total(f, S) /\ Total(f, S) \in Int
    <2>. HIDE DEF z
    <2>. QED BY <1>2, TotalsOrdered, TotalInt
<1>. QED BY <1>1, <1>3

\* The sum of an indicator counts.
LEMMA TotalCounts ==
    ASSUME NEW S, IsFiniteSet(S), NEW A, NEW f,
           \A x \in S : f[x] = IF x \in A THEN 1 ELSE 0
    PROVE  Total(f, S) = Cardinality(S \cap A)
<1>. DEFINE B == {T \in SUBSET S : Total(f, T) # Cardinality(T \cap A)}
<1>1. SUFFICES ASSUME B # {} PROVE FALSE
    OBVIOUS
<1>2. PICK T \in B : \A X \in SUBSET T : X # T => X \notin B
    <2>1. B \in SUBSET (SUBSET S)
        OBVIOUS
    <2>. HIDE DEF B
    <2>. QED BY <1>1, <2>1, MinimalSet
<1>3. T # {}
    <2>1. {} \cap A = {}
        OBVIOUS
    <2>. QED BY <2>1, TotalEmpty, FS_EmptySet
<1>4. PICK x \in T : TRUE
    BY <1>3
<1>5. IsFiniteSet(T) /\ (\A y \in T : f[y] \in Int)
    BY FS_Subset
<1>6. Total(f, T) = f[x] + Total(f, T \ {x})
    BY <1>5, TotalWithout
<1>7. Total(f, T \ {x}) = Cardinality((T \ {x}) \cap A)
    BY <1>2
<1>8. IsFiniteSet(T \cap A)
    BY <1>5, FS_Intersection
<1>9. CASE x \in A
    <2>1. (T \ {x}) \cap A = (T \cap A) \ {x} /\ x \in T \cap A
        BY <1>9
    <2>2. Cardinality((T \cap A) \ {x}) = Cardinality(T \cap A) - 1
        BY <1>8, <2>1, FS_RemoveElement
    <2>3. Cardinality(T \cap A) \in Nat
        BY <1>8, FS_CardinalityType
    <2>4. f[x] = 1
        BY <1>9
    <2>5. Total(f, T \ {x}) = Cardinality(T \cap A) - 1
        BY <1>7, <2>1, <2>2
    <2>6. Total(f, T) = Cardinality(T \cap A)
        BY <1>6, <2>3, <2>4, <2>5
    <2>. QED BY <2>6
<1>10. CASE x \notin A
    <2>1. (T \ {x}) \cap A = T \cap A
        BY <1>10
    <2>2. Cardinality(T \cap A) \in Nat
        BY <1>8, FS_CardinalityType
    <2>. QED BY <1>6, <1>7, <1>10, <2>1, <2>2
<1>. QED BY <1>9, <1>10

\* Whatever solves the recursion of a sum is the sum.
LEMMA SumIsTotal ==
    ASSUME NEW S, IsFiniteSet(S), NEW f, \A x \in S : f[x] \in Int,
           NEW h, h = [s \in SUBSET S |-> IF s = {} THEN 0 ELSE f[Pick(s)] + h[s \ {Pick(s)}]]
    PROVE  h[S] = Total(f, S)
<1>. DEFINE B == {T \in SUBSET S : h[T] # Partial(f, S)[T]}
<1>1. SUFFICES ASSUME B # {} PROVE FALSE
    BY DEF Total
<1>2. PICK T \in B : \A X \in SUBSET T : X # T => X \notin B
    <2>1. B \in SUBSET (SUBSET S)
        OBVIOUS
    <2>. HIDE DEF B
    <2>. QED BY <1>1, <2>1, MinimalSet
<1>3. h[T] = IF T = {} THEN 0 ELSE f[Pick(T)] + h[T \ {Pick(T)}]
    OBVIOUS
<1>4. Partial(f, S)[T] = IF T = {} THEN 0 ELSE f[Pick(T)] + Partial(f, S)[T \ {Pick(T)}]
    <2>1. T \in SUBSET S
        OBVIOUS
    <2>. HIDE DEF B
    <2>. QED BY <2>1, PartialAt
<1>5. T # {}
    BY <1>3, <1>4
<1>6. Pick(T) \in T
    BY <1>5, PickIn
<1>7. h[T \ {Pick(T)}] = Partial(f, S)[T \ {Pick(T)}]
    BY <1>2, <1>6
<1>. QED BY <1>3, <1>4, <1>5, <1>7

-----------------------------------------------------------------------------
\* Cuts.

LEMMA SimpleFacts ==
    ASSUME NEW g, IsSimple(g)
    PROVE  /\ IsFiniteSet(Vertices(g)) /\ Vertices(g) \subseteq Nat
           /\ \A S \in SUBSET Vertices(g) : IsFiniteSet(S) /\ Cardinality(S) \in Nat
           /\ \A v \in Vertices(g) : g[v] \in SUBSET Vertices(g) /\ v \notin g[v]
           /\ \A u, v \in Vertices(g) : u \in g[v] => v \in g[u]
<1>1. \A S \in SUBSET Vertices(g) : IsFiniteSet(S) /\ Cardinality(S) \in Nat
    BY FS_Subset, FS_CardinalityType DEF IsSimple, Vertices
<1>2. \A v \in Vertices(g) : g[v] \in SUBSET Vertices(g) /\ v \notin g[v]
    BY DEF IsSimple, Vertices
<1>. QED BY <1>1, <1>2 DEF IsSimple, Vertices

CutPartial(g, S) ==
    CHOOSE h : h = [s \in SUBSET S |->
                       IF s = {} THEN 0 ELSE Cardinality(g[Pick(s)] \ S) + h[s \ {Pick(s)}]]
CutTerms(g, S) == [v \in S |-> Cardinality(g[v] \ S)]

LEMMA CutIsPartial == \A g, S : Cut(g, S) = CutPartial(g, S)[S]
BY DEF Cut, CutPartial, Pick, MapThenSumSet, MapThenFoldSet

LEMMA CutTermsInt ==
    ASSUME NEW g, IsSimple(g), NEW S \in SUBSET Vertices(g)
    PROVE  \A v \in S : CutTerms(g, S)[v] = Cardinality(g[v] \ S) /\ CutTerms(g, S)[v] \in Nat
<1>1. ASSUME NEW v \in S PROVE Cardinality(g[v] \ S) \in Nat
    <2>1. g[v] \ S \in SUBSET Vertices(g)
        BY SimpleFacts
    <2>. QED BY <2>1, SimpleFacts
<1>. QED BY <1>1 DEF CutTerms

LEMMA CutIsTotal ==
    ASSUME NEW g, IsSimple(g), NEW S \in SUBSET Vertices(g)
    PROVE  Cut(g, S) = Total(CutTerms(g, S), S)
<1>. DEFINE f == CutTerms(g, S)
            h == CutPartial(g, S)
            P == Partial(f, S)
<1>1. IsFiniteSet(S) /\ \A v \in S : f[v] = Cardinality(g[v] \ S) /\ f[v] \in Int
    BY SimpleFacts, CutTermsInt
<1>2. P = [s \in SUBSET S |-> IF s = {} THEN 0 ELSE f[Pick(s)] + P[s \ {Pick(s)}]]
    <2>. HIDE DEF f
    <2>. QED BY ZenonT(60), <1>1, PartialEquation
<1>3. \A s \in SUBSET S : s # {} => f[Pick(s)] = Cardinality(g[Pick(s)] \ S)
    BY <1>1, PickIn
<1>4. P = [s \in SUBSET S |-> IF s = {} THEN 0 ELSE Cardinality(g[Pick(s)] \ S) + P[s \ {Pick(s)}]]
    <2>. HIDE DEF f, P
    <2>. QED BY <1>2, <1>3
<1>5. h = [s \in SUBSET S |-> IF s = {} THEN 0 ELSE Cardinality(g[Pick(s)] \ S) + h[s \ {Pick(s)}]]
    <2>. HIDE DEF P
    <2>. QED BY <1>4 DEF CutPartial
<1>6. h = [s \in SUBSET S |-> IF s = {} THEN 0 ELSE f[Pick(s)] + h[s \ {Pick(s)}]]
    <2>. HIDE DEF f, h
    <2>. QED BY <1>5, <1>3
<1>7. h[S] = Total(f, S)
    <2>. HIDE DEF f, h
    <2>. QED BY <1>1, <1>6, SumIsTotal
<1>. QED BY <1>7, CutIsPartial

LEMMA CutNat ==
    ASSUME NEW g, IsSimple(g), NEW S \in SUBSET Vertices(g)
    PROVE  Cut(g, S) \in Nat
<1>1. IsFiniteSet(S) /\ \A v \in S : CutTerms(g, S)[v] \in Nat
    BY SimpleFacts, CutTermsInt
<1>. QED BY <1>1, TotalNat, CutIsTotal

LEMMA CutEnds ==
    ASSUME NEW g, IsSimple(g)
    PROVE  Cut(g, {}) = 0 /\ Cut(g, Vertices(g)) = 0
<1>1. Cut(g, {}) = 0
    BY CutIsTotal, TotalEmpty
<1>2. \A v \in Vertices(g) : CutTerms(g, Vertices(g))[v] = 0
    <2>1. \A v \in Vertices(g) : g[v] \ Vertices(g) = {}
        BY SimpleFacts
    <2>. QED BY <2>1, FS_EmptySet DEF CutTerms
<1>3. Total(CutTerms(g, Vertices(g)), Vertices(g)) = 0
    BY <1>2, TotalZero, SimpleFacts
<1>. QED BY <1>1, <1>3, CutIsTotal

\* Placing a vertex changes the cut by its degree less twice its neighbours that are
\* placed (VertexSet cuts, candidate deltas: decision_session.cpp, oracle.cpp).
THEOREM CutStep ==
    ASSUME NEW g, IsSimple(g), NEW S \in SUBSET Vertices(g), NEW v \in Vertices(g) \ S
    PROVE  /\ Cut(g, S \cup {v}) = Cut(g, S) + Degree(g, v) - 2 * Cardinality(g[v] \cap S)
           /\ Degree(g, v) \in Nat /\ Cardinality(g[v] \cap S) \in Nat
<1>. DEFINE T == S \cup {v}
            F == CutTerms(g, T)
            f == CutTerms(g, S)
            e == [u \in S |-> IF u \in g[v] THEN 1 ELSE 0]
<1>1. /\ T \in SUBSET Vertices(g) /\ T \ {v} = S /\ v \in T
      /\ IsFiniteSet(S) /\ IsFiniteSet(T)
    BY SimpleFacts
<1>2. /\ g[v] \in SUBSET Vertices(g) /\ v \notin g[v] /\ IsFiniteSet(g[v])
      /\ Degree(g, v) \in Nat /\ Cardinality(g[v] \cap S) \in Nat
    <2>1. g[v] \in SUBSET Vertices(g) /\ v \notin g[v] /\ g[v] \cap S \in SUBSET Vertices(g)
        BY SimpleFacts
    <2>. QED BY <2>1, SimpleFacts DEF Degree
<1>3. /\ \A u \in T : F[u] = Cardinality(g[u] \ T) /\ F[u] \in Nat
      /\ \A u \in S : f[u] = Cardinality(g[u] \ S) /\ f[u] \in Nat
    BY <1>1, CutTermsInt
<1>4. (\A u \in T : F[u] \in Int) /\ (\A u \in S : f[u] \in Int) /\ (\A u \in S : e[u] \in Int)
    <2>1. (\A u \in T : F[u] \in Nat) /\ (\A u \in S : f[u] \in Nat)
        BY <1>3
    <2>. HIDE DEF F, f
    <2>. QED BY <2>1
<1>. HIDE DEF F, f
<1>5. F[v] = Degree(g, v) - Cardinality(g[v] \cap S)
    <2>1. g[v] \ T = g[v] \ S
        BY <1>2
    <2>2. Cardinality(g[v] \ S) = Cardinality(g[v]) - Cardinality(g[v] \cap S)
        BY <1>2, FS_Difference
    <2>. QED BY <1>1, <1>3, <2>1, <2>2 DEF Degree
<1>6. \A u \in S : F[u] = f[u] - e[u]
    <2>. SUFFICES ASSUME NEW u \in S PROVE F[u] = f[u] - e[u]
        OBVIOUS
    <2>1. IsFiniteSet(g[u] \ S) /\ g[u] \ T = (g[u] \ S) \ {v} /\ (v \in g[u] \ S <=> u \in g[v])
        <3>1. g[u] \ S \in SUBSET Vertices(g)
            BY SimpleFacts
        <3>. QED BY <3>1, SimpleFacts
    <2>2. Cardinality((g[u] \ S) \ {v}) =
            IF v \in g[u] \ S THEN Cardinality(g[u] \ S) - 1 ELSE Cardinality(g[u] \ S)
        BY <2>1, FS_RemoveElement
    <2>3. F[u] = Cardinality(g[u] \ T) /\ f[u] = Cardinality(g[u] \ S) /\ f[u] \in Nat
        BY <1>3
    <2>4. F[u] = IF u \in g[v] THEN f[u] - 1 ELSE f[u]
        BY <2>1, <2>2, <2>3
    <2>. QED BY <2>3, <2>4
<1>7. \A u \in S : e[u] = IF u \in g[v] THEN 1 ELSE 0
    OBVIOUS
<1>. HIDE DEF e, T
<1>8. Total(e, S) = Cardinality(g[v] \cap S)
    <2>1. S \cap g[v] = g[v] \cap S
        OBVIOUS
    <2>. QED BY <1>1, <1>7, <2>1, TotalCounts
<1>9. Total(F, S) = Total(f, S) - Total(e, S)
    <2>1. \A u \in S : f[u] \in Int /\ e[u] \in Int /\ F[u] = f[u] - e[u]
        BY <1>4, <1>6
    <2>. QED BY <1>1, <2>1, TotalDifference
<1>10. Total(F, T) = F[v] + Total(F, S)
    <2>2. Total(F, T) = F[v] + Total(F, T \ {v})
        BY <1>1, <1>4, TotalWithout
    <2>. QED BY <1>1, <2>2
<1>11. Total(f, S) \in Nat
    BY <1>1, <1>3, TotalNat
<1>12. Cut(g, T) = Total(F, T) /\ Cut(g, S) = Total(f, S)
    BY <1>1, CutIsTotal DEF F, f
<1>13. Cut(g, T) = Cut(g, S) + Degree(g, v) - 2 * Cardinality(g[v] \cap S)
    BY <1>2, <1>5, <1>8, <1>9, <1>10, <1>11, <1>12
<1>. QED BY <1>2, <1>13 DEF T

\* The edges of one vertex across the cut are some of it.
LEMMA CutAtLeast ==
    ASSUME NEW g, IsSimple(g), NEW S \in SUBSET Vertices(g)
    PROVE  /\ \A v \in Vertices(g) \ S : Cardinality(g[v] \cap S) <= Cut(g, S)
           /\ \A v \in S : Cardinality(g[v] \ S) <= Cut(g, S)
<1>. DEFINE f == CutTerms(g, S)
<1>1. /\ IsFiniteSet(S) /\ Cut(g, S) = Total(f, S)
      /\ \A u \in S : f[u] = Cardinality(g[u] \ S) /\ f[u] \in Nat
    BY SimpleFacts, CutTermsInt, CutIsTotal
<1>. HIDE DEF f
<1>2. \A u \in S : f[u] \in Nat
    BY <1>1
<1>3. \A u \in S : f[u] \in Int
    BY <1>2
<1>4. ASSUME NEW v \in Vertices(g) \ S PROVE Cardinality(g[v] \cap S) <= Cut(g, S)
    <2>. DEFINE e == [u \in S |-> IF u \in g[v] THEN 1 ELSE 0]
    <2>1. Total(e, S) = Cardinality(g[v] \cap S)
        <3>1. \A u \in S : e[u] = IF u \in g[v] THEN 1 ELSE 0
            OBVIOUS
        <3>. HIDE DEF e
        <3>2. Total(e, S) = Cardinality(S \cap g[v])
            BY <1>1, <3>1, TotalCounts
        <3>3. S \cap g[v] = g[v] \cap S
            OBVIOUS
        <3>. QED BY <3>2, <3>3
    <2>2. \A u \in S : e[u] \in Int /\ f[u] \in Int /\ e[u] <= f[u]
        <3>. SUFFICES ASSUME NEW u \in S, u \in g[v] PROVE f[u] >= 1
            BY <1>2
        <3>1. v \in g[u] \ S /\ g[u] \ S \in SUBSET Vertices(g)
            BY SimpleFacts
        <3>2. IsFiniteSet(g[u] \ S) /\ g[u] \ S # {}
            BY <3>1, SimpleFacts
        <3>. QED BY <1>1, <3>2, FS_EmptySet
    <2>3. Total(e, S) <= Total(f, S)
        <3>. HIDE DEF e
        <3>. QED BY <1>1, <2>2, TotalsOrdered
    <2>. QED BY <1>1, <2>1, <2>3
<1>5. ASSUME NEW v \in S PROVE Cardinality(g[v] \ S) <= Cut(g, S)
    <2>1. IsFiniteSet(S \ {v})
        BY <1>1, FS_RemoveElement
    <2>2. Total(f, S) = f[v] + Total(f, S \ {v})
        BY <1>1, <1>3, TotalWithout
    <2>3. Total(f, S \ {v}) \in Nat
        BY <1>2, <2>1, TotalNat
    <2>4. f[v] = Cardinality(g[v] \ S) /\ f[v] \in Nat
        BY <1>1
    <2>. QED BY <1>1, <2>2, <2>3, <2>4
<1>. QED BY <1>4, <1>5

-----------------------------------------------------------------------------
\* The exact value of a prefix.

LEMMA ImageFinite ==
    ASSUME NEW A, IsFiniteSet(A), NEW f
    PROVE  IsFiniteSet({f[x] : x \in A})
<1>. DEFINE F == [x \in A |-> f[x]]
            B == {f[x] : x \in A}
<1>1. F \in Surjection(A, B)
    BY DEF Surjection
<1>. QED BY <1>1, FS_Surjection

\* The larger of a number and the least of some is at most k if the number is and
\* one of them.
LEMMA MaxMin ==
    ASSUME NEW c \in Nat, NEW M \in SUBSET Nat, IsFiniteSet(M), M # {}
    PROVE  /\ Max({c, Min(M)}) \in Nat
           /\ \A k \in Int : Max({c, Min(M)}) <= k <=> c <= k /\ \E m \in M : m <= k
<1>1. Min(M) \in M /\ \A m \in M : Min(M) <= m
    BY MinIs
<1>. DEFINE m == Min(M)
            C == {c, m}
<1>2. m \in Nat
    BY <1>1
<1>3. IsFiniteSet(C) /\ C # {} /\ C \in SUBSET Int
    <2>1. IsFiniteSet({c})
        BY FS_Singleton
    <2>2. IsFiniteSet({c} \cup {m})
        BY <2>1, FS_AddElement
    <2>3. C = {c} \cup {m}
        OBVIOUS
    <2>. QED BY <1>2, <2>2, <2>3
<1>4. Max(C) \in C /\ \A x \in C : x <= Max(C)
    <2>. HIDE DEF C
    <2>. QED BY <1>3, MaxIs
<1>5. Max(C) \in {c, m} /\ c <= Max(C) /\ m <= Max(C)
    BY <1>4
<1>6. Max(C) \in Nat
    BY <1>2, <1>5
<1>7. ASSUME NEW k \in Int
      PROVE  Max(C) <= k <=> c <= k /\ \E x \in M : x <= k
    <2>1. Max(C) <= k <=> c <= k /\ m <= k
        <3>. HIDE DEF C, m
        <3>. QED BY <1>2, <1>5, <1>6
    <2>2. m <= k <=> \E x \in M : x <= k
        <3>. HIDE DEF C
        <3>. QED BY <1>1, <1>2
    <2>. QED BY <2>1, <2>2
<1>. QED BY <1>6, <1>7

\* The values that x gives the prefixes one vertex longer than T.
Longer(g, T, x) == {x[T \cup {v}] : v \in Vertices(g) \ T}
HorizonAt(g, S, d, T, x) ==
    IF T = Vertices(g) \/ Cardinality(T \ S) >= d THEN Cut(g, T)
    ELSE Max({Cut(g, T), Min(Longer(g, T, x))})
HorizonFn(g, S, d) ==
    CHOOSE x : x = [T \in SUBSET Vertices(g) |-> HorizonAt(g, S, d, T, x)]

LEMMA HorizonIsFn == \A g, S, d : FiniteHorizon(g, S, d) = HorizonFn(g, S, d)[S]
BY DEF FiniteHorizon, HorizonFn, HorizonAt, Longer

LEMMA LongerNat ==
    ASSUME NEW g, IsSimple(g), NEW T \in SUBSET Vertices(g), T # Vertices(g), NEW x,
           \A v \in Vertices(g) \ T : x[T \cup {v}] \in Nat
    PROVE  Longer(g, T, x) \in SUBSET Nat /\ IsFiniteSet(Longer(g, T, x)) /\ Longer(g, T, x) # {}
<1>. DEFINE A == Vertices(g) \ T
            f == [v \in A |-> x[T \cup {v}]]
<1>1. IsFiniteSet(A)
    BY SimpleFacts
<1>2. Longer(g, T, x) = {f[v] : v \in A}
    BY DEF Longer
<1>3. IsFiniteSet({f[v] : v \in A})
    <2>. HIDE DEF f, A
    <2>. QED BY <1>1, ImageFinite
<1>. QED BY <1>2, <1>3 DEF Longer

LEMMA HorizonNat ==
    ASSUME NEW g, IsSimple(g), NEW S, NEW d, NEW T \in SUBSET Vertices(g), NEW x,
           \A v \in Vertices(g) \ T : x[T \cup {v}] \in Nat
    PROVE  HorizonAt(g, S, d, T, x) \in Nat
<1>1. Cut(g, T) \in Nat
    BY CutNat
<1>2. T # Vertices(g) => Max({Cut(g, T), Min(Longer(g, T, x))}) \in Nat
    BY <1>1, LongerNat, MaxMin
<1>. QED BY <1>1, <1>2 DEF HorizonAt

LEMMA HorizonEquation ==
    ASSUME NEW g, IsSimple(g), NEW S, NEW d
    PROVE  \A T \in SUBSET Vertices(g) :
               /\ HorizonFn(g, S, d)[T] = HorizonAt(g, S, d, T, HorizonFn(g, S, d))
               /\ HorizonFn(g, S, d)[T] \in Nat
<1>. DEFINE V == Vertices(g)
            X == SUBSET V
            rank == [T \in X |-> Cardinality(V \ T)]
            D == [T \in X |-> [x \in [X -> Nat] |-> HorizonAt(g, S, d, T, x)]]
            h == HorizonFn(g, S, d)
<1>1. Cardinality(V) \in Nat /\ \A T \in X : rank[T] \in 0 .. Cardinality(V)
    <2>1. \A T \in X : Cardinality(V \ T) <= Cardinality(V)
        BY SimpleFacts, FS_Subset
    <2>. QED BY <2>1, SimpleFacts
<1>2. \A T \in X : \A v \in V \ T : T \cup {v} \in X /\ rank[T \cup {v}] < rank[T]
    <2>. SUFFICES ASSUME NEW T \in X, NEW v \in V \ T
                  PROVE  Cardinality(V \ (T \cup {v})) < Cardinality(V \ T)
        OBVIOUS
    <2>1. V \ (T \cup {v}) = (V \ T) \ {v} /\ v \in V \ T
        OBVIOUS
    <2>2. IsFiniteSet(V \ T) /\ Cardinality(V \ T) \in Nat
        BY SimpleFacts
    <2>3. Cardinality((V \ T) \ {v}) = Cardinality(V \ T) - 1
        BY <2>1, <2>2, FS_RemoveElement
    <2>. QED BY <2>1, <2>2, <2>3
<1>3. \A T \in X : \A x \in [X -> Nat] : D[T][x] \in Nat
    <2>. SUFFICES ASSUME NEW T \in X, NEW x \in [X -> Nat] PROVE HorizonAt(g, S, d, T, x) \in Nat
        OBVIOUS
    <2>. QED BY HorizonNat
<1>4. ASSUME NEW T \in X, NEW x \in [X -> Nat], NEW y \in [X -> Nat],
             \A U \in X : rank[U] < rank[T] => x[U] = y[U]
      PROVE  D[T][x] = D[T][y]
    <2>. HIDE DEF rank, V
    <2>1. \A v \in V \ T : x[T \cup {v}] = y[T \cup {v}]
        BY <1>2, <1>4
    <2>2. Longer(g, T, x) = Longer(g, T, y)
        BY <2>1 DEF Longer, V
    <2>. QED BY <2>2 DEF HorizonAt
<1>5. PICK f \in [X -> Nat] : \A T \in X : f[T] = D[T][f]
    <2>1. Ranked(X, Nat, rank, Cardinality(V), D)
        <3>. HIDE DEF rank, D, V, X
        <3>. QED BY <1>1, <1>3, <1>4 DEF Ranked
    <2>. HIDE DEF rank, D, X, V
    <2>. QED BY <1>1, <2>1, RankedRecursion
<1>6. f = [T \in X |-> HorizonAt(g, S, d, T, f)]
    BY <1>5
<1>7. h = [T \in X |-> HorizonAt(g, S, d, T, h)]
    BY <1>6 DEF HorizonFn
<1>. HIDE DEF h
<1>8. \A T \in X : h[T] = HorizonAt(g, S, d, T, h)
    BY <1>7
<1>. DEFINE B == {T \in X : h[T] \notin Nat}
<1>9. B = {}
    <2>. SUFFICES ASSUME B # {} PROVE FALSE
        OBVIOUS
    <2>1. PICK T \in B : \A U \in X : T \subseteq U /\ T # U => U \notin B
        <3>1. B \in SUBSET (SUBSET V) /\ IsFiniteSet(V)
            BY SimpleFacts
        <3>. HIDE DEF B, V
        <3>. QED BY <3>1, MaximalSet
    <2>2. \A v \in V \ T : h[T \cup {v}] \in Nat
        BY <2>1
    <2>3. HorizonAt(g, S, d, T, h) \in Nat
        BY <2>2, HorizonNat
    <2>. QED BY <1>8, <2>3
<1>. QED BY <1>8, <1>9 DEF h

ExactFn(g) == HorizonFn(g, {}, Cardinality(Vertices(g)))

LEMMA HorizonsMeet ==
    ASSUME NEW g, IsSimple(g), NEW S \in SUBSET Vertices(g), NEW T \in SUBSET Vertices(g)
    PROVE  HorizonFn(g, S, Cardinality(Vertices(g)))[T] = ExactFn(g)[T]
<1>. DEFINE V == Vertices(g)
            n == Cardinality(V)
            h == HorizonFn(g, S, n)
            e == ExactFn(g)
            B == {U \in SUBSET V : h[U] # e[U]}
<1>1. /\ \A U \in SUBSET V : h[U] = HorizonAt(g, S, n, U, h)
      /\ \A U \in SUBSET V : e[U] = HorizonAt(g, {}, n, U, e)
    BY HorizonEquation DEF ExactFn
<1>2. \A U \in SUBSET V : U # V => /\ ~(Cardinality(U \ S) >= n)
                                   /\ ~(Cardinality(U \ {}) >= n)
    <2>. SUFFICES ASSUME NEW U \in SUBSET V, U # V
                  PROVE  Cardinality(U) < n /\ Cardinality(U \ S) <= Cardinality(U)
                         /\ Cardinality(U \ S) \in Nat /\ Cardinality(U) \in Nat /\ n \in Nat
                         /\ U \ {} = U
        OBVIOUS
    <2>1. Cardinality(U) <= n /\ (Cardinality(V) = Cardinality(U) => V = U)
        BY SimpleFacts, FS_Subset
    <2>2. Cardinality(U \ S) \in Nat /\ Cardinality(U) \in Nat /\ n \in Nat /\ IsFiniteSet(U)
        BY SimpleFacts
    <2>3. Cardinality(U \ S) <= Cardinality(U)
        BY <2>2, FS_Subset
    <2>. QED BY <2>1, <2>2, <2>3
<1>3. B = {}
    <2>. SUFFICES ASSUME B # {} PROVE FALSE
        OBVIOUS
    <2>1. PICK U \in B : \A W \in SUBSET V : U \subseteq W /\ U # W => W \notin B
        <3>1. B \in SUBSET (SUBSET V) /\ IsFiniteSet(V)
            BY SimpleFacts
        <3>. HIDE DEF B, V
        <3>. QED BY <3>1, MaximalSet
    <2>2. \A v \in V \ U : h[U \cup {v}] = e[U \cup {v}]
        BY <2>1
    <2>. HIDE DEF h, e
    <2>3. Longer(g, U, h) = Longer(g, U, e)
        BY <2>2 DEF Longer
    <2>4. HorizonAt(g, S, n, U, h) = HorizonAt(g, {}, n, U, e)
        BY <1>2, <2>3 DEF HorizonAt
    <2>. QED BY <1>1, <2>4
<1>. QED BY <1>3

LEMMA CompletionIsExact ==
    ASSUME NEW g, IsSimple(g), NEW T \in SUBSET Vertices(g)
    PROVE  Completion(g, T) = ExactFn(g)[T]
BY HorizonsMeet, HorizonIsFn DEF Completion

\* A prefix fits a threshold if it keeps it itself and, unless all is placed, one
\* vertex more fits it. Everything below speaks of the exact value in this way.
Fits(g, k, T) == Completion(g, T) <= k

\* A prefix can be completed within a threshold if it keeps it itself and, unless all
\* is placed, one vertex more can: what every search of the solver branches on.
THEOREM FitsStep ==
    ASSUME NEW g, IsSimple(g), NEW T \in SUBSET Vertices(g)
    PROVE  /\ Completion(g, T) \in Nat
           /\ \A k \in Int : Fits(g, k, T) <=>
                 /\ Cut(g, T) <= k
                 /\ T = Vertices(g) \/ \E v \in Vertices(g) \ T : Fits(g, k, T \cup {v})
<1>. DEFINE V == Vertices(g)
            n == Cardinality(V)
            e == ExactFn(g)
<1>1. \A U \in SUBSET V : Completion(g, U) = e[U]
    BY CompletionIsExact
<1>2. \A U \in SUBSET V : e[U] = HorizonAt(g, {}, n, U, e) /\ e[U] \in Nat
    BY HorizonEquation DEF ExactFn
<1>. HIDE DEF e
<1>3. e[T] = HorizonAt(g, {}, n, T, e)
    BY <1>2
<1>4. Cut(g, T) \in Nat
    BY CutNat
<1>5. \A v \in V \ T : T \cup {v} \in SUBSET V
    OBVIOUS
<1>6. CASE T = V
    BY <1>1, <1>3, <1>4, <1>6 DEF HorizonAt, Fits
<1>7. CASE T # V
    <2>1. T \ {} = T /\ ~(Cardinality(T) >= n)
        <3>1. Cardinality(T) <= n /\ (Cardinality(V) = Cardinality(T) => V = T)
            BY SimpleFacts, FS_Subset
        <3>2. Cardinality(T) \in Nat /\ n \in Nat
            BY SimpleFacts
        <3>. QED BY <1>7, <3>1, <3>2
    <2>2. e[T] = Max({Cut(g, T), Min(Longer(g, T, e))})
        BY <1>3, <1>7, <2>1 DEF HorizonAt
    <2>3. /\ Longer(g, T, e) \in SUBSET Nat /\ IsFiniteSet(Longer(g, T, e))
          /\ Longer(g, T, e) # {}
        BY <1>2, <1>5, <1>7, LongerNat
    <2>4. \A k \in Int : e[T] <= k <=> Cut(g, T) <= k /\ \E m \in Longer(g, T, e) : m <= k
        BY <1>4, <2>2, <2>3, MaxMin
    <2>5. \A k : (\E m \in Longer(g, T, e) : m <= k) <=> \E v \in V \ T : e[T \cup {v}] <= k
        BY DEF Longer
    <2>6. \A k : (\E v \in V \ T : e[T \cup {v}] <= k) <=> \E v \in V \ T : Fits(g, k, T \cup {v})
        BY <1>1, <1>5 DEF Fits
    <2>7. \A k \in Int : Fits(g, k, T) <=> e[T] <= k
        BY <1>1 DEF Fits
    <2>8. Completion(g, T) \in Nat
        BY <1>1, <1>2
    <2>. QED BY <1>7, <2>4, <2>5, <2>6, <2>7, <2>8
<1>. QED BY <1>6, <1>7

\* The finite horizon of the node memo bounds the exact value from below
\* (FiniteHorizonOracle, node_memo.cpp).
THEOREM HorizonBelow ==
    ASSUME NEW g, IsSimple(g), NEW S \in SUBSET Vertices(g), NEW d
    PROVE  FiniteHorizon(g, S, d) \in Nat /\ FiniteHorizon(g, S, d) <= Completion(g, S)
<1>. DEFINE V == Vertices(g)
            h == HorizonFn(g, S, d)
            B == {T \in SUBSET V : ~(h[T] <= Completion(g, T))}
<1>1. \A T \in SUBSET V : h[T] = HorizonAt(g, S, d, T, h) /\ h[T] \in Nat
    BY HorizonEquation
<1>2. B = {}
    <2>. SUFFICES ASSUME B # {} PROVE FALSE
        OBVIOUS
    <2>1. PICK T \in B : \A U \in SUBSET V : T \subseteq U /\ T # U => U \notin B
        <3>1. B \in SUBSET (SUBSET V) /\ IsFiniteSet(V)
            BY SimpleFacts
        <3>. HIDE DEF B, V
        <3>. QED BY <3>1, MaximalSet
    <2>2. \A v \in V \ T : h[T \cup {v}] <= Completion(g, T \cup {v})
        BY <2>1
    <2>. DEFINE k == Completion(g, T)
    <2>3. T \in SUBSET V /\ ~(h[T] <= k)
        OBVIOUS
    <2>. HIDE DEF B, h
    <2>4. k \in Nat /\ Cut(g, T) <= k /\ Cut(g, T) \in Nat
        <3>1. k \in Nat /\ Fits(g, k, T)
            BY <2>3, FitsStep DEF Fits
        <3>. QED BY <2>3, <3>1, FitsStep, CutNat
    <2>5. h[T] = HorizonAt(g, S, d, T, h)
        BY <1>1, <2>3
    <2>6. T # V /\ h[T] = Max({Cut(g, T), Min(Longer(g, T, h))})
        BY <2>3, <2>4, <2>5 DEF HorizonAt
    <2>7. PICK v \in V \ T : Completion(g, T \cup {v}) <= k
        <3>1. Fits(g, k, T) /\ k \in Int
            BY <2>4 DEF Fits
        <3>. QED BY <2>3, <2>6, <3>1, FitsStep DEF Fits
    <2>8. h[T \cup {v}] <= k
        <3>1. T \cup {v} \in SUBSET V
            BY <2>3
        <3>2. h[T \cup {v}] \in Nat /\ Completion(g, T \cup {v}) \in Nat
            BY <1>1, <3>1, FitsStep
        <3>3. h[T \cup {v}] <= Completion(g, T \cup {v})
            BY <2>2
        <3>. QED BY <2>4, <2>7, <3>2, <3>3
    <2>9. /\ Longer(g, T, h) \in SUBSET Nat /\ IsFiniteSet(Longer(g, T, h))
          /\ Longer(g, T, h) # {} /\ \E m \in Longer(g, T, h) : m <= k
        <3>1. \A u \in V \ T : h[T \cup {u}] \in Nat
            BY <1>1, <2>3
        <3>2. h[T \cup {v}] \in Longer(g, T, h)
            BY DEF Longer
        <3>. QED BY <2>3, <2>6, <2>8, <3>1, <3>2, LongerNat
    <2>10. h[T] <= k
        BY <2>4, <2>6, <2>9, MaxMin
    <2>. QED BY <2>3, <2>10
<1>. QED BY <1>1, <1>2, HorizonIsFn

-----------------------------------------------------------------------------
\* Twins.

Twin(g, u, v) == u # v /\ (EqualOpen(g, u, v) \/ EqualClosed(g, u, v))

LEMMA TwinCut ==
    ASSUME NEW g, IsSimple(g), NEW u \in Vertices(g), NEW v \in Vertices(g), Twin(g, u, v),
           NEW T \in SUBSET Vertices(g), v \in T, u \notin T
    PROVE  Cut(g, (T \ {v}) \cup {u}) = Cut(g, T)
<1>. DEFINE R == T \ {v}
<1>1. /\ R \in SUBSET Vertices(g) /\ u \in Vertices(g) \ R /\ v \in Vertices(g) \ R
      /\ R \cup {v} = T
    OBVIOUS
<1>2. /\ IsFiniteSet(g[u]) /\ IsFiniteSet(g[v]) /\ u \notin g[u] /\ v \notin g[v]
      /\ Cardinality(g[u]) \in Nat /\ Cardinality(g[v]) \in Nat
    BY SimpleFacts
<1>3. g[u] \cap R = g[v] \cap R
    BY DEF Twin, EqualOpen, EqualClosed
<1>4. Degree(g, u) = Degree(g, v)
    <2>1. CASE EqualOpen(g, u, v)
        BY <2>1 DEF EqualOpen, Degree
    <2>2. CASE EqualClosed(g, u, v)
        <3>1. Cardinality(g[u] \cup {u}) = Cardinality(g[u]) + 1
            BY <1>2, FS_AddElement
        <3>2. Cardinality(g[v] \cup {v}) = Cardinality(g[v]) + 1
            BY <1>2, FS_AddElement
        <3>3. g[u] \cup {u} = g[v] \cup {v}
            BY <2>2 DEF EqualClosed
        <3>4. Cardinality(g[u]) + 1 = Cardinality(g[v]) + 1
            BY <3>1, <3>2, <3>3
        <3>. HIDE DEF R
        <3>. QED BY <1>2, <3>4 DEF Degree
    <2>. QED BY <2>1, <2>2 DEF Twin
<1>. HIDE DEF R
<1>5. /\ Cut(g, R \cup {v}) = Cut(g, R) + Degree(g, v) - 2 * Cardinality(g[v] \cap R)
      /\ Cut(g, R \cup {u}) = Cut(g, R) + Degree(g, u) - 2 * Cardinality(g[u] \cap R)
    BY <1>1, CutStep
<1>6. Cut(g, R \cup {v}) = Cut(g, R \cup {u})
    BY <1>3, <1>4, <1>5
<1>. QED BY <1>1, <1>6 DEF R

\* A placed vertex may be exchanged for a twin that is not: the completions of the
\* prefix are as narrow (twin reduction of the searches).
THEOREM TwinSwap ==
    ASSUME NEW g, IsSimple(g), NEW k \in Int,
           NEW u \in Vertices(g), NEW v \in Vertices(g), Twin(g, u, v),
           NEW T \in SUBSET Vertices(g), v \in T, u \notin T, Fits(g, k, T)
    PROVE  Fits(g, k, (T \ {v}) \cup {u})
<1>. DEFINE V == Vertices(g)
            Other(U) == (U \ {v}) \cup {u}
            B == {U \in SUBSET V : /\ v \in U /\ u \notin U
                                   /\ Fits(g, k, U) /\ ~Fits(g, k, Other(U))}
<1>1. SUFFICES ASSUME B # {} PROVE FALSE
    OBVIOUS
<1>2. PICK U \in B : \A W \in SUBSET V : U \subseteq W /\ U # W => W \notin B
    <2>1. B \in SUBSET (SUBSET V) /\ IsFiniteSet(V)
        BY SimpleFacts
    <2>. HIDE DEF B, V
    <2>. QED BY <1>1, <2>1, MaximalSet
<1>3. /\ U \in SUBSET V /\ v \in U /\ u \notin U /\ U # V
      /\ Fits(g, k, U) /\ ~Fits(g, k, Other(U)) /\ Other(U) \in SUBSET V
    OBVIOUS
<1>4. PICK w \in V \ U : Fits(g, k, U \cup {w})
    BY <1>3, FitsStep
<1>5. Cut(g, Other(U)) <= k
    <2>1. Cut(g, U) <= k
        BY <1>3, FitsStep
    <2>2. Cut(g, Other(U)) = Cut(g, U)
        BY <1>3, TwinCut
    <2>. QED BY <2>1, <2>2
<1>6. \A x \in V \ Other(U) : ~Fits(g, k, Other(U) \cup {x})
    <2>. HIDE DEF Other, B
    <2>. QED BY <1>3, <1>5, FitsStep
<1>7. CASE w = u
    <2>1. U \cup {w} = Other(U) \cup {v} /\ v \in V \ Other(U)
        BY <1>3, <1>7 DEF Twin
    <2>. QED BY <1>4, <1>6, <2>1
<1>8. CASE w # u
    <2>1. /\ U \cup {w} \in SUBSET V /\ v \in U \cup {w} /\ u \notin U \cup {w}
          /\ U \cup {w} # U /\ w \in V \ Other(U)
        BY <1>3, <1>4, <1>8
    <2>2. Other(U \cup {w}) = Other(U) \cup {w}
        BY <1>3, <1>4
    <2>3. Fits(g, k, Other(U \cup {w}))
        BY <1>2, <1>4, <2>1
    <2>. QED BY <1>6, <2>1, <2>2, <2>3
<1>. QED BY <1>7, <1>8

\* The twins a search may drop: those that are, with smaller numbers.
Dropped(g, twins) == \A v \in Vertices(g) : twins[v] \subseteq EarlierTwins(g)[v]

\* Twin reduction is safe: of the children of a prefix that fits one fits that no rule
\* on twins blocks.
THEOREM FreeChild ==
    ASSUME NEW g, IsSimple(g), NEW k \in Int, NEW twins, Dropped(g, twins),
           NEW P \in SUBSET Vertices(g), P # Vertices(g), Fits(g, k, P)
    PROVE  \E v \in Vertices(g) \ P : ~TwinBlocked(twins, P, v) /\ Fits(g, k, P \cup {v})
<1>. DEFINE S == {v \in Vertices(g) \ P : Fits(g, k, P \cup {v})}
<1>1. S # {}
    BY FitsStep
<1>2. S \in SUBSET Nat
    BY SimpleFacts
<1>3. PICK m \in S : \A v \in S : m <= v
    <2>. HIDE DEF S
    <2>. QED BY <1>1, <1>2, Least
<1>4. ASSUME NEW u \in twins[m], u \notin P PROVE FALSE
    <2>1. u \in Vertices(g) /\ u < m /\ Twin(g, u, m)
        <3>1. u \in EarlierTwins(g)[m] /\ m \in Vertices(g) /\ m \in Nat
            BY SimpleFacts DEF Dropped
        <3>. QED BY <3>1, SimpleFacts DEF EarlierTwins, Twin
    <2>. DEFINE T == P \cup {m}
    <2>2. T \in SUBSET Vertices(g) /\ m \in T /\ u \notin T /\ Fits(g, k, T) /\ m \in Vertices(g)
        BY <1>4, <2>1 DEF Twin
    <2>3. Fits(g, k, (T \ {m}) \cup {u})
        <3>. HIDE DEF T
        <3>. QED BY <2>1, <2>2, TwinSwap
    <2>4. (T \ {m}) \cup {u} = P \cup {u}
        OBVIOUS
    <2>5. u \in S
        BY <1>4, <2>1, <2>3, <2>4
    <2>. HIDE DEF S
    <2>. QED BY <1>2, <1>3, <2>1, <2>5
<1>. QED BY <1>3, <1>4 DEF TwinBlocked

-----------------------------------------------------------------------------
\* The bound by residual degrees.

LEMMA DegreeFits ==
    ASSUME NEW g, IsSimple(g), NEW k \in Int,
           NEW P \in SUBSET Vertices(g), Fits(g, k, P), NEW v \in Vertices(g) \ P
    PROVE  Degree(g, v) <= 2 * k
<1>. DEFINE V == Vertices(g)
            B == {Q \in SUBSET V : v \notin Q /\ Fits(g, k, Q)}
<1>1. PICK Q \in B : \A W \in SUBSET V : Q \subseteq W /\ Q # W => W \notin B
    <2>1. B \in SUBSET (SUBSET V) /\ IsFiniteSet(V) /\ P \in B
        BY SimpleFacts
    <2>. HIDE DEF B, V
    <2>. QED BY <2>1, MaximalSet
<1>2. Q \in SUBSET V /\ v \notin Q /\ Fits(g, k, Q) /\ Q # V /\ v \in V \ Q
    OBVIOUS
<1>3. PICK w \in V \ Q : Fits(g, k, Q \cup {w})
    BY <1>2, FitsStep
<1>4. w = v
    <2>1. Q \cup {w} \in SUBSET V /\ Q \subseteq Q \cup {w} /\ Q # Q \cup {w}
        BY <1>2, <1>3
    <2>. QED BY <1>1, <1>3, <2>1
<1>5. Q \cup {v} \in SUBSET V /\ v \in Q \cup {v}
    BY <1>2
<1>6. Cut(g, Q) <= k /\ Cut(g, Q \cup {v}) <= k /\ Cut(g, Q) \in Nat /\ Cut(g, Q \cup {v}) \in Nat
    BY <1>2, <1>3, <1>4, <1>5, FitsStep, CutNat
<1>7. Cardinality(g[v] \cap Q) <= Cut(g, Q)
    BY <1>2, CutAtLeast
<1>8. Cardinality(g[v] \ (Q \cup {v})) <= Cut(g, Q \cup {v})
    BY <1>5, CutAtLeast
<1>9. /\ IsFiniteSet(g[v]) /\ g[v] \ (Q \cup {v}) = g[v] \ Q
      /\ Cardinality(g[v] \cap Q) \in Nat /\ Cardinality(g[v]) \in Nat
    <2>1. g[v] \in SUBSET V /\ v \notin g[v] /\ g[v] \cap Q \in SUBSET V
        BY SimpleFacts
    <2>. QED BY <2>1, SimpleFacts
<1>10. Cardinality(g[v] \ Q) = Cardinality(g[v]) - Cardinality(g[v] \cap Q)
    BY <1>9, FS_Difference
<1>. HIDE DEF B, V
<1>11. Cardinality(g[v] \ Q) <= k /\ Cardinality(g[v] \cap Q) <= k
    <2>1. Cardinality(g[v] \ Q) \in Int
        BY <1>9, <1>10
    <2>2. Cardinality(g[v] \ Q) <= Cut(g, Q \cup {v})
        BY <1>8, <1>9
    <2>. QED BY <1>6, <1>7, <1>9, <2>1, <2>2
<1>. QED BY <1>9, <1>10, <1>11 DEF Degree

LEMMA ResidualDegrees ==
    ASSUME NEW g, IsSimple(g), NEW P \in SUBSET Vertices(g)
    PROVE  /\ \A v \in Vertices(g) : ResidualDegree(g, P, v) \in Nat /\ ResidualDegree(g, P, v) <= Degree(g, v)
           /\ MaximumDegree(g, P) \in {0} \cup {ResidualDegree(g, P, v) : v \in Remaining(g, P)}
           /\ \A v \in Remaining(g, P) : ResidualDegree(g, P, v) <= MaximumDegree(g, P)
           /\ MaximumDegree(g, P) \in Nat
<1>. DEFINE A == {ResidualDegree(g, P, v) : v \in Remaining(g, P)}
            f == [v \in Remaining(g, P) |-> ResidualDegree(g, P, v)]
<1>1. \A v \in Vertices(g) : ResidualDegree(g, P, v) \in Nat /\ ResidualDegree(g, P, v) <= Degree(g, v)
    <2>. SUFFICES ASSUME NEW v \in Vertices(g)
                  PROVE  Cardinality(g[v] \ P) \in Nat /\ Cardinality(g[v] \ P) <= Cardinality(g[v])
        BY DEF ResidualDegree, Degree
    <2>1. g[v] \in SUBSET Vertices(g) /\ g[v] \ P \in SUBSET Vertices(g) /\ g[v] \ P \in SUBSET g[v]
        BY SimpleFacts
    <2>2. IsFiniteSet(g[v]) /\ Cardinality(g[v] \ P) \in Nat
        BY <2>1, SimpleFacts
    <2>. QED BY <2>1, <2>2, FS_Subset
<1>2. Remaining(g, P) \in SUBSET Vertices(g)
    BY DEF Remaining
<1>3. IsFiniteSet(A)
    <2>1. IsFiniteSet(Remaining(g, P))
        BY <1>2, SimpleFacts
    <2>2. IsFiniteSet({f[v] : v \in Remaining(g, P)})
        <3>. HIDE DEF f
        <3>. QED BY <2>1, ImageFinite
    <2>3. A = {f[v] : v \in Remaining(g, P)}
        OBVIOUS
    <2>. QED BY <2>2, <2>3
<1>. DEFINE M == {0} \cup A
<1>4. M \in SUBSET Nat
    BY <1>1, <1>2
<1>5. IsFiniteSet(M) /\ M # {} /\ M \in SUBSET Int
    <2>1. IsFiniteSet(A \cup {0})
        BY <1>3, FS_AddElement
    <2>2. M = A \cup {0}
        OBVIOUS
    <2>. QED BY <1>4, <2>1, <2>2
<1>6. Max(M) \in M /\ \A x \in M : x <= Max(M)
    <2>. HIDE DEF M
    <2>. QED BY <1>5, MaxIs
<1>7. MaximumDegree(g, P) = Max(M)
    BY DEF MaximumDegree
<1>. QED BY <1>1, <1>4, <1>6, <1>7

\* The bound by the largest residual degree refutes only what does not fit
\* (partial_bounds.cpp).
THEOREM ResidualDegreeSound ==
    ASSUME NEW g, IsSimple(g), NEW k \in Int, NEW P \in SUBSET Vertices(g),
           DegreeBound(MaximumDegree(g, P)) > k
    PROVE  ~Fits(g, k, P)
<1>. SUFFICES ASSUME Fits(g, k, P) PROVE FALSE
    OBVIOUS
<1>. DEFINE m == MaximumDegree(g, P)
<1>1. k >= 0
    <2>1. Cut(g, P) <= k
        BY FitsStep
    <2>2. Cut(g, P) \in Nat
        BY CutNat
    <2>. QED BY <2>1, <2>2
<1>2. m \in Nat /\ m <= 2 * k
    <2>1. m \in Nat
        BY ResidualDegrees
    <2>2. CASE m = 0
        BY <1>1, <2>2
    <2>3. CASE m # 0
        <3>1. PICK v \in Remaining(g, P) : m = ResidualDegree(g, P, v)
            BY <2>3, ResidualDegrees
        <3>2. v \in Vertices(g) \ P /\ v \in Vertices(g)
            BY DEF Remaining
        <3>3. Degree(g, v) <= 2 * k /\ Degree(g, v) \in Nat
            BY <3>2, DegreeFits, CutStep
        <3>4. m <= Degree(g, v)
            BY <3>1, <3>2, ResidualDegrees
        <3>. QED BY <2>1, <3>3, <3>4
    <2>. QED BY <2>1, <2>2, <2>3
<1>. HIDE DEF m
<1>3. (m + 1) \div 2 <= k
    BY <1>1, <1>2
<1>4. DegreeBound(m) <= k /\ DegreeBound(m) \in Int
    BY <1>2, <1>3 DEF DegreeBound
<1>5. DegreeBound(m) > k
    BY DEF m
<1>. QED BY <1>4, <1>5


-----------------------------------------------------------------------------
\* A set in the order of a strict total order.

StrictlyOrders(R, S) ==
    /\ \A x \in S : <<x, x>> \notin R
    /\ \A x, y \in S : x = y \/ <<x, y>> \in R \/ <<y, x>> \in R
    /\ \A x, y, z \in S : <<x, y>> \in R /\ <<y, z>> \in R => <<x, z>> \in R

LEMMA OrderedSet ==
    ASSUME NEW S, IsFiniteSet(S), NEW R, StrictlyOrders(R, S)
    PROVE  /\ InOrder(R, S) \in Seq(S)
           /\ Len(InOrder(R, S)) = Cardinality(S)
           /\ ToSet(InOrder(R, S)) = S
           /\ \A i, j \in 1..Cardinality(S) : i < j => <<InOrder(R, S)[i], InOrder(R, S)[j]>> \in R
<1>. DEFINE n == Cardinality(S)
            rank == [x \in S |-> Cardinality(Ahead(R, S, x)) + 1]
            s == InOrder(R, S)
<1>1. n \in Nat
    BY FS_CardinalityType
<1>2. ASSUME NEW x \in S
      PROVE  /\ IsFiniteSet(Ahead(R, S, x)) /\ Cardinality(Ahead(R, S, x)) \in Nat
             /\ Cardinality(Ahead(R, S, x)) < n
    <2>1. Ahead(R, S, x) \in SUBSET S /\ x \notin Ahead(R, S, x)
        BY DEF Ahead, StrictlyOrders
    <2>2. IsFiniteSet(Ahead(R, S, x)) /\ Cardinality(Ahead(R, S, x)) <= n /\ Cardinality(Ahead(R, S, x)) # n
        BY <2>1, FS_Subset
    <2>3. Cardinality(Ahead(R, S, x)) \in Nat
        BY <2>2, FS_CardinalityType
    <2>. QED BY <1>1, <2>2, <2>3
<1>3. ASSUME NEW x \in S, NEW y \in S, <<x, y>> \in R
      PROVE  Cardinality(Ahead(R, S, x)) < Cardinality(Ahead(R, S, y))
    <2>1. Ahead(R, S, x) \in SUBSET Ahead(R, S, y) /\ x \in Ahead(R, S, y) /\ x \notin Ahead(R, S, x)
        BY <1>3 DEF Ahead, StrictlyOrders
    <2>2. /\ Cardinality(Ahead(R, S, x)) <= Cardinality(Ahead(R, S, y))
          /\ Cardinality(Ahead(R, S, x)) # Cardinality(Ahead(R, S, y))
        BY <1>2, <2>1, FS_Subset
    <2>. QED BY <1>2, <2>2
<1>4. rank \in Injection(S, 1..n)
    <2>1. ASSUME NEW x \in S PROVE rank[x] \in 1..n
        BY <1>1, <1>2
    <2>2. ASSUME NEW x \in S, NEW y \in S, x # y PROVE rank[x] # rank[y]
        <3>1. <<x, y>> \in R \/ <<y, x>> \in R
            BY <2>2 DEF StrictlyOrders
        <3>2. Cardinality(Ahead(R, S, x)) # Cardinality(Ahead(R, S, y))
            BY <1>2, <1>3, <3>1
        <3>. QED BY <1>2, <3>2
    <2>. QED BY <2>1, <2>2 DEF Injection, IsInjective
<1>5. rank \in Surjection(S, 1..n)
    <2>1. IsFiniteSet(1..n) /\ Cardinality(1..n) = n
        BY <1>1, FS_Interval
    <2>. HIDE DEF rank
    <2>. QED BY <1>4, <2>1, FS_Injection
<1>6. \A i \in 1..n : \E x \in S : Cardinality(Ahead(R, S, x)) = i - 1
    <2>. SUFFICES ASSUME NEW i \in 1..n PROVE \E x \in S : Cardinality(Ahead(R, S, x)) = i - 1
        OBVIOUS
    <2>1. PICK x \in S : rank[x] = i
        BY <1>5 DEF Surjection
    <2>2. Cardinality(Ahead(R, S, x)) + 1 = i /\ Cardinality(Ahead(R, S, x)) \in Nat
        BY <1>2, <2>1
    <2>. QED BY <2>2
<1>7. \A i \in 1..n : s[i] \in S /\ Cardinality(Ahead(R, S, s[i])) = i - 1
    BY <1>6 DEF InOrder
<1>8. s \in [1..n -> S]
    BY <1>7 DEF InOrder
<1>9. s \in Seq(S) /\ Len(s) = n /\ DOMAIN s = 1..n
    <2>. HIDE DEF s
    <2>. QED BY <1>1, <1>8
<1>10. ASSUME NEW x \in S PROVE \E i \in 1..n : s[i] = x
    <2>1. rank[x] \in 1..n
        BY <1>4 DEF Injection
    <2>. DEFINE i == rank[x]
    <2>2. s[i] \in S /\ Cardinality(Ahead(R, S, s[i])) = i - 1
        BY <1>7, <2>1
    <2>3. rank[s[i]] = rank[x]
        BY <1>2, <2>2
    <2>4. s[i] = x
        <3>. HIDE DEF rank, s
        <3>. QED BY <1>4, <2>2, <2>3 DEF Injection, IsInjective
    <2>. QED BY <2>1, <2>4
<1>11. ASSUME NEW i \in 1..n, NEW j \in 1..n, i < j PROVE <<s[i], s[j]>> \in R
    <2>. HIDE DEF s
    <2>1. s[i] \in S /\ s[j] \in S /\ Cardinality(Ahead(R, S, s[i])) < Cardinality(Ahead(R, S, s[j]))
        BY <1>1, <1>7, <1>11
    <2>2. ~(Cardinality(Ahead(R, S, s[j])) < Cardinality(Ahead(R, S, s[i]))) /\ s[i] # s[j]
        BY <1>2, <2>1
    <2>3. <<s[j], s[i]>> \notin R
        BY <1>3, <2>1, <2>2
    <2>. QED BY <2>1, <2>2, <2>3 DEF StrictlyOrders
<1>. HIDE DEF s
<1>. QED BY <1>8, <1>9, <1>10, <1>11 DEF ToSet, s

-----------------------------------------------------------------------------
\* Children of a node.

\* The neighbour counts and the changes of the cut are those of the path.
Current(g, q) ==
    /\ \A v \in Vertices(g) \ Placed(q) : q.before[v] = Cardinality(g[v] \cap Placed(q))
    /\ DOMAIN q.deltas = Vertices(g) \ Placed(q)
    /\ \A v \in Vertices(g) \ Placed(q) : q.deltas[v] = Delta(g, q.before, v)

ChildSet(g, P, twins, k) ==
    {[vertex |-> v, cut |-> Cut(g, P \cup {v})] :
        v \in {u \in Vertices(g) \ P : ~TwinBlocked(twins, P, u) /\ Cut(g, P \cup {u}) <= k}}

LEMMA DeltaIs ==
    ASSUME NEW g, IsSimple(g), NEW q, Placed(q) \in SUBSET Vertices(g), Current(g, q),
           NEW v \in Vertices(g) \ Placed(q)
    PROVE  /\ Cut(g, Placed(q)) + Delta(g, q.before, v) = Cut(g, Placed(q) \cup {v})
           /\ Cut(g, Placed(q)) + q.deltas[v] = Cut(g, Placed(q) \cup {v})
           /\ Delta(g, q.before, v) \in Int
           /\ Cut(g, Placed(q)) \in Nat /\ Cut(g, Placed(q) \cup {v}) \in Nat
<1>1. /\ Cut(g, Placed(q) \cup {v}) =
             Cut(g, Placed(q)) + Degree(g, v) - 2 * Cardinality(g[v] \cap Placed(q))
      /\ Degree(g, v) \in Nat /\ Cardinality(g[v] \cap Placed(q)) \in Nat
    BY CutStep
<1>2. Delta(g, q.before, v) = Degree(g, v) - 2 * Cardinality(g[v] \cap Placed(q))
    BY DEF Current, Delta
<1>3. q.deltas[v] = Delta(g, q.before, v)
    BY DEF Current
<1>4. Placed(q) \cup {v} \in SUBSET Vertices(g)
    OBVIOUS
<1>5. Cut(g, Placed(q)) \in Nat /\ Cut(g, Placed(q) \cup {v}) \in Nat
    BY <1>4, CutNat
<1>. QED BY <1>1, <1>2, <1>3, <1>5

LEMMA BothEnumerators ==
    ASSUME NEW g, IsSimple(g), NEW q, Placed(q) \in SUBSET Vertices(g), Current(g, q),
           NEW k \in Int, NEW twins
    PROVE  /\ ScanCandidates(g, q, twins, k, Cut(g, Placed(q))) = ChildSet(g, Placed(q), twins, k)
           /\ IndexCandidates(q, twins, k, Cut(g, Placed(q))) = ChildSet(g, Placed(q), twins, k)
<1>. DEFINE c == Cut(g, Placed(q))
            U == Vertices(g) \ Placed(q)
<1>1. \A v \in U : /\ c + Delta(g, q.before, v) = Cut(g, Placed(q) \cup {v})
                   /\ c + q.deltas[v] = Cut(g, Placed(q) \cup {v})
                   /\ q.deltas[v] \in Int /\ c \in Nat
    <2>. SUFFICES ASSUME NEW v \in U
                  PROVE  /\ c + Delta(g, q.before, v) = Cut(g, Placed(q) \cup {v})
                         /\ c + q.deltas[v] = Cut(g, Placed(q) \cup {v})
                         /\ q.deltas[v] \in Int /\ c \in Nat
        OBVIOUS
    <2>1. q.deltas[v] = Delta(g, q.before, v)
        BY DEF Current
    <2>. QED BY <2>1, DeltaIs
<1>2. DOMAIN q.deltas = U
    BY DEF Current
<1>3. \A v \in U : q.deltas[v] <= k - c <=> Cut(g, Placed(q) \cup {v}) <= k
    <2>. SUFFICES ASSUME NEW v \in U PROVE q.deltas[v] <= k - c <=> Cut(g, Placed(q) \cup {v}) <= k
        OBVIOUS
    <2>1. c + q.deltas[v] = Cut(g, Placed(q) \cup {v}) /\ q.deltas[v] \in Int /\ c \in Nat
        BY <1>1
    <2>2. q.deltas[v] <= k - c <=> c + q.deltas[v] <= k
        <3>. HIDE DEF c
        <3>. QED BY <2>1
    <2>. QED BY <2>1, <2>2
<1>. HIDE DEF c
<1>4. ScanCandidates(g, q, twins, k, c) = ChildSet(g, Placed(q), twins, k)
    BY <1>1 DEF ScanCandidates, ChildSet
<1>5. IndexCandidates(q, twins, k, c) = ChildSet(g, Placed(q), twins, k)
    BY <1>1, <1>2, <1>3 DEF IndexCandidates, ChildSet
<1>. QED BY <1>4, <1>5 DEF c

LEMMA ChildrenFinite ==
    ASSUME NEW g, IsSimple(g), NEW P \in SUBSET Vertices(g), NEW twins, NEW k
    PROVE  /\ IsFiniteSet(ChildSet(g, P, twins, k))
           /\ \A c \in ChildSet(g, P, twins, k) :
                 /\ c = [vertex |-> c.vertex, cut |-> c.cut]
                 /\ c.vertex \in Vertices(g) \ P /\ c.vertex \in Nat
                 /\ c.cut = Cut(g, P \cup {c.vertex}) /\ c.cut \in Nat /\ c.cut <= k
<1>. DEFINE A == {u \in Vertices(g) \ P : ~TwinBlocked(twins, P, u) /\ Cut(g, P \cup {u}) <= k}
            f == [v \in A |-> [vertex |-> v, cut |-> Cut(g, P \cup {v})]]
<1>1. IsFiniteSet(A)
    <2>1. A \in SUBSET Vertices(g)
        OBVIOUS
    <2>. QED BY <2>1, SimpleFacts
<1>2. IsFiniteSet({f[v] : v \in A})
    <2>. HIDE DEF A, f
    <2>. QED BY <1>1, ImageFinite
<1>3. ChildSet(g, P, twins, k) = {f[v] : v \in A}
    BY DEF ChildSet
<1>4. ASSUME NEW c \in ChildSet(g, P, twins, k)
      PROVE  /\ c = [vertex |-> c.vertex, cut |-> c.cut]
             /\ c.vertex \in Vertices(g) \ P /\ c.vertex \in Nat
             /\ c.cut = Cut(g, P \cup {c.vertex}) /\ c.cut \in Nat /\ c.cut <= k
    <2>1. PICK v \in Vertices(g) \ P : /\ c = [vertex |-> v, cut |-> Cut(g, P \cup {v})]
                                       /\ Cut(g, P \cup {v}) <= k
        BY DEF ChildSet
    <2>2. P \cup {v} \in SUBSET Vertices(g) /\ v \in Nat
        BY SimpleFacts
    <2>3. Cut(g, P \cup {v}) \in Nat
        BY <2>2, CutNat
    <2>. QED BY <2>1, <2>2, <2>3
<1>. QED BY <1>2, <1>3, <1>4

\* Scan and bucket index list the same children, those within the threshold
\* (delta_bucket_candidate_index.hpp, decision_session.cpp).
THEOREM CandidatesAre ==
    ASSUME NEW g, IsSimple(g), NEW q, Placed(q) \in SUBSET Vertices(g), Current(g, q),
           NEW k \in Int, NEW twins, NEW useIndex, NEW failFirst \in BOOLEAN,
           NEW s, s = Candidates(g, q, twins, k, Cut(g, Placed(q)), useIndex, failFirst)
    PROVE  s \in Seq(ChildSet(g, Placed(q), twins, k)) /\ ToSet(s) = ChildSet(g, Placed(q), twins, k)
<1>. DEFINE S == ChildSet(g, Placed(q), twins, k)
            R == {p \in S \X S : IF p[1].cut # p[2].cut THEN (p[1].cut > p[2].cut) = failFirst
                                 ELSE p[1].vertex < p[2].vertex}
<1>1. IsFiniteSet(S) /\ \A c \in S : c = [vertex |-> c.vertex, cut |-> c.cut]
                                     /\ c.vertex \in Nat /\ c.cut \in Nat
    BY ChildrenFinite
<1>2. s = Sorted(S, LAMBDA a, b : IF a.cut # b.cut THEN (a.cut > b.cut) = failFirst
                                  ELSE a.vertex < b.vertex)
    BY BothEnumerators DEF Candidates
<1>4. s = InOrder(R, S)
    BY <1>2 DEF Sorted
<1>. HIDE DEF S
<1>3. \A x, y \in S : <<x, y>> \in R <=>
          IF x.cut # y.cut THEN (x.cut > y.cut) = failFirst ELSE x.vertex < y.vertex
    OBVIOUS
<1>5. StrictlyOrders(R, S)
    <2>. HIDE DEF R
    <2>1. \A x \in S : <<x, x>> \notin R
        BY <1>1, <1>3
    <2>2. \A x, y \in S : x = y \/ <<x, y>> \in R \/ <<y, x>> \in R
        <3>. SUFFICES ASSUME NEW x \in S, NEW y \in S, x # y PROVE <<x, y>> \in R \/ <<y, x>> \in R
            OBVIOUS
        <3>1. x.cut # y.cut \/ x.vertex # y.vertex
            BY <1>1
        <3>2. x.cut \in Nat /\ y.cut \in Nat /\ x.vertex \in Nat /\ y.vertex \in Nat
            BY <1>1
        <3>. QED BY <1>3, <3>1, <3>2
    <2>3. \A x, y, z \in S : <<x, y>> \in R /\ <<y, z>> \in R => <<x, z>> \in R
        <3>. SUFFICES ASSUME NEW x \in S, NEW y \in S, NEW z \in S, <<x, y>> \in R, <<y, z>> \in R
                      PROVE  <<x, z>> \in R
            OBVIOUS
        <3>1. /\ x.cut \in Nat /\ y.cut \in Nat /\ z.cut \in Nat
              /\ x.vertex \in Nat /\ y.vertex \in Nat /\ z.vertex \in Nat
            BY <1>1
        <3>2. CASE failFirst
            <4>1. \A a, b \in S : <<a, b>> \in R <=>
                      IF a.cut # b.cut THEN a.cut > b.cut ELSE a.vertex < b.vertex
                BY <1>3, <3>2
            <4>. QED BY <3>1, <4>1
        <3>3. CASE ~failFirst
            <4>1. \A a, b \in S : <<a, b>> \in R <=>
                      IF a.cut # b.cut THEN ~(a.cut > b.cut) ELSE a.vertex < b.vertex
                <5>1. \A a, b \in S : a.cut \in Nat /\ b.cut \in Nat
                    BY <1>1
                <5>2. \A a, b \in S : ((a.cut > b.cut) = failFirst) <=> ~(a.cut > b.cut)
                    BY <3>3, <5>1
                <5>. QED BY <1>3, <5>2
            <4>. QED BY <3>1, <4>1
        <3>. QED BY <3>2, <3>3
    <2>. QED BY <2>1, <2>2, <2>3 DEF StrictlyOrders
<1>. HIDE DEF R
<1>6. s \in Seq(S) /\ ToSet(s) = S
    BY <1>1, <1>4, <1>5, OrderedSet
<1>. QED BY <1>6 DEF S

-----------------------------------------------------------------------------
\* The rules that prune.

\* Of the children of a prefix that fits, one that is listed fits.
LEMMA ChildrenCover ==
    ASSUME NEW g, IsSimple(g), NEW k \in Int, NEW twins, Dropped(g, twins),
           NEW P \in SUBSET Vertices(g), P # Vertices(g), Fits(g, k, P)
    PROVE  \E c \in ChildSet(g, P, twins, k) : Fits(g, k, P \cup {c.vertex})
<1>1. PICK v \in Vertices(g) \ P : ~TwinBlocked(twins, P, v) /\ Fits(g, k, P \cup {v})
    BY FreeChild
<1>2. Cut(g, P \cup {v}) <= k
    <2>1. P \cup {v} \in SUBSET Vertices(g)
        OBVIOUS
    <2>. QED BY <1>1, <2>1, FitsStep
<1>3. [vertex |-> v, cut |-> Cut(g, P \cup {v})] \in ChildSet(g, P, twins, k)
    BY <1>1, <1>2 DEF ChildSet
<1>. QED BY <1>1, <1>3

\* The look-ahead of depth two passes over a child only if nothing can follow it.
THEOREM LegalSecondSound ==
    ASSUME NEW g, IsSimple(g), NEW k \in Int, NEW twins, Dropped(g, twins),
           NEW q, Placed(q) \in SUBSET Vertices(g), Current(g, q),
           NEW p \in Vertices(g) \ Placed(q), Placed(q) \cup {p} # Vertices(g),
           ~LegalSecond(g, q, twins, k, p, Cut(g, Placed(q) \cup {p}))
    PROVE  ~Fits(g, k, Placed(q) \cup {p})
<1>. DEFINE P == Placed(q)
            T == P \cup {p}
<1>. SUFFICES ASSUME Fits(g, k, T) PROVE FALSE
    OBVIOUS
<1>1. T \in SUBSET Vertices(g) /\ T # Vertices(g)
    OBVIOUS
<1>2. PICK v \in Vertices(g) \ T : ~TwinBlocked(twins, T, v) /\ Fits(g, k, T \cup {v})
    <2>. HIDE DEF T
    <2>. QED BY <1>1, FreeChild
<1>3. Cut(g, T \cup {v}) <= k
    <2>1. T \cup {v} \in SUBSET Vertices(g)
        BY <1>1
    <2>. QED BY <1>2, <2>1, FitsStep
<1>4. /\ Cut(g, T \cup {v}) = Cut(g, T) + Degree(g, v) - 2 * Cardinality(g[v] \cap T)
      /\ Degree(g, v) \in Nat /\ Cardinality(g[v] \cap T) \in Nat
    <2>. HIDE DEF T
    <2>. QED BY <1>1, CutStep
<1>5. q.before[v] = Cardinality(g[v] \cap P) /\ Cardinality(g[v] \cap P) \in Nat
    <2>1. v \in Vertices(g) \ P /\ g[v] \cap P \in SUBSET Vertices(g)
        BY SimpleFacts
    <2>. QED BY <2>1, SimpleFacts DEF Current
<1>6. Cardinality(g[v] \cap T) = Cardinality(g[v] \cap P) + (IF v \in g[p] THEN 1 ELSE 0)
    <2>1. v \in g[p] <=> p \in g[v]
        BY SimpleFacts
    <2>2. IsFiniteSet(g[v] \cap P) /\ p \notin g[v] \cap P
        <3>1. g[v] \cap P \in SUBSET Vertices(g)
            BY SimpleFacts
        <3>. QED BY <3>1, SimpleFacts
    <2>3. CASE v \in g[p]
        <3>1. g[v] \cap T = (g[v] \cap P) \cup {p}
            BY <2>1, <2>3
        <3>2. Cardinality((g[v] \cap P) \cup {p}) = Cardinality(g[v] \cap P) + 1
            BY <2>2, FS_AddElement
        <3>. QED BY <2>3, <3>1, <3>2
    <2>4. CASE v \notin g[p]
        <3>1. g[v] \cap T = g[v] \cap P
            BY <2>1, <2>4
        <3>2. Cardinality(g[v] \cap T) \in Nat /\ Cardinality(g[v] \cap T) = Cardinality(g[v] \cap P)
            BY <1>5, <3>1
        <3>. HIDE DEF T, P
        <3>3. Cardinality(g[v] \cap T) = Cardinality(g[v] \cap P) + 0
            BY <3>2
        <3>. QED BY <2>4, <3>3
    <2>. QED BY <2>3, <2>4
<1>7. Cut(g, T) \in Nat
    BY <1>1, CutNat
<1>. DEFINE d == Cut(g, T) + Delta(g, q.before, v) - (IF v \in g[p] THEN 2 ELSE 0)
<1>8. Delta(g, q.before, v) = Degree(g, v) - 2 * Cardinality(g[v] \cap P)
    BY <1>5 DEF Delta
<1>9. d = Cut(g, T \cup {v})
    <2>. HIDE DEF T
    <2>. QED BY <1>4, <1>5, <1>6, <1>7, <1>8
<1>10. d <= k
    BY <1>3, <1>9
<1>11. v \in Vertices(g) \ (Placed(q) \cup {p}) /\ ~TwinBlocked(twins, Placed(q) \cup {p}, v)
    BY <1>2
<1>. QED BY <1>10, <1>11 DEF LegalSecond

\* A node whose best next cut exceeds the threshold does not fit.
THEOREM BestNextSound ==
    ASSUME NEW g, IsSimple(g), NEW k \in Int,
           NEW q, Placed(q) \in SUBSET Vertices(g), Current(g, q),
           BestNextExceeds(q, k, Cut(g, Placed(q)))
    PROVE  ~Fits(g, k, Placed(q))
<1>. DEFINE P == Placed(q)
            U == Vertices(g) \ P
            D == {q.deltas[v] : v \in U}
<1>. SUFFICES ASSUME Fits(g, k, P) PROVE FALSE
    OBVIOUS
<1>1. DOMAIN q.deltas = U /\ U # {}
    BY DEF Current, BestNextExceeds
<1>2. PICK v \in U : Fits(g, k, P \cup {v})
    <2>1. P # Vertices(g)
        BY <1>1
    <2>. QED BY <2>1, FitsStep
<1>3. Cut(g, P \cup {v}) <= k
    <2>1. P \cup {v} \in SUBSET Vertices(g)
        OBVIOUS
    <2>. QED BY <1>2, <2>1, FitsStep
<1>4. \A u \in U : q.deltas[u] \in Int
    <2>1. \A u \in U : q.deltas[u] = Delta(g, q.before, u)
        BY DEF Current
    <2>2. \A u \in U : Delta(g, q.before, u) \in Int
        BY DeltaIs
    <2>. QED BY <2>1, <2>2
<1>5. Cut(g, P) \in Nat /\ Cut(g, P) + q.deltas[v] = Cut(g, P \cup {v})
    BY DeltaIs
<1>6. IsFiniteSet(D) /\ D \in SUBSET Int /\ q.deltas[v] \in D
    <2>1. IsFiniteSet(U)
        BY SimpleFacts
    <2>. DEFINE f == q.deltas
    <2>2. IsFiniteSet({f[u] : u \in U})
        <3>. HIDE DEF f, U
        <3>. QED BY <2>1, ImageFinite
    <2>. QED BY <1>4, <2>2
<1>7. Min(D) \in Int /\ Min(D) <= q.deltas[v]
    <2>. HIDE DEF D
    <2>. QED BY <1>6, MinIs
<1>8. Range(q.deltas) = D
    BY <1>1 DEF Range
<1>9. Cut(g, P) + Min(D) > k
    BY <1>8 DEF BestNextExceeds
<1>10. q.deltas[v] \in Int
    BY <1>4
<1>. HIDE DEF D, P
<1>. QED BY <1>3, <1>5, <1>7, <1>9, <1>10

NextOf(g, P, twins, k, O) ==
    {v \in Vertices(g) \ (P \cup O) : ~TwinBlocked(twins, P \cup O, v) /\ Cut(g, P \cup O \cup {v}) <= k}
OverlayAt(g, P, twins, k, i, x) ==
    IF i = 0 THEN {{}} ELSE UNION {{O \cup {v} : v \in NextOf(g, P, twins, k, O)} : O \in x[i - 1]}
OverlayFn(g, P, twins, k, steps) ==
    CHOOSE x : x = [i \in 0..steps |-> OverlayAt(g, P, twins, k, i, x)]

LEMMA ContinuationIs ==
    \A g, q, twins, k, depth :
        ContinuationExists(g, q, twins, k, depth) <=>
            LET steps == Min({depth, Cardinality(Vertices(g) \ Placed(q))})
            IN  OverlayFn(g, Placed(q), twins, k, steps)[steps] # {}
BY DEF ContinuationExists, OverlayFn, OverlayAt, NextOf

LEMMA OverlayEquation ==
    ASSUME NEW g, NEW P, NEW twins, NEW k, NEW steps \in Nat
    PROVE  \A i \in 0..steps : OverlayFn(g, P, twins, k, steps)[i] =
               OverlayAt(g, P, twins, k, i, OverlayFn(g, P, twins, k, steps))
<1>. DEFINE X == 0..steps
            V == SUBSET (SUBSET Vertices(g))
            rank == [i \in X |-> i]
            D == [i \in X |-> [x \in [X -> V] |-> OverlayAt(g, P, twins, k, i, x)]]
<1>1. ASSUME NEW i \in X, NEW x \in [X -> V] PROVE OverlayAt(g, P, twins, k, i, x) \in V
    <2>1. CASE i = 0
        BY <2>1 DEF OverlayAt
    <2>2. CASE i # 0
        <3>1. x[i - 1] \in V
            BY <2>2
        <3>2. \A O \in x[i - 1] : NextOf(g, P, twins, k, O) \in SUBSET Vertices(g)
            BY DEF NextOf
        <3>. QED BY <2>2, <3>1, <3>2 DEF OverlayAt
    <2>. QED BY <2>1, <2>2
<1>2. ASSUME NEW i \in X, NEW x \in [X -> V], NEW y \in [X -> V], \A j \in X : j < i => x[j] = y[j]
      PROVE  OverlayAt(g, P, twins, k, i, x) = OverlayAt(g, P, twins, k, i, y)
    <2>1. i # 0 => x[i - 1] = y[i - 1]
        BY <1>2
    <2>. QED BY <2>1 DEF OverlayAt
<1>3. Ranked(X, V, rank, steps, D)
    BY <1>1, <1>2 DEF Ranked
<1>4. PICK x \in [X -> V] : \A i \in X : x[i] = D[i][x]
    <2>1. V # {}
        OBVIOUS
    <2>. HIDE DEF X, V, rank, D
    <2>. QED BY <1>3, <2>1, RankedRecursion
<1>5. x = [i \in X |-> OverlayAt(g, P, twins, k, i, x)]
    BY <1>4
<1>. DEFINE h == OverlayFn(g, P, twins, k, steps)
<1>6. h = [i \in X |-> OverlayAt(g, P, twins, k, i, h)]
    BY <1>5 DEF OverlayFn
<1>. HIDE DEF h
<1>7. \A i \in X : h[i] = OverlayAt(g, P, twins, k, i, h)
    BY <1>6
<1>. QED BY <1>7 DEF h

\* A probe that finds no continuation refutes the node (LocalContinuationProbe).
THEOREM ContinuationSound ==
    ASSUME NEW g, IsSimple(g), NEW k \in Int, NEW twins, Dropped(g, twins), NEW depth \in Nat,
           NEW q, Placed(q) \in SUBSET Vertices(g), ~ContinuationExists(g, q, twins, k, depth)
    PROVE  ~Fits(g, k, Placed(q))
<1>. DEFINE P == Placed(q)
            V == Vertices(g)
            r == Cardinality(V \ P)
            steps == Min({depth, r})
            h == OverlayFn(g, P, twins, k, steps)
            Goes(i) == \E O \in h[i] : O \in SUBSET (V \ P) /\ Cardinality(O) = i /\ Fits(g, k, P \cup O)
            B == {i \in 0..steps : ~Goes(i)}
<1>. SUFFICES ASSUME Fits(g, k, P) PROVE FALSE
    OBVIOUS
<1>1. r \in Nat
    BY SimpleFacts
<1>2. steps \in Nat /\ steps <= r
    <2>. DEFINE M == {depth, r}
    <2>1. IsFiniteSet({depth} \cup {r})
        <3>1. IsFiniteSet({depth})
            BY FS_Singleton
        <3>. HIDE DEF r
        <3>. QED BY <3>1, FS_AddElement
    <2>2. M = {depth} \cup {r}
        OBVIOUS
    <2>3. IsFiniteSet(M) /\ M # {} /\ M \in SUBSET Int
        BY <1>1, <2>1, <2>2
    <2>4. Min(M) \in M /\ \A x \in M : Min(M) <= x
        <3>. HIDE DEF M
        <3>. QED BY <2>3, MinIs
    <2>. HIDE DEF r
    <2>. QED BY <1>1, <2>4
<1>. HIDE DEF steps
<1>3. \A i \in 0..steps : h[i] = OverlayAt(g, P, twins, k, i, h)
    <2>. HIDE DEF P
    <2>. QED BY <1>2, OverlayEquation
<1>4. h[steps] = {}
    BY ContinuationIs DEF steps
<1>. HIDE DEF h
<1>5. B # {}
    <2>1. steps \in 0..steps
        BY <1>2
    <2>2. ~Goes(steps)
        BY <1>4
    <2>. QED BY <2>1, <2>2
<1>6. PICK i \in B : \A j \in B : i <= j
    <2>1. B \in SUBSET Nat
        BY <1>2
    <2>. HIDE DEF B
    <2>. QED BY <1>5, <2>1, Least
<1>7. i # 0
    <2>. SUFFICES ASSUME i = 0 PROVE Goes(0)
        OBVIOUS
    <2>1. h[0] = {{}}
        BY <1>2, <1>3 DEF OverlayAt
    <2>2. P \cup {} = P /\ Cardinality({}) = 0
        BY FS_EmptySet
    <2>. QED BY <2>1, <2>2
<1>8. PICK O \in h[i - 1] : O \in SUBSET (V \ P) /\ Cardinality(O) = i - 1 /\ Fits(g, k, P \cup O)
    <2>1. i - 1 \in 0..steps /\ i - 1 \notin B
        BY <1>2, <1>6, <1>7
    <2>. QED BY <2>1
<1>9. P \cup O \in SUBSET V /\ P \cup O # V
    <2>1. O # V \ P
        <3>1. i \in 0..steps /\ i - 1 < steps
            BY <1>2, <1>6
        <3>. HIDE DEF r
        <3>2. i - 1 # r
            BY <1>1, <1>2, <3>1
        <3>. QED BY <1>8, <3>2 DEF r
    <2>. QED BY <1>8, <2>1
<1>10. PICK v \in V \ (P \cup O) : ~TwinBlocked(twins, P \cup O, v) /\ Fits(g, k, P \cup O \cup {v})
    <2>. HIDE DEF P
    <2>. QED BY <1>8, <1>9, FreeChild
<1>11. Cut(g, P \cup O \cup {v}) <= k
    <2>1. P \cup O \cup {v} \in SUBSET V
        BY <1>9
    <2>. QED BY <1>10, <2>1, FitsStep
<1>12. O \cup {v} \in h[i]
    <2>1. v \in NextOf(g, P, twins, k, O)
        BY <1>10, <1>11 DEF NextOf
    <2>2. h[i] = UNION {{A \cup {u} : u \in NextOf(g, P, twins, k, A)} : A \in h[i - 1]}
        BY <1>3, <1>6, <1>7 DEF OverlayAt
    <2>. QED BY <1>8, <2>1, <2>2
<1>13. Cardinality(O \cup {v}) = i
    <2>1. IsFiniteSet(O)
        BY <1>8, SimpleFacts
    <2>2. v \notin O /\ i \in Nat
        BY <1>2, <1>6, <1>10
    <2>3. Cardinality(O \cup {v}) = Cardinality(O) + 1
        BY <2>1, <2>2, FS_AddElement
    <2>. QED BY <1>8, <2>2, <2>3
<1>14. P \cup (O \cup {v}) = P \cup O \cup {v} /\ O \cup {v} \in SUBSET (V \ P)
    BY <1>8, <1>10
<1>15. Goes(i)
    BY <1>10, <1>12, <1>13, <1>14
<1>. QED BY <1>6, <1>15


-----------------------------------------------------------------------------
\* The histogram of the residual degrees.

Size(g) == Cardinality(Vertices(g))

Having(U, f, d) == {w \in U : f[w] = d}

\* The bins count the degrees of the vertices of U, and the top bin is not empty.
Counted(g, U, q) ==
    /\ {"degree", "bins", "top"} \subseteq DOMAIN q
    /\ q.degree \in [Vertices(g) -> Int]
    /\ q.bins \in [0..Size(g) -> Int]
    /\ \A w \in U : q.degree[w] \in 0..Size(g)
    /\ \A d \in 0..Size(g) : q.bins[d] = Cardinality(Having(U, q.degree, d))
    /\ q.top \in 0..Size(g)
    /\ q.top # 0 => q.bins[q.top] > 0
    /\ \A w \in U : q.degree[w] <= q.top

IsRecord(q) == q = [x \in DOMAIN q |-> q[x]]

\* Two nodes that differ in their histogram only.
Rebin(q, r) ==
    /\ DOMAIN r = DOMAIN q /\ (IsRecord(q) => IsRecord(r))
    /\ \A x \in DOMAIN q \ {"degree", "bins", "top"} : r[x] = q[x]

OneMore(T, f, v, d) ==
    /\ Cardinality(Having(T, f, d)) \in Nat
    /\ d = f[v] => Cardinality(Having(T \cup {v}, f, d)) = Cardinality(Having(T, f, d)) + 1
    /\ d # f[v] => Cardinality(Having(T \cup {v}, f, d)) = Cardinality(Having(T, f, d))

LEMMA CountWith ==
    ASSUME NEW T, IsFiniteSet(T), NEW f, NEW v, v \notin T, NEW d
    PROVE  OneMore(T, f, v, d)
<1>. DEFINE A == Having(T \cup {v}, f, d)
            B == Having(T, f, d)
<1>1. IsFiniteSet(B)
    <2>1. B \in SUBSET T
        BY DEF Having
    <2>. QED BY <2>1, FS_Subset
<1>2. Cardinality(B) \in Nat
    BY <1>1, FS_CardinalityType
<1>3. ASSUME d = f[v] PROVE Cardinality(A) = Cardinality(B) + 1
    <2>1. A = B \cup {v} /\ v \notin B
        BY <1>3 DEF Having
    <2>. HIDE DEF A, B
    <2>. QED BY <1>1, <2>1, FS_AddElement
<1>4. ASSUME d # f[v] PROVE A = B
    BY <1>4 DEF Having
<1>. QED BY <1>2, <1>3, <1>4 DEF OneMore

LEMMA TopAfter ==
    ASSUME NEW top \in Nat, NEW bins,
           NEW t, t = Max({0} \cup {e \in 1..top : bins[e] > 0})
    PROVE  t \in 0..top /\ (t # 0 => bins[t] > 0) /\ \A e \in 0..top : bins[e] > 0 => e <= t
<1>. DEFINE M == {0} \cup {e \in 1..top : bins[e] > 0}
<1>1. IsFiniteSet(0..top) /\ M \in SUBSET (0..top)
    BY FS_Interval
<1>2. IsFiniteSet(M)
    <2>. HIDE DEF M
    <2>. QED BY <1>1, FS_Subset
<1>3. M \in SUBSET Int /\ M # {}
    OBVIOUS
<1>4. Max(M) \in M /\ \A e \in M : e <= Max(M)
    <2>. HIDE DEF M
    <2>. QED BY <1>2, <1>3, MaxIs
<1>5. ASSUME NEW e \in 0..top, bins[e] > 0 PROVE e \in M
    BY <1>5
<1>. HIDE DEF M
<1>6. \A e \in 0..top : bins[e] > 0 => e <= Max(M)
    BY <1>4, <1>5
<1>. QED BY <1>4, <1>6 DEF M

LEMMA RemoveCounted ==
    ASSUME NEW g, IsSimple(g), NEW T \in SUBSET Vertices(g), NEW v \in Vertices(g) \ T,
           NEW q, Counted(g, T \cup {v}, q), NEW r, r = RemoveBin(q, q.degree[v])
    PROVE  Counted(g, T, r) /\ Rebin(q, r) /\ r.degree = q.degree
<1>. DEFINE d == q.degree[v]
            b == [q.bins EXCEPT ![d] = @ - 1]
            t == Max({0} \cup {e \in 1..q.top : b[e] > 0})
<1>1. r = [q EXCEPT !.bins = b, !.top = t]
    BY DEF RemoveBin
<1>2. {"degree", "bins", "top"} \subseteq DOMAIN q
    BY DEF Counted
<1>. HIDE DEF b, t
<1>3. DOMAIN r = DOMAIN q /\ r.bins = b /\ r.top = t /\ r.degree = q.degree
      /\ \A x \in DOMAIN q \ {"degree", "bins", "top"} : r[x] = q[x]
    BY <1>1, <1>2
<1>9. IsRecord(r)
    BY <1>1 DEF IsRecord
<1>4. t \in 0..q.top /\ (t # 0 => b[t] > 0) /\ \A e \in 0..q.top : b[e] > 0 => e <= t
    <2>1. q.top \in Nat
        BY DEF Counted
    <2>. QED BY <2>1, TopAfter DEF t
<1>5. b \in [0..Size(g) -> Int]
    <2>1. q.bins \in [0..Size(g) -> Int] /\ d \in 0..Size(g)
        BY DEF Counted
    <2>3. q.bins[d] \in Int
        BY <2>1
    <2>2. q.bins[d] - 1 \in Int
        BY <2>3
    <2>. HIDE DEF d
    <2>. QED BY <2>1, <2>2 DEF b
<1>6. IsFiniteSet(T)
    BY SimpleFacts
<1>7. ASSUME NEW e \in 0..Size(g) PROVE b[e] = Cardinality(Having(T, q.degree, e))
    <2>1. q.bins[e] = Cardinality(Having(T \cup {v}, q.degree, e))
        BY DEF Counted
    <2>2. b[e] = q.bins[e] - (IF e = q.degree[v] THEN 1 ELSE 0)
        <3>1. q.bins \in [0..Size(g) -> Int] /\ q.bins[e] \in Int
            BY DEF Counted
        <3>2. CASE e = q.degree[v]
            BY <3>1, <3>2 DEF b
        <3>3. CASE e # q.degree[v]
            <4>1. b[e] = q.bins[e]
                BY <3>1, <3>3 DEF b
            <4>. QED BY <3>1, <3>3, <4>1
        <3>. QED BY <3>2, <3>3
    <2>3. /\ Cardinality(Having(T, q.degree, e)) \in Nat
          /\ e = q.degree[v] => Cardinality(Having(T \cup {v}, q.degree, e)) = Cardinality(Having(T, q.degree, e)) + 1
          /\ e # q.degree[v] => Cardinality(Having(T \cup {v}, q.degree, e)) = Cardinality(Having(T, q.degree, e))
        <3>1. IsFiniteSet(T) /\ v \notin T
            BY <1>6
        <3>2. OneMore(T, q.degree, v, e)
            BY <3>1, CountWith
        <3>. QED BY <3>2 DEF OneMore
    <2>. QED BY <2>1, <2>2, <2>3
<1>8. t \in 0..Size(g)
    BY <1>4, SimpleFacts DEF Counted, Size
<1>10. ASSUME NEW w \in T PROVE q.degree[w] <= t
    <2>. DEFINE e == q.degree[w]
    <2>1. w \in Vertices(g) /\ e \in 0..Size(g) /\ e <= q.top /\ q.top \in Nat
        BY DEF Counted
    <2>2. w \in Having(T, q.degree, e)
        BY DEF Having
    <2>3. Cardinality(Having(T, q.degree, e)) # 0 /\ Cardinality(Having(T, q.degree, e)) \in Nat
        <3>1. Having(T, q.degree, e) \in SUBSET T
            BY DEF Having
        <3>2. IsFiniteSet(Having(T, q.degree, e))
            BY <1>6, <3>1, FS_Subset
        <3>. QED BY <2>2, <3>2, FS_CardinalityType, FS_EmptySet
    <2>4. b[e] > 0
        BY <1>7, <2>1, <2>3
    <2>. QED BY <1>4, <2>1, <2>4
<1>. QED BY <1>3, <1>4, <1>5, <1>7, <1>8, <1>9, <1>10 DEF Counted, Rebin

Added(g, U, q, v, d, f, r, s) ==
    /\ Counted(g, U \cup {v}, s) /\ Rebin(q, s) /\ s.degree = f
    /\ Rebin(q, r) /\ r.degree = q.degree /\ (q.degree[v] = d => Counted(g, U \cup {v}, r))

LEMMA AddCounted ==
    ASSUME NEW g, IsSimple(g), NEW U \in SUBSET Vertices(g), NEW q, Counted(g, U, q),
           NEW v \in Vertices(g) \ U, NEW d \in 0..Size(g), NEW f, f = [q.degree EXCEPT ![v] = d],
           NEW r, r = AddBin(q, d), NEW s, s = [r EXCEPT !.degree = f]
    PROVE  Added(g, U, q, v, d, f, r, s)
<1>. DEFINE b == [q.bins EXCEPT ![d] = @ + 1]
            t == Max({q.top, d})
            W == U \cup {v}
<1>1. r = [q EXCEPT !.bins = b, !.top = t]
    BY DEF AddBin
<1>2. /\ {"degree", "bins", "top"} \subseteq DOMAIN q
      /\ q.degree \in [Vertices(g) -> Int] /\ q.bins \in [0..Size(g) -> Int]
      /\ q.top \in 0..Size(g) /\ Size(g) \in Nat
    BY SimpleFacts DEF Counted, Size
<1>3. /\ t \in {q.top, d} /\ q.top <= t /\ d <= t
    <2>1. IsFiniteSet({q.top}) /\ {q.top, d} = {q.top} \cup {d}
        BY FS_Singleton
    <2>2. IsFiniteSet({q.top, d})
        BY <2>1, FS_AddElement
    <2>3. {q.top, d} \in SUBSET Int /\ {q.top, d} # {}
        BY <1>2
    <2>. QED BY <2>2, <2>3, MaxIs
<1>4. \A e \in 0..Size(g) : /\ b[e] = q.bins[e] + (IF e = d THEN 1 ELSE 0)
                            /\ b[e] \in Int /\ q.bins[e] \in Int
    <2>. SUFFICES ASSUME NEW e \in 0..Size(g)
                  PROVE  /\ b[e] = q.bins[e] + (IF e = d THEN 1 ELSE 0)
                         /\ b[e] \in Int /\ q.bins[e] \in Int
        OBVIOUS
    <2>1. q.bins[e] \in Int
        BY <1>2
    <2>2. b[e] = q.bins[e] + (IF e = d THEN 1 ELSE 0)
        <3>1. CASE e = d
            BY <1>2, <2>1, <3>1
        <3>2. CASE e # d
            BY <1>2, <2>1, <3>2
        <3>. QED BY <3>1, <3>2
    <2>. HIDE DEF b
    <2>. QED BY <2>1, <2>2
<1>5. b \in [0..Size(g) -> Int]
    <2>1. DOMAIN b = 0..Size(g) /\ b = [e \in 0..Size(g) |-> b[e]]
        BY <1>2
    <2>. HIDE DEF b
    <2>. QED BY <1>4, <2>1
<1>6. f \in [Vertices(g) -> Int] /\ f[v] = d /\ \A w \in Vertices(g) : w # v => f[w] = q.degree[w]
    BY <1>2
<1>. HIDE DEF b, t
<1>7. /\ DOMAIN r = DOMAIN q /\ r.bins = b /\ r.top = t /\ r.degree = q.degree
      /\ \A x \in DOMAIN q \ {"degree", "bins", "top"} : r[x] = q[x]
    BY <1>1, <1>2
<1>8. /\ DOMAIN s = DOMAIN q /\ s.bins = b /\ s.top = t /\ s.degree = f
      /\ \A x \in DOMAIN q \ {"degree", "bins", "top"} : s[x] = q[x]
    BY <1>2, <1>7
<1>15. IsRecord(r) /\ IsRecord(s)
    BY <1>1 DEF IsRecord
<1>9. \A w \in W : f[w] \in 0..Size(g)
    BY <1>6 DEF Counted
<1>10. \A e \in 0..Size(g) : b[e] = Cardinality(Having(W, f, e))
    <2>. SUFFICES ASSUME NEW e \in 0..Size(g) PROVE b[e] = Cardinality(Having(W, f, e))
        OBVIOUS
    <2>2. /\ Cardinality(Having(U, f, e)) \in Nat
          /\ e = f[v] => Cardinality(Having(W, f, e)) = Cardinality(Having(U, f, e)) + 1
          /\ e # f[v] => Cardinality(Having(W, f, e)) = Cardinality(Having(U, f, e))
        <3>1. IsFiniteSet(U) /\ ~(v \in U)
            BY SimpleFacts
        <3>2. OneMore(U, f, v, e)
            BY <3>1, CountWith
        <3>. QED BY <3>2 DEF OneMore
    <2>3. Having(U, f, e) = Having(U, q.degree, e)
        BY <1>6 DEF Having
    <2>4. q.bins[e] = Cardinality(Having(U, f, e))
        BY <2>3 DEF Counted
    <2>. HIDE DEF W
    <2>. QED BY <1>4, <1>6, <2>2, <2>4
<1>11. t \in 0..Size(g)
    BY <1>2, <1>3
<1>12. t # 0 => b[t] > 0
    <2>. SUFFICES ASSUME t # 0 PROVE b[t] > 0
        OBVIOUS
    <2>1. CASE t = d
        <3>1. q.bins[d] = Cardinality(Having(U, q.degree, d)) /\ Cardinality(Having(U, q.degree, d)) \in Nat
            <4>1. Having(U, q.degree, d) \in SUBSET Vertices(g)
                BY DEF Having
            <4>. QED BY <4>1, SimpleFacts DEF Counted
        <3>. QED BY <1>4, <2>1, <3>1
    <2>2. CASE t # d
        <3>1. t = q.top /\ q.top # 0
            BY <1>3, <2>2
        <3>2. q.bins[t] > 0
            BY <3>1 DEF Counted
        <3>. QED BY <1>4, <1>11, <2>2, <3>2
    <2>. QED BY <2>1, <2>2
<1>16. \A w \in W : f[w] <= t
    <2>. SUFFICES ASSUME NEW w \in W PROVE f[w] <= t
        OBVIOUS
    <2>1. CASE w = v
        BY <1>3, <1>6, <2>1
    <2>2. CASE w # v
        <3>1. f[w] = q.degree[w] /\ q.degree[w] <= q.top /\ q.degree[w] \in 0..Size(g)
            BY <1>6, <2>2 DEF Counted
        <3>. QED BY <1>2, <1>3, <3>1
    <2>. QED BY <2>1, <2>2
<1>13. Counted(g, W, s)
    <2>. HIDE DEF W
    <2>. QED BY ZenonT(60), <1>2, <1>5, <1>6, <1>8, <1>9, <1>10, <1>11, <1>12, <1>16 DEF Counted
<1>14. ASSUME q.degree[v] = d PROVE Counted(g, W, r)
    <2>1. f = q.degree
        BY <1>2, <1>14
    <2>. HIDE DEF W
    <2>. QED BY <1>2, <1>5, <1>7, <1>9, <1>10, <1>11, <1>12, <1>16, <2>1 DEF Counted
<1>. QED BY <1>7, <1>8, <1>13, <1>14, <1>15 DEF Rebin, Added

Bumped(g, U, q, v, by, r) ==
    /\ Counted(g, U, r) /\ Rebin(q, r)
    /\ r.degree = [q.degree EXCEPT ![v] = q.degree[v] + by]

LEMMA RebinnedCounted ==
    ASSUME NEW g, IsSimple(g), NEW U \in SUBSET Vertices(g), NEW q, Counted(g, U, q),
           NEW v \in U, NEW by \in Int, q.degree[v] + by \in 0..Size(g),
           NEW r, r = Rebinned(q, v, by)
    PROVE  Bumped(g, U, q, v, by, r)
<1>1. PICK p : p = RemoveBin(q, q.degree[v])
    OBVIOUS
<1>2. PICK T \in SUBSET Vertices(g) : T = U \ {v}
    OBVIOUS
<1>7. v \in Vertices(g) \ T /\ T \cup {v} = U
    BY <1>2
<1>9. Counted(g, T, p) /\ Rebin(q, p) /\ p.degree = q.degree
    BY <1>1, <1>7, RemoveCounted
<1>3. PICK d \in 0..Size(g) : d = q.degree[v] + by
    OBVIOUS
<1>4. PICK a : a = AddBin(p, d)
    OBVIOUS
<1>5. PICK f : f = [p.degree EXCEPT ![v] = d]
    OBVIOUS
<1>6. PICK s : s = [a EXCEPT !.degree = f]
    OBVIOUS
<1>8. /\ Counted(g, T \cup {v}, s) /\ Rebin(p, s) /\ s.degree = f
      /\ Rebin(p, a) /\ a.degree = p.degree
    <2>1. Added(g, T, p, v, d, f, a, s)
        BY <1>4, <1>5, <1>6, <1>7, <1>9, AddCounted
    <2>. QED BY <2>1 DEF Added
<1>10. r = s
    <2>1. r = [a EXCEPT !.degree[v] = @ + by]
        BY <1>1, <1>3, <1>4 DEF Rebinned
    <2>2. a.degree[v] + by = d /\ a.degree = p.degree
        BY <1>9, <1>3, <1>8
    <2>. QED BY <1>5, <1>6, <2>1, <2>2
<1>11. Rebin(q, s)
    BY <1>8, <1>9 DEF Rebin
<1>. QED BY <1>3, <1>5, <1>7, <1>8, <1>9, <1>10, <1>11 DEF Bumped

-----------------------------------------------------------------------------
\* The neighbours are moved to other bins one after the other.

RebinAt(q, by, s, x) ==
    IF s = {} THEN q ELSE Rebinned(x[s \ {Pick(s)}], Pick(s), by)
RebinFn(q, by, S) == CHOOSE x : x = [s \in SUBSET S |-> RebinAt(q, by, s, x)]

LEMMA FoldIsRebin ==
    \A q, by, S : FoldSet(LAMBDA u, s : Rebinned(s, u, by), q, S) = RebinFn(q, by, S)[S]
BY DEF FoldSet, MapThenFoldSet, RebinFn, RebinAt, Pick

Shifted(g, f, S, by) == [w \in Vertices(g) |-> IF w \in S THEN f[w] + by ELSE f[w]]

\* What the histogram is once the vertices of S have been moved.
Moved(g, U, q, S, by, r) ==
    Counted(g, U, r) /\ Rebin(q, r) /\ r.degree = Shifted(g, q.degree, S, by)

LEMMA MovedNone ==
    ASSUME NEW g, NEW U, NEW q, Counted(g, U, q), NEW by
    PROVE  Moved(g, U, q, {}, by, q)
BY DEF Moved, Counted, Rebin, Shifted

LEMMA MovedOne ==
    ASSUME NEW g, IsSimple(g), NEW U \in SUBSET Vertices(g), NEW q, Counted(g, U, q),
           NEW by \in Int, NEW s \in SUBSET U, NEW v \in s, q.degree[v] + by \in 0..Size(g),
           NEW x, Moved(g, U, q, s \ {v}, by, x)
    PROVE  Moved(g, U, q, s, by, Rebinned(x, v, by))
<1>1. Counted(g, U, x) /\ Rebin(q, x) /\ x.degree = Shifted(g, q.degree, s \ {v}, by)
    BY DEF Moved
<1>2. v \in U /\ v \in Vertices(g)
    OBVIOUS
<1>3. x.degree[v] = q.degree[v]
    BY <1>1, <1>2 DEF Shifted
<1>4. PICK r : r = Rebinned(x, v, by)
    OBVIOUS
<1>5. /\ Counted(g, U, r) /\ Rebin(x, r)
      /\ r.degree = [x.degree EXCEPT ![v] = x.degree[v] + by]
    <2>1. x.degree[v] + by \in 0..Size(g)
        BY <1>3
    <2>2. Bumped(g, U, x, v, by, r)
        BY <1>1, <1>2, <1>4, <2>1, RebinnedCounted
    <2>. QED BY <2>2 DEF Bumped
<1>6. r.degree = Shifted(g, q.degree, s, by)
    <2>1. q.degree \in [Vertices(g) -> Int]
        BY DEF Counted
    <2>2. [Shifted(g, q.degree, s \ {v}, by) EXCEPT ![v] = q.degree[v] + by] = Shifted(g, q.degree, s, by)
        BY <1>2 DEF Shifted
    <2>. QED BY <1>1, <1>3, <1>5, <2>2
<1>7. Rebin(q, r)
    BY <1>1, <1>5 DEF Rebin
<1>. QED BY <1>4, <1>5, <1>6, <1>7 DEF Moved

LEMMA RebinEquation ==
    ASSUME NEW g, IsSimple(g), NEW U \in SUBSET Vertices(g), NEW q, Counted(g, U, q), IsRecord(q),
           NEW by \in Int, NEW S \in SUBSET U, \A w \in S : q.degree[w] + by \in 0..Size(g)
    PROVE  \A s \in SUBSET S : RebinFn(q, by, S)[s] = RebinAt(q, by, s, RebinFn(q, by, S))
<1>. DEFINE X == SUBSET S
            F == {q[y] : y \in DOMAIN q} \cup [Vertices(g) -> Int] \cup [0..Size(g) -> Int] \cup Int
            V == [DOMAIN q -> F]
            rank == [s \in X |-> Cardinality(s)]
            D == [s \in X |-> [x \in [X -> V] |->
                     IF RebinAt(q, by, s, x) \in V THEN RebinAt(q, by, s, x) ELSE q]]
<1>1. IsFiniteSet(S) /\ Size(g) \in Nat /\ Cardinality(S) \in Nat
    BY SimpleFacts DEF Size
<1>2. q \in V
    <2>1. q = [y \in DOMAIN q |-> q[y]]
        BY DEF IsRecord
    <2>. QED BY <2>1
<1>3. \A s \in X : rank[s] \in 0..Cardinality(S)
    <2>. SUFFICES ASSUME NEW s \in X PROVE rank[s] \in 0..Cardinality(S)
        OBVIOUS
    <2>1. IsFiniteSet(s) /\ Cardinality(s) <= Cardinality(S)
        BY <1>1, FS_Subset
    <2>2. Cardinality(s) \in Nat
        BY <2>1, FS_CardinalityType
    <2>. QED BY <1>1, <2>1, <2>2
<1>4. \A s \in X : \A x \in [X -> V] : D[s][x] \in V
    BY <1>2
<1>5. ASSUME NEW s \in X, NEW x \in [X -> V], NEW y \in [X -> V],
             \A t \in X : rank[t] < rank[s] => x[t] = y[t]
      PROVE  RebinAt(q, by, s, x) = RebinAt(q, by, s, y)
    <2>1. CASE s = {}
        BY <2>1 DEF RebinAt
    <2>2. CASE s # {}
        <3>1. Pick(s) \in s
            BY <2>2, PickIn
        <3>2. s \ {Pick(s)} \in X
            OBVIOUS
        <3>3. IsFiniteSet(s) /\ Cardinality(s \ {Pick(s)}) = Cardinality(s) - 1
            BY <1>1, <3>1, FS_Subset, FS_RemoveElement
        <3>4. Cardinality(s) \in Nat
            BY <3>3, FS_CardinalityType
        <3>5. x[s \ {Pick(s)}] = y[s \ {Pick(s)}]
            <4>1. rank[s \ {Pick(s)}] < rank[s]
                BY <3>2, <3>3, <3>4
            <4>. HIDE DEF rank
            <4>. QED BY <1>5, <3>2, <4>1
        <3>. QED BY <2>2, <3>5 DEF RebinAt
    <2>. QED BY <2>1, <2>2
<1>6. \A s \in X : \A x, y \in [X -> V] : (\A t \in X : rank[t] < rank[s] => x[t] = y[t]) => D[s][x] = D[s][y]
    <2>. HIDE DEF rank, V, X
    <2>1. \A s \in X : \A x, y \in [X -> V] : (\A t \in X : rank[t] < rank[s] => x[t] = y[t])
              => RebinAt(q, by, s, x) = RebinAt(q, by, s, y)
        BY <1>5
    <2>. QED BY <2>1
<1>7. Ranked(X, V, rank, Cardinality(S), D)
    <2>. HIDE DEF X, V, rank, D
    <2>. QED BY <1>3, <1>4, <1>6 DEF Ranked
<1>8. PICK f \in [X -> V] : \A s \in X : f[s] = D[s][f]
    <2>1. V # {}
        BY <1>2
    <2>. HIDE DEF X, V, rank, D
    <2>. QED BY <1>1, <1>7, <2>1, RankedRecursion
<1>9. \A s \in X : f[s] = IF RebinAt(q, by, s, f) \in V THEN RebinAt(q, by, s, f) ELSE q
    <2>. HIDE DEF V
    <2>. QED BY <1>8
<1>10. \A s \in X : Moved(g, U, q, s, by, RebinAt(q, by, s, f)) => RebinAt(q, by, s, f) \in V
    <2>. SUFFICES ASSUME NEW r, NEW s, Moved(g, U, q, s, by, r) PROVE r \in V
        OBVIOUS
    <2>1. /\ Counted(g, U, r) /\ DOMAIN r = DOMAIN q /\ r = [y \in DOMAIN q |-> r[y]]
          /\ \A y \in DOMAIN q \ {"degree", "bins", "top"} : r[y] = q[y]
        BY DEF Moved, Rebin, IsRecord
    <2>2. r.degree \in [Vertices(g) -> Int] /\ r.bins \in [0..Size(g) -> Int] /\ r.top \in Int
        BY <1>1, <2>1 DEF Counted
    <2>3. \A y \in DOMAIN q : r[y] \in F
        BY <2>1, <2>2
    <2>. HIDE DEF F
    <2>. QED BY <2>1, <2>3
<1>11. \A s \in X : f[s] = RebinAt(q, by, s, f) /\ Moved(g, U, q, s, by, f[s])
    <2>. DEFINE B == {s \in X : ~(f[s] = RebinAt(q, by, s, f) /\ Moved(g, U, q, s, by, f[s]))}
    <2>. SUFFICES ASSUME B # {} PROVE FALSE
        OBVIOUS
    <2>1. PICK s \in B : \A t \in SUBSET s : t # s => t \notin B
        <3>1. B \in SUBSET (SUBSET S)
            OBVIOUS
        <3>. HIDE DEF B
        <3>. QED BY <1>1, <3>1, MinimalSet
    <2>2. s # {}
        <3>1. RebinAt(q, by, {}, f) = q /\ {} \in X
            BY DEF RebinAt
        <3>2. f[{}] = q
            BY <1>9, <3>1
        <3>3. Moved(g, U, q, {}, by, q)
            BY MovedNone
        <3>. QED BY <2>1, <3>1, <3>2, <3>3
    <2>3. Pick(s) \in s
        BY <2>2, PickIn
    <2>4. PICK v \in s : v = Pick(s)
        BY <2>3
    <2>5. s \ {v} \in X /\ Moved(g, U, q, s \ {v}, by, f[s \ {v}])
        BY <2>1
    <2>6. RebinAt(q, by, s, f) = Rebinned(f[s \ {v}], v, by)
        BY <2>2, <2>4 DEF RebinAt
    <2>7. Moved(g, U, q, s, by, RebinAt(q, by, s, f))
        <3>1. s \in SUBSET U /\ q.degree[v] + by \in 0..Size(g)
            BY <2>1
        <3>. QED BY <2>5, <2>6, <3>1, MovedOne
    <2>8. f[s] = RebinAt(q, by, s, f)
        <3>. HIDE DEF V
        <3>. QED BY <1>9, <1>10, <2>7
    <2>. QED BY <2>1, <2>7, <2>8
<1>12. f = [s \in X |-> RebinAt(q, by, s, f)]
    <2>. HIDE DEF V
    <2>. QED BY <1>8, <1>11
<1>. DEFINE h == RebinFn(q, by, S)
<1>13. h = [s \in X |-> RebinAt(q, by, s, h)]
    BY <1>12 DEF RebinFn
<1>. HIDE DEF h
<1>14. \A s \in X : h[s] = RebinAt(q, by, s, h)
    BY <1>13
<1>. QED BY <1>14 DEF h

LEMMA FoldMoved ==
    ASSUME NEW g, IsSimple(g), NEW U \in SUBSET Vertices(g), NEW q, Counted(g, U, q), IsRecord(q),
           NEW by \in Int, NEW S \in SUBSET U, \A w \in S : q.degree[w] + by \in 0..Size(g),
           NEW r, r = FoldSet(LAMBDA u, s : Rebinned(s, u, by), q, S)
    PROVE  Moved(g, U, q, S, by, r)
<1>. DEFINE h == RebinFn(q, by, S)
            B == {s \in SUBSET S : ~Moved(g, U, q, s, by, h[s])}
<1>1. r = h[S]
    BY FoldIsRebin
<1>2. \A s \in SUBSET S : h[s] = RebinAt(q, by, s, h)
    BY ZenonT(60), RebinEquation
<1>. HIDE DEF h
<1>3. B = {}
    <2>. SUFFICES ASSUME B # {} PROVE FALSE
        OBVIOUS
    <2>1. PICK s \in B : \A t \in SUBSET s : t # s => t \notin B
        <3>1. B \in SUBSET (SUBSET S) /\ IsFiniteSet(S)
            BY SimpleFacts
        <3>. HIDE DEF B
        <3>. QED BY <3>1, MinimalSet
    <2>2. s # {}
        <3>1. h[{}] = q
            BY <1>2 DEF RebinAt
        <3>. QED BY <3>1, MovedNone
    <2>3. PICK v \in s : v = Pick(s)
        BY <2>2, PickIn
    <2>4. Moved(g, U, q, s \ {v}, by, h[s \ {v}])
        BY <2>1
    <2>5. h[s] = Rebinned(h[s \ {v}], v, by)
        BY <1>2, <2>2, <2>3 DEF RebinAt
    <2>6. s \in SUBSET U /\ q.degree[v] + by \in 0..Size(g)
        BY <2>1
    <2>8. PICK x : x = h[s \ {v}]
        OBVIOUS
    <2>9. Moved(g, U, q, s, by, Rebinned(x, v, by))
        <3>. HIDE DEF B
        <3>. QED BY <2>4, <2>6, <2>8, MovedOne
    <2>7. Moved(g, U, q, s, by, h[s])
        BY <2>5, <2>8, <2>9
    <2>. QED BY <2>7
<1>. QED BY <1>1, <1>3

-----------------------------------------------------------------------------
\* Paths.

First(p, m) == {p[j] : j \in 1..m}

IsPath(g, p) ==
    /\ p \in Seq(Vertices(g))
    /\ \A i, j \in 1..Len(p) : p[i] = p[j] => i = j

LEMMA PathFacts ==
    ASSUME NEW g, IsSimple(g), NEW p, IsPath(g, p)
    PROVE  /\ Len(p) \in Nat /\ DOMAIN p = 1..Len(p) /\ \A i \in 1..Len(p) : p[i] \in Vertices(g)
           /\ ToSet(p) = First(p, Len(p)) /\ ToSet(p) \in SUBSET Vertices(g)
           /\ Cardinality(ToSet(p)) = Len(p) /\ Len(p) <= Size(g)
           /\ \A m \in 0..Len(p) : /\ First(p, m) \in SUBSET Vertices(g)
                                   /\ Cardinality(First(p, m)) = m
                                   /\ m > 0 => /\ First(p, m) = First(p, m - 1) \cup {p[m]}
                                               /\ p[m] \notin First(p, m - 1)
           /\ First(p, 0) = {}
<1>1. Len(p) \in Nat /\ DOMAIN p = 1..Len(p) /\ \A i \in 1..Len(p) : p[i] \in Vertices(g)
    BY DEF IsPath
<1>2. ToSet(p) = First(p, Len(p))
    BY <1>1 DEF ToSet, First
<1>3. \A m \in 0..Len(p) : First(p, m) \in SUBSET Vertices(g)
    BY <1>1 DEF First
<1>4. First(p, 0) = {}
    BY DEF First
<1>5. \A m \in 1..Len(p) : First(p, m) = First(p, m - 1) \cup {p[m]} /\ p[m] \notin First(p, m - 1)
    <2>. SUFFICES ASSUME NEW m \in 1..Len(p)
                  PROVE  First(p, m) = First(p, m - 1) \cup {p[m]} /\ p[m] \notin First(p, m - 1)
        OBVIOUS
    <2>1. \A j : j \in 1..m <=> j \in 1..(m - 1) \/ j = m
        BY <1>1
    <2>2. First(p, m) = First(p, m - 1) \cup {p[m]}
        BY <2>1 DEF First
    <2>3. \A j \in 1..(m - 1) : p[j] # p[m]
        BY <1>1 DEF IsPath
    <2>. QED BY <2>2, <2>3 DEF First
<1>6. \A m \in 0..Len(p) : Cardinality(First(p, m)) = m
    <2>. DEFINE B == {m \in 0..Len(p) : Cardinality(First(p, m)) # m}
    <2>1. B = {}
        <3>. SUFFICES ASSUME B # {} PROVE FALSE
            OBVIOUS
        <3>1. B \in SUBSET Nat
            BY <1>1
        <3>2. PICK m \in B : \A k \in B : m <= k
            <4>. HIDE DEF B
            <4>. QED BY <3>1, Least
        <3>3. m # 0
            <4>1. Cardinality(First(p, 0)) = 0
                BY <1>4, FS_EmptySet
            <4>. QED BY <3>2, <4>1
        <3>4. m \in 1..Len(p) /\ m - 1 \in 0..Len(p)
            BY <1>1, <3>3
        <3>5. Cardinality(First(p, m - 1)) = m - 1
            BY <3>2, <3>4
        <3>6. IsFiniteSet(First(p, m - 1))
            BY <1>3, <3>4, SimpleFacts
        <3>7. Cardinality(First(p, m)) = Cardinality(First(p, m - 1)) + 1
            <4>1. First(p, m) = First(p, m - 1) \cup {p[m]} /\ p[m] \notin First(p, m - 1)
                BY <1>5, <3>4
            <4>. QED BY <3>6, <4>1, FS_AddElement
        <3>. QED BY <3>4, <3>5, <3>7
    <2>. QED BY <2>1
<1>7. Len(p) \in 0..Len(p)
    BY <1>1
<1>8. Cardinality(ToSet(p)) = Len(p)
    BY <1>2, <1>6, <1>7
<1>9. Len(p) <= Size(g)
    <2>1. ToSet(p) \in SUBSET Vertices(g) /\ IsFiniteSet(Vertices(g))
        BY <1>2, <1>3, <1>7, SimpleFacts
    <2>2. Cardinality(ToSet(p)) <= Cardinality(Vertices(g))
        BY <2>1, FS_Subset
    <2>. QED BY <1>8, <2>2 DEF Size
<1>10. \A m \in 0..Len(p) : m > 0 => m \in 1..Len(p)
    BY <1>1
<1>. QED BY <1>1, <1>2, <1>3, <1>4, <1>5, <1>6, <1>7, <1>8, <1>9, <1>10

Appended(g, p, v, r) ==
    /\ IsPath(g, r) /\ Len(r) = Len(p) + 1 /\ r[Len(r)] = v
    /\ ToSet(r) = ToSet(p) \cup {v}
    /\ \A i \in 1..Len(p) : r[i] = p[i]
    /\ \A m \in 0..Len(p) : First(r, m) = First(p, m)

LEMMA PathAppend ==
    ASSUME NEW g, IsSimple(g), NEW p, IsPath(g, p), NEW v \in Vertices(g) \ ToSet(p),
           NEW r, r = Append(p, v)
    PROVE  Appended(g, p, v, r)
<1>1. Len(p) \in Nat /\ p \in Seq(Vertices(g)) /\ DOMAIN p = 1..Len(p)
    BY DEF IsPath
<1>2. /\ r \in Seq(Vertices(g)) /\ Len(r) = Len(p) + 1 /\ r[Len(r)] = v
      /\ \A i \in 1..Len(p) : r[i] = p[i]
    BY <1>1
<1>3. \A i \in 1..Len(p) : p[i] \in ToSet(p)
    BY <1>1 DEF ToSet
<1>4. IsPath(g, r)
    <2>. SUFFICES ASSUME NEW i \in 1..Len(r), NEW j \in 1..Len(r), r[i] = r[j] PROVE i = j
        BY <1>2 DEF IsPath
    <2>1. (i \in 1..Len(p) \/ i = Len(r)) /\ (j \in 1..Len(p) \/ j = Len(r))
        BY <1>1, <1>2
    <2>2. \A x \in 1..Len(p) : r[x] # v
        BY <1>2, <1>3
    <2>. QED BY <1>2, <2>1, <2>2 DEF IsPath
<1>5. \A m \in 0..Len(p) : First(r, m) = First(p, m)
    <2>. SUFFICES ASSUME NEW m \in 0..Len(p) PROVE First(r, m) = First(p, m)
        OBVIOUS
    <2>1. \A j \in 1..m : r[j] = p[j]
        BY <1>1, <1>2
    <2>. QED BY <2>1 DEF First
<1>6. ToSet(r) = ToSet(p) \cup {v}
    <2>1. Len(r) \in 0..Len(r) /\ Len(r) > 0 /\ Len(r) - 1 = Len(p)
        BY <1>1, <1>2
    <2>4. ToSet(r) = First(r, Len(r))
        BY <1>4, PathFacts
    <2>2. First(r, Len(r)) = First(r, Len(p)) \cup {v}
        <3>1. First(r, Len(r)) = First(r, Len(r) - 1) \cup {r[Len(r)]}
            BY <1>4, <2>1, PathFacts
        <3>. QED BY <1>2, <2>1, <3>1
    <2>3. Len(p) \in 0..Len(p) /\ ToSet(p) = First(p, Len(p))
        BY <1>1, PathFacts
    <2>. QED BY <1>5, <2>2, <2>3, <2>4
<1>. QED BY <1>2, <1>4, <1>5, <1>6 DEF Appended

Shortened(g, p, r) ==
    /\ IsPath(g, r) /\ Len(r) = Len(p) - 1
    /\ \A i \in 1..Len(r) : r[i] = p[i]
    /\ ToSet(r) = ToSet(p) \ {p[Len(p)]} /\ p[Len(p)] \in ToSet(p)
    /\ ToSet(r) \cup {p[Len(p)]} = ToSet(p)
    /\ \A m \in 0..Len(r) : First(r, m) = First(p, m)

LEMMA PathFront ==
    ASSUME NEW g, IsSimple(g), NEW p, IsPath(g, p), Len(p) > 0,
           NEW r, r = Front(p)
    PROVE  Shortened(g, p, r)
<1>1. Len(p) \in Nat /\ p \in Seq(Vertices(g)) /\ DOMAIN p = 1..Len(p)
    BY DEF IsPath
<1>2. r = SubSeq(p, 1, Len(p) - 1)
    BY DEF Front
<1>3. r \in Seq(Vertices(g)) /\ Len(r) = Len(p) - 1 /\ \A i \in 1..Len(r) : r[i] = p[i]
    BY <1>1, <1>2
<1>4. IsPath(g, r)
    <2>. SUFFICES ASSUME NEW i \in 1..Len(r), NEW j \in 1..Len(r), r[i] = r[j] PROVE i = j
        BY <1>3 DEF IsPath
    <2>1. i \in 1..Len(p) /\ j \in 1..Len(p)
        BY <1>1, <1>3
    <2>. QED BY <1>3, <2>1 DEF IsPath
<1>5. \A m \in 0..Len(r) : First(r, m) = First(p, m)
    <2>. SUFFICES ASSUME NEW m \in 0..Len(r) PROVE First(r, m) = First(p, m)
        OBVIOUS
    <2>1. \A j \in 1..m : r[j] = p[j]
        BY <1>1, <1>3
    <2>. QED BY <2>1 DEF First
<1>6. /\ ToSet(r) = First(r, Len(r)) /\ ToSet(p) = First(p, Len(p))
      /\ First(p, Len(p)) = First(p, Len(p) - 1) \cup {p[Len(p)]}
      /\ p[Len(p)] \notin First(p, Len(p) - 1)
    <2>1. Len(p) \in 0..Len(p)
        BY <1>1
    <2>. QED BY <1>4, <2>1, PathFacts
<1>7. First(r, Len(r)) = First(p, Len(p) - 1)
    BY <1>1, <1>3, <1>5
<1>. QED BY <1>3, <1>4, <1>5, <1>6, <1>7 DEF Shortened

-----------------------------------------------------------------------------
\* The state of a node, kept up by apply and undo.

Shares(g, P, u) == Cardinality(g[u] \cap P)

\* One more vertex is placed: what its neighbours, and what the others see of it.
PlacedStep(g, P, v, u) ==
    /\ Shares(g, P, u) \in Nat /\ ResidualDegree(g, P, u) \in 0..Size(g)
    /\ u \in g[v] => /\ Shares(g, P \cup {v}, u) = Shares(g, P, u) + 1
                     /\ ResidualDegree(g, P, u) = ResidualDegree(g, P \cup {v}, u) + 1
    /\ u \notin g[v] => /\ Shares(g, P \cup {v}, u) = Shares(g, P, u)
                        /\ ResidualDegree(g, P, u) = ResidualDegree(g, P \cup {v}, u)

LEMMA OneMorePlaced ==
    ASSUME NEW g, IsSimple(g), NEW P \in SUBSET Vertices(g), NEW v \in Vertices(g) \ P,
           NEW u \in Vertices(g)
    PROVE  PlacedStep(g, P, v, u)
<1>1. /\ IsFiniteSet(g[u]) /\ IsFiniteSet(g[u] \cap P) /\ IsFiniteSet(g[u] \ P)
      /\ IsFiniteSet(g[u] \ (P \cup {v})) /\ g[u] \in SUBSET Vertices(g)
    <2>1. g[u] \in SUBSET Vertices(g)
        BY SimpleFacts
    <2>2. g[u] \cap P \in SUBSET Vertices(g) /\ g[u] \ P \in SUBSET Vertices(g)
          /\ g[u] \ (P \cup {v}) \in SUBSET Vertices(g)
        BY <2>1
    <2>. QED BY <2>1, <2>2, SimpleFacts
<1>2. Shares(g, P, u) \in Nat /\ ResidualDegree(g, P, u) \in 0..Size(g)
    <2>1. Cardinality(g[u] \ P) <= Cardinality(Vertices(g)) /\ IsFiniteSet(Vertices(g))
        <3>1. g[u] \ P \in SUBSET Vertices(g) /\ IsFiniteSet(Vertices(g))
            BY <1>1, SimpleFacts
        <3>. QED BY <3>1, FS_Subset
    <2>2. Cardinality(g[u] \ P) \in Nat /\ Cardinality(g[u] \cap P) \in Nat /\ Size(g) \in Nat
        BY <1>1, <2>1, FS_CardinalityType DEF Size
    <2>. QED BY <2>1, <2>2 DEF Shares, ResidualDegree, Size
<1>3. u \in g[v] <=> v \in g[u]
    BY SimpleFacts
<1>4. ASSUME u \in g[v]
      PROVE  /\ Shares(g, P \cup {v}, u) = Shares(g, P, u) + 1
             /\ ResidualDegree(g, P, u) = ResidualDegree(g, P \cup {v}, u) + 1
    <2>1. /\ g[u] \cap (P \cup {v}) = (g[u] \cap P) \cup {v} /\ v \notin g[u] \cap P
          /\ g[u] \ P = (g[u] \ (P \cup {v})) \cup {v} /\ v \notin g[u] \ (P \cup {v})
        BY <1>3, <1>4
    <2>2. Cardinality((g[u] \cap P) \cup {v}) = Cardinality(g[u] \cap P) + 1
        BY <1>1, <2>1, FS_AddElement
    <2>3. Cardinality((g[u] \ (P \cup {v})) \cup {v}) = Cardinality(g[u] \ (P \cup {v})) + 1
        BY <1>1, <2>1, FS_AddElement
    <2>. QED BY <2>1, <2>2, <2>3 DEF Shares, ResidualDegree
<1>5. ASSUME u \notin g[v]
      PROVE  /\ Shares(g, P \cup {v}, u) = Shares(g, P, u)
             /\ ResidualDegree(g, P, u) = ResidualDegree(g, P \cup {v}, u)
    <2>1. g[u] \cap (P \cup {v}) = g[u] \cap P /\ g[u] \ P = g[u] \ (P \cup {v})
        BY <1>3, <1>5
    <2>. QED BY <2>1 DEF Shares, ResidualDegree
<1>. QED BY <1>2, <1>4, <1>5 DEF PlacedStep

NodeFields == {"path", "tracked", "before", "degree", "bins", "top", "deltas"}

\* The residual degrees, of a vertex on the path those of its placement; the first
\* b vertices of the path are not undone. A resumed state may count too few.
Tracks(g, b, exact, q) ==
    /\ Counted(g, Vertices(g) \ Placed(q), q)
    /\ \A u \in Vertices(g) \ Placed(q) :
          /\ q.degree[u] <= ResidualDegree(g, Placed(q), u)
          /\ exact => q.degree[u] = ResidualDegree(g, Placed(q), u)
    /\ \A i \in (b + 1)..Len(q.path) :
          LET d == ResidualDegree(g, First(q.path, i - 1), q.path[i])
          IN  /\ q.degree[q.path[i]] \in 0..d
              /\ exact => q.degree[q.path[i]] = d

NodeOk(g, b, exact, q) ==
    /\ IsRecord(q) /\ NodeFields \subseteq DOMAIN q
    /\ IsPath(g, q.path)
    /\ q.before \in [Vertices(g) -> Int] /\ IsRecord(q.deltas)
    /\ \A v \in Vertices(g) \ Placed(q) : q.before[v] = Shares(g, Placed(q), v)
    /\ DOMAIN q.deltas = Vertices(g) \ Placed(q)
    /\ \A v \in Vertices(g) \ Placed(q) : q.deltas[v] = Delta(g, q.before, v)
    /\ \A i \in 1..Len(q.path) :
          q.before[q.path[i]] = Shares(g, First(q.path, i - 1), q.path[i])
    /\ q.tracked \in BOOLEAN
    /\ q.tracked => Tracks(g, b, exact, q)

LEMMA NodeCurrent ==
    ASSUME NEW g, NEW b, NEW exact, NEW q, NodeOk(g, b, exact, q)
    PROVE  Current(g, q)
BY DEF NodeOk, Current, Shares

\* The rest of the fields do not matter.
LEMMA NodeSame ==
    ASSUME NEW g, NEW b, NEW exact, NEW q, NodeOk(g, b, exact, q), NEW r, IsRecord(r),
           NodeFields \subseteq DOMAIN r, \A x \in NodeFields : r[x] = q[x]
    PROVE  NodeOk(g, b, exact, r) /\ Placed(r) = Placed(q)
<1>1. /\ r.path = q.path /\ r.tracked = q.tracked /\ r.before = q.before /\ r.degree = q.degree
      /\ r.bins = q.bins /\ r.top = q.top /\ r.deltas = q.deltas
    BY DEF NodeFields
<1>2. Placed(r) = Placed(q)
    BY <1>1 DEF Placed
<1>3. {"degree", "bins", "top"} \subseteq DOMAIN r
    BY DEF NodeFields
<1>. QED BY ZenonT(60), <1>1, <1>2, <1>3 DEF NodeOk, Tracks, Counted

\* A degree is never lowered below zero in an exact state.
LEMMA NoOverflow ==
    ASSUME NEW g, IsSimple(g), NEW b, NEW q, NodeOk(g, b, TRUE, q), NEW v \in Vertices(g) \ Placed(q)
    PROVE  ~Overflows(g, q, v)
<1>. SUFFICES ASSUME q.tracked, NEW u \in g[v] \ (Placed(q) \cup {v}), q.degree[u] = 0 PROVE FALSE
    BY DEF Overflows
<1>1. Placed(q) \in SUBSET Vertices(g) /\ u \in Vertices(g)
    <2>1. IsPath(g, q.path)
        BY DEF NodeOk
    <2>. QED BY <2>1, PathFacts, SimpleFacts DEF Placed
<1>2. PlacedStep(g, Placed(q), v, u)
    BY <1>1, OneMorePlaced
<1>3. q.degree[u] = ResidualDegree(g, Placed(q), u)
    BY <1>1 DEF NodeOk, Tracks
<1>4. u \notin Placed(q) \cup {v}
    OBVIOUS
<1>5. ResidualDegree(g, Placed(q) \cup {v}, u) \in Nat
    <2>1. g[u] \ (Placed(q) \cup {v}) \in SUBSET Vertices(g)
        BY <1>1, SimpleFacts
    <2>. QED BY <2>1, SimpleFacts DEF ResidualDegree
<1>. QED BY <1>2, <1>3, <1>5 DEF PlacedStep

\* The node with v placed, or v taken back, whatever else the record holds.
Leads(g, b, exact, q, r, path) ==
    /\ NodeOk(g, b, exact, r) /\ r.path = path
    /\ DOMAIN r = DOMAIN q /\ r.tracked = q.tracked
    /\ \A x \in DOMAIN q \ NodeFields : r[x] = q[x]

\* apply keeps the incremental state (neighbour counts, deltas, histogram) what the
\* longer path determines, in a resumed session too as long as it does not throw.
THEOREM ApplyOk ==
    ASSUME NEW g, IsSimple(g), NEW b \in Nat, NEW exact \in BOOLEAN, NEW q, NodeOk(g, b, exact, q),
           b <= Len(q.path), NEW v \in Vertices(g) \ Placed(q), ~Overflows(g, q, v)
    PROVE  Leads(g, b, exact, q, Apply(g, q, v), Append(q.path, v))
<1>. DEFINE V == Vertices(g)
            P == Placed(q)
<1>1. /\ IsRecord(q) /\ NodeFields \subseteq DOMAIN q /\ IsPath(g, q.path)
      /\ q.before \in [V -> Int] /\ IsRecord(q.deltas) /\ q.tracked \in BOOLEAN
      /\ DOMAIN q.deltas = V \ P
    BY DEF NodeOk
<1>2. P \in SUBSET V /\ P = ToSet(q.path) /\ Len(q.path) \in Nat
    BY <1>1, PathFacts DEF Placed
<1>3. PICK others : others = g[v] \ (P \cup {v})
    OBVIOUS
<1>4. others \in SUBSET (V \ (P \cup {v})) /\ g[v] \in SUBSET V
    BY <1>2, <1>3, SimpleFacts
<1>5. PICK l : l = IF ~q.tracked THEN q
                   ELSE FoldSet(LAMBDA u, s : Rebinned(s, u, -1), RemoveBin(q, q.degree[v]), others)
    OBVIOUS
<1>6. PICK p : p = Append(q.path, v)
    OBVIOUS
<1>7. PICK bf : bf = [u \in V |-> IF u \in others THEN q.before[u] + 1 ELSE q.before[u]]
    OBVIOUS
<1>8. PICK ds : ds = [u \in (V \ P) \ {v} |-> IF u \in others THEN q.deltas[u] - 2 ELSE q.deltas[u]]
    OBVIOUS
<1>9. PICK r : r = Apply(g, q, v)
    OBVIOUS
<1>10. \* The histogram.
       q.tracked => /\ Counted(g, V \ (P \cup {v}), l) /\ Rebin(q, l)
                    /\ l.degree = Shifted(g, q.degree, others, -1)
    <2>. SUFFICES ASSUME q.tracked
                  PROVE  /\ Counted(g, V \ (P \cup {v}), l) /\ Rebin(q, l)
                         /\ l.degree = Shifted(g, q.degree, others, -1)
        OBVIOUS
    <2>1. PICK T \in SUBSET V : T = V \ (P \cup {v})
        OBVIOUS
    <2>2. T \cup {v} = V \ P /\ v \in V \ T /\ others \in SUBSET T
        BY <1>4, <2>1
    <2>3. PICK m : m = RemoveBin(q, q.degree[v])
        OBVIOUS
    <2>4. Counted(g, T \cup {v}, q)
        BY <2>2 DEF NodeOk, Tracks
    <2>5. Counted(g, T, m) /\ Rebin(q, m) /\ m.degree = q.degree
        BY <2>2, <2>3, <2>4, RemoveCounted
    <2>6. IsRecord(m)
        BY <1>1, <2>5 DEF Rebin
    <2>7. \A u \in others : m.degree[u] + (-1) \in 0..Size(g)
        <3>. SUFFICES ASSUME NEW u \in others PROVE m.degree[u] + (-1) \in 0..Size(g)
            OBVIOUS
        <3>1. q.degree[u] \in 0..Size(g)
            BY <1>4, <2>4, <2>2 DEF Counted
        <3>2. q.degree[u] # 0
            BY <1>3 DEF Overflows
        <3>. QED BY <2>5, <3>1, <3>2, SimpleFacts DEF Size
    <2>. DEFINE by == -1
    <2>8. l = FoldSet(LAMBDA u, s : Rebinned(s, u, by), m, others)
        BY <1>5, <2>3
    <2>9. Moved(g, T, m, others, by, l)
        <3>1. \A u \in others : m.degree[u] + by \in 0..Size(g)
            BY <2>7
        <3>2. by \in Int
            OBVIOUS
        <3>. HIDE DEF by
        <3>. QED BY <2>2, <2>5, <2>6, <2>8, <3>1, <3>2, FoldMoved
    <2>. QED BY <2>1, <2>5, <2>9 DEF Moved, Rebin
<1>11. /\ DOMAIN l = DOMAIN q /\ IsRecord(l) /\ l.path = q.path /\ l.before = q.before
       /\ l.deltas = q.deltas /\ l.tracked = q.tracked /\ \A x \in DOMAIN q \ NodeFields : l[x] = q[x]
    <2>1. CASE q.tracked
        BY <1>1, <1>10, <2>1 DEF Rebin, NodeFields
    <2>2. CASE ~q.tracked
        BY <1>1, <1>5, <2>2
    <2>. QED BY <2>1, <2>2
<1>12. r = [l EXCEPT !.path = p, !.before = bf, !.deltas = ds]
    <2>1. r = [l EXCEPT !.path = Append(@, v),
                        !.before = [u \in DOMAIN @ |-> IF u \in others THEN @[u] + 1 ELSE @[u]],
                        !.deltas = [u \in DOMAIN @ \ {v} |-> IF u \in others THEN @[u] - 2 ELSE @[u]]]
        BY <1>3, <1>5, <1>9 DEF Apply
    <2>2. DOMAIN q.before = V
        BY <1>1
    <2>3. bf = [u \in DOMAIN l.before |-> IF u \in others THEN l.before[u] + 1 ELSE l.before[u]]
        BY <1>7, <1>11, <2>2
    <2>4. ds = [u \in DOMAIN l.deltas \ {v} |-> IF u \in others THEN l.deltas[u] - 2 ELSE l.deltas[u]]
        BY <1>1, <1>8, <1>11
    <2>5. p = Append(l.path, v)
        BY <1>6, <1>11
    <2>. QED BY <2>1, <2>3, <2>4, <2>5
<1>13. /\ DOMAIN r = DOMAIN q /\ IsRecord(r) /\ r.path = p /\ r.before = bf /\ r.deltas = ds
       /\ r.tracked = q.tracked /\ r.degree = l.degree /\ r.bins = l.bins /\ r.top = l.top
       /\ \A x \in DOMAIN q \ NodeFields : r[x] = q[x]
    <2>1. NodeFields \subseteq DOMAIN l
        BY <1>1, <1>11
    <2>2. DOMAIN r = DOMAIN l /\ IsRecord(r)
        BY <1>12 DEF IsRecord
    <2>3. \A x \in DOMAIN l : r[x] = IF x = "path" THEN p ELSE IF x = "before" THEN bf
                                     ELSE IF x = "deltas" THEN ds ELSE l[x]
        BY <1>12
    <2>. QED BY <1>11, <2>1, <2>2, <2>3 DEF NodeFields
<1>14. /\ IsPath(g, p) /\ Len(p) = Len(q.path) + 1 /\ p[Len(p)] = v /\ ToSet(p) = P \cup {v}
       /\ \A i \in 1..Len(q.path) : p[i] = q.path[i]
       /\ \A m \in 0..Len(q.path) : First(p, m) = First(q.path, m)
    <2>1. v \in V \ ToSet(q.path)
        BY <1>2
    <2>2. Appended(g, q.path, v, p)
        BY <1>1, <1>6, <2>1, PathAppend
    <2>. QED BY <1>2, <2>2 DEF Appended
<1>15. PICK R : R = P \cup {v}
    OBVIOUS
<1>16. Placed(r) = R /\ R \in SUBSET V
    BY <1>2, <1>13, <1>14, <1>15 DEF Placed
<1>17. \A u \in V \ R : PlacedStep(g, P, v, u) /\ (u \in others <=> u \in g[v])
    BY <1>2, <1>3, <1>15, OneMorePlaced
<1>18. /\ bf \in [V -> Int] /\ IsRecord(ds)
       /\ \A u \in V \ R : bf[u] = Shares(g, R, u)
       /\ DOMAIN ds = V \ R
    <2>1. \A u \in V : q.before[u] \in Int /\ q.before[u] + 1 \in Int
        BY <1>1
    <2>2. \A u \in V : bf[u] \in Int
        BY <1>7, <2>1
    <2>3. bf \in [V -> Int]
        BY <1>7, <2>2
    <2>4. IsRecord(ds) /\ DOMAIN ds = V \ R
        BY <1>8, <1>15 DEF IsRecord
    <2>5. ASSUME NEW u \in V \ R PROVE bf[u] = Shares(g, R, u)
        <3>1. q.before[u] = Shares(g, P, u)
            BY <1>15 DEF NodeOk
        <3>. QED BY <1>7, <1>15, <1>17, <3>1 DEF PlacedStep
    <2>. QED BY <2>3, <2>4, <2>5
<1>19. \A u \in V \ R : ds[u] = Delta(g, bf, u)
    <2>. SUFFICES ASSUME NEW u \in V \ R PROVE ds[u] = Delta(g, bf, u)
        OBVIOUS
    <2>1. q.deltas[u] = Degree(g, u) - 2 * q.before[u]
        BY <1>15 DEF NodeOk, Delta
    <2>2. Degree(g, u) \in Nat /\ q.before[u] \in Int
        <3>1. g[u] \in SUBSET V
            BY SimpleFacts
        <3>. QED BY <1>1, <3>1, SimpleFacts DEF Degree
    <2>3. CASE u \in others
        <3>1. ds[u] = q.deltas[u] - 2 /\ bf[u] = q.before[u] + 1
            BY <1>7, <1>8, <1>15, <2>3
        <3>. QED BY <2>1, <2>2, <3>1 DEF Delta
    <2>4. CASE u \notin others
        <3>1. ds[u] = q.deltas[u] /\ bf[u] = q.before[u]
            BY <1>7, <1>8, <1>15, <2>4
        <3>. QED BY <2>1, <3>1 DEF Delta
    <2>. QED BY <2>3, <2>4
<1>20. \A i \in 1..Len(p) : i \in 1..Len(q.path) \/ i = Len(p)
    BY <1>2, <1>14
<1>21. \A i \in 1..Len(q.path) : q.path[i] \in P /\ q.path[i] \in V /\ First(p, i - 1) = First(q.path, i - 1)
    <2>1. \A i \in 1..Len(q.path) : q.path[i] \in P
        BY <1>1, <1>2, PathFacts DEF ToSet
    <2>2. \A i \in 1..Len(q.path) : i - 1 \in 0..Len(q.path)
        BY <1>2
    <2>. QED BY <1>2, <1>14, <2>1, <2>2
<1>22. First(p, Len(p) - 1) = P
    <2>1. Len(p) - 1 = Len(q.path) /\ Len(q.path) \in 0..Len(q.path)
        BY <1>2, <1>14
    <2>2. P = First(q.path, Len(q.path))
        BY <1>1, <1>2, PathFacts
    <2>. QED BY <1>14, <2>1, <2>2
<1>23. \A i \in 1..Len(p) : bf[p[i]] = Shares(g, First(p, i - 1), p[i])
    <2>. SUFFICES ASSUME NEW i \in 1..Len(p) PROVE bf[p[i]] = Shares(g, First(p, i - 1), p[i])
        OBVIOUS
    <2>1. CASE i \in 1..Len(q.path)
        <3>1. p[i] = q.path[i] /\ p[i] \notin others /\ p[i] \in V
            BY <1>4, <1>14, <1>21, <2>1
        <3>2. bf[p[i]] = q.before[p[i]]
            BY <1>7, <3>1
        <3>3. q.before[q.path[i]] = Shares(g, First(q.path, i - 1), q.path[i])
            BY <2>1 DEF NodeOk
        <3>. QED BY <1>21, <2>1, <3>1, <3>2, <3>3
    <2>2. CASE i = Len(p)
        <3>1. v \notin others /\ bf[v] = q.before[v]
            BY <1>4, <1>7
        <3>2. q.before[v] = Shares(g, P, v)
            BY DEF NodeOk
        <3>. QED BY <1>14, <1>22, <2>2, <3>1, <3>2
    <2>. QED BY <1>20, <2>1, <2>2
<1>24. q.tracked => Tracks(g, b, exact, r)
    <2>. SUFFICES ASSUME q.tracked PROVE Tracks(g, b, exact, r)
        OBVIOUS
    <2>1. Counted(g, V \ R, r)
        <3>1. Counted(g, V \ R, l)
            BY <1>10, <1>15
        <3>2. {"degree", "bins", "top"} \subseteq DOMAIN r
            BY <1>1, <1>13 DEF NodeFields
        <3>. QED BY <1>13, <3>1, <3>2 DEF Counted
    <2>2. r.degree = Shifted(g, q.degree, others, -1) /\ q.degree \in [V -> Int]
        BY <1>10, <1>13 DEF NodeOk, Tracks, Counted
    <2>3. ASSUME NEW u \in V \ R
          PROVE  /\ r.degree[u] <= ResidualDegree(g, R, u)
                 /\ exact => r.degree[u] = ResidualDegree(g, R, u)
        <3>1. /\ q.degree[u] <= ResidualDegree(g, P, u)
              /\ exact => q.degree[u] = ResidualDegree(g, P, u)
            BY <1>15 DEF NodeOk, Tracks
        <3>2. PlacedStep(g, P, v, u) /\ (u \in others <=> u \in g[v])
            BY <1>17
        <3>3. q.degree[u] \in Int /\ ResidualDegree(g, P, u) \in Int
            BY <2>2, <3>2 DEF PlacedStep
        <3>6. ResidualDegree(g, R, u) \in Nat
            <4>1. g[u] \ R \in SUBSET V
                BY SimpleFacts
            <4>. QED BY <4>1, SimpleFacts DEF ResidualDegree
        <3>4. CASE u \in others
            <4>1. r.degree[u] = q.degree[u] + (-1)
                BY <2>2, <3>4 DEF Shifted
            <4>2. ResidualDegree(g, P, u) = ResidualDegree(g, R, u) + 1
                BY <1>15, <3>2, <3>4 DEF PlacedStep
            <4>. QED BY <3>1, <3>3, <3>6, <4>1, <4>2
        <3>5. CASE u \notin others
            <4>1. r.degree[u] = q.degree[u]
                BY <2>2, <3>5 DEF Shifted
            <4>2. ResidualDegree(g, P, u) = ResidualDegree(g, R, u)
                BY <1>15, <3>2, <3>5 DEF PlacedStep
            <4>. QED BY <3>1, <4>1, <4>2
        <3>. QED BY <3>4, <3>5
    <2>4. ASSUME NEW i \in (b + 1)..Len(p), NEW d, d = ResidualDegree(g, First(p, i - 1), p[i])
          PROVE  r.degree[p[i]] \in 0..d /\ (exact => r.degree[p[i]] = d)
        <3>1. i \in 1..Len(p)
            BY <1>2, <1>14
        <3>2. CASE i \in 1..Len(q.path)
            <4>1. p[i] = q.path[i] /\ p[i] \notin others /\ p[i] \in V
                BY <1>4, <1>14, <1>21, <3>2
            <4>2. r.degree[p[i]] = q.degree[p[i]]
                BY <2>2, <4>1 DEF Shifted
            <4>3. d = ResidualDegree(g, First(q.path, i - 1), q.path[i])
                BY <1>21, <2>4, <3>2, <4>1
            <4>4. i \in (b + 1)..Len(q.path)
                BY <3>2, <1>2
            <4>. QED BY <4>1, <4>2, <4>3, <4>4 DEF NodeOk, Tracks
        <3>3. CASE i = Len(p)
            <4>1. p[i] = v /\ d = ResidualDegree(g, P, v)
                BY <1>14, <1>22, <2>4, <3>3
            <4>2. r.degree[v] = q.degree[v]
                BY <1>4, <2>2 DEF Shifted
            <4>3. /\ q.degree[v] <= ResidualDegree(g, P, v) /\ q.degree[v] \in 0..Size(g)
                  /\ exact => q.degree[v] = ResidualDegree(g, P, v)
                BY DEF NodeOk, Tracks, Counted
            <4>4. PlacedStep(g, P, v, v)
                BY <1>2, OneMorePlaced
            <4>. QED BY <4>1, <4>2, <4>3, <4>4 DEF PlacedStep
        <3>. QED BY <1>20, <3>1, <3>2, <3>3
    <2>. QED BY <1>13, <1>16, <2>1, <2>3, <2>4 DEF Tracks
<1>25. NodeFields \subseteq DOMAIN r
    BY <1>1, <1>13
<1>26. NodeOk(g, b, exact, r)
    BY <1>1, <1>13, <1>14, <1>16, <1>18, <1>19, <1>23, <1>24, <1>25 DEF NodeOk
<1>. QED BY <1>6, <1>9, <1>13, <1>26 DEF Leads

RaisedBins(q, v, others) ==
    IF ~q.tracked THEN q
    ELSE LET s == FoldSet(LAMBDA u, t : Rebinned(t, u, 1), q, others)
         IN  AddBin(s, s.degree[v])
Lowered(q, others) ==
    [u \in DOMAIN q.before |-> IF u \in others THEN q.before[u] - 1 ELSE q.before[u]]
Unplaced(g, v, others, before, l) ==
    [l EXCEPT !.path = Front(@), !.before = before,
              !.deltas = [u \in DOMAIN @ \cup {v} |->
                             IF u = v \/ u \in others THEN Delta(g, before, u) ELSE @[u]]]

LEMMA UndoIs ==
    \A g, q, v : Undo(g, q, v) =
        Unplaced(g, v, g[v] \ Placed(q), Lowered(q, g[v] \ Placed(q)), RaisedBins(q, v, g[v] \ Placed(q)))
BY DEF Undo, Unplaced, Lowered, RaisedBins

\* undo of the last vertex restores the incremental state of the shorter path.
THEOREM UndoOk ==
    ASSUME NEW g, IsSimple(g), NEW b \in Nat, NEW exact \in BOOLEAN, NEW q, NodeOk(g, b, exact, q),
           b < Len(q.path), NEW v, v = q.path[Len(q.path)]
    PROVE  Leads(g, b, exact, q, Undo(g, q, v), Front(q.path))
<1>. DEFINE V == Vertices(g)
            P == Placed(q)
<1>1. /\ IsRecord(q) /\ NodeFields \subseteq DOMAIN q /\ IsPath(g, q.path)
      /\ q.before \in [V -> Int] /\ IsRecord(q.deltas) /\ q.tracked \in BOOLEAN
      /\ DOMAIN q.deltas = V \ P
    BY DEF NodeOk
<1>2. P \in SUBSET V /\ P = ToSet(q.path) /\ Len(q.path) \in Nat /\ Len(q.path) > 0
    BY <1>1, PathFacts DEF Placed
<1>3. PICK p : p = Front(q.path)
    OBVIOUS
<1>4. /\ IsPath(g, p) /\ Len(p) = Len(q.path) - 1 /\ \A i \in 1..Len(p) : p[i] = q.path[i]
      /\ ToSet(p) = P \ {v} /\ ToSet(p) \cup {v} = P /\ v \in P
      /\ \A m \in 0..Len(p) : First(p, m) = First(q.path, m)
    <2>1. Shortened(g, q.path, p)
        BY <1>1, <1>2, <1>3, PathFront
    <2>. QED BY <1>2, <2>1 DEF Shortened
<1>5. PICK R : R = ToSet(p)
    OBVIOUS
<1>6. /\ R \in SUBSET V /\ R \cup {v} = P /\ v \in V \ R /\ V \ R = (V \ P) \cup {v}
    BY <1>2, <1>4, <1>5
<1>7. PICK others : others = g[v] \ P
    OBVIOUS
<1>8. others \in SUBSET (V \ P) /\ v \notin others
    BY <1>6, <1>7, SimpleFacts
<1>9. PICK bf : bf = [u \in V |-> IF u \in others THEN q.before[u] - 1 ELSE q.before[u]]
    OBVIOUS
<1>10. PICK ds : ds = [u \in (V \ P) \cup {v} |->
                          IF u = v \/ u \in others THEN Delta(g, bf, u) ELSE q.deltas[u]]
    OBVIOUS
<1>11. PICK s : s = FoldSet(LAMBDA u, t : Rebinned(t, u, 1), q, others)
    OBVIOUS
<1>30. PICK l : l = RaisedBins(q, v, others)
    OBVIOUS
<1>12. l = IF ~q.tracked THEN q ELSE AddBin(s, s.degree[v])
    BY <1>11, <1>30 DEF RaisedBins
<1>13. PICK r : r = Undo(g, q, v)
    OBVIOUS
<1>14. \A u \in V : PlacedStep(g, R, v, u) /\ R \cup {v} = P
    BY <1>6, OneMorePlaced
<1>15. \A u \in V : ResidualDegree(g, P, u) \in Nat
    BY SimpleFacts DEF ResidualDegree
<1>16. /\ First(q.path, Len(q.path) - 1) = R /\ Len(q.path) \in (b + 1)..Len(q.path)
    <2>1. Len(p) \in 0..Len(p) /\ Len(p) = Len(q.path) - 1
        BY <1>2, <1>4
    <2>2. R = First(p, Len(p))
        BY <1>4, <1>5, PathFacts
    <2>. QED BY <1>2, <1>4, <2>1, <2>2
<1>17. \* The histogram.
       q.tracked => /\ Counted(g, V \ R, l) /\ Rebin(q, l)
                    /\ l.degree = Shifted(g, q.degree, others, 1)
    <2>. SUFFICES ASSUME q.tracked
                  PROVE  /\ Counted(g, V \ R, l) /\ Rebin(q, l)
                         /\ l.degree = Shifted(g, q.degree, others, 1)
        OBVIOUS
    <2>1. PICK T \in SUBSET V : T = V \ P
        OBVIOUS
    <2>2. T \cup {v} = V \ R /\ v \in V \ T /\ others \in SUBSET T
        BY <1>4, <1>6, <1>8, <2>1
    <2>3. Tracks(g, b, exact, q) /\ Counted(g, T, q)
        BY <2>1 DEF NodeOk, Tracks
    <2>4. \A u \in others : q.degree[u] + 1 \in 0..Size(g)
        <3>. SUFFICES ASSUME NEW u \in others PROVE q.degree[u] + 1 \in 0..Size(g)
            OBVIOUS
        <3>1. q.degree[u] \in 0..Size(g) /\ q.degree[u] <= ResidualDegree(g, P, u) /\ u \in V
            BY <1>8, <2>1, <2>3 DEF Counted, Tracks
        <3>2. ResidualDegree(g, R, u) = ResidualDegree(g, P, u) + 1 /\ ResidualDegree(g, R, u) \in 0..Size(g)
            BY <1>7, <1>14, <3>1 DEF PlacedStep
        <3>. QED BY <1>15, <3>1, <3>2, SimpleFacts DEF Size
    <2>5. Moved(g, T, q, others, 1, s)
        <3>. DEFINE by == 1
        <3>1. s = FoldSet(LAMBDA u, t : Rebinned(t, u, by), q, others)
            BY <1>11
        <3>2. by \in Int /\ \A u \in others : q.degree[u] + by \in 0..Size(g)
            BY <2>4
        <3>. HIDE DEF by
        <3>3. Moved(g, T, q, others, by, s)
            BY <1>1, <2>2, <2>3, <3>1, <3>2, FoldMoved
        <3>. QED BY <3>3 DEF by
    <2>6. Counted(g, T, s) /\ Rebin(q, s) /\ s.degree = Shifted(g, q.degree, others, 1)
        BY <2>5 DEF Moved
    <2>7. PICK d : d = s.degree[v]
        OBVIOUS
    <2>8. d \in 0..Size(g)
        <3>1. d = q.degree[v]
            BY <1>6, <1>8, <2>6, <2>7 DEF Shifted
        <3>2. q.degree[v] \in 0..ResidualDegree(g, R, v)
            BY <1>16, <2>3 DEF Tracks
        <3>3. ResidualDegree(g, R, v) \in 0..Size(g) /\ Size(g) \in Nat
            BY <1>6, <1>14, SimpleFacts DEF PlacedStep, Size
        <3>. QED BY <3>1, <3>2, <3>3
    <2>9. l = AddBin(s, d)
        BY <1>12, <2>7
    <2>10. PICK f : f = [s.degree EXCEPT ![v] = d]
        OBVIOUS
    <2>11. PICK t : t = [l EXCEPT !.degree = f]
        OBVIOUS
    <2>12. Added(g, T, s, v, d, f, l, t)
        BY <2>2, <2>6, <2>8, <2>9, <2>10, <2>11, AddCounted
    <2>. QED BY <2>2, <2>6, <2>7, <2>12 DEF Added, Rebin
<1>18. /\ DOMAIN l = DOMAIN q /\ IsRecord(l) /\ l.path = q.path /\ l.before = q.before
       /\ l.deltas = q.deltas /\ l.tracked = q.tracked /\ \A x \in DOMAIN q \ NodeFields : l[x] = q[x]
    <2>1. CASE q.tracked
        BY <1>1, <1>17, <2>1 DEF Rebin, NodeFields
    <2>2. CASE ~q.tracked
        BY <1>1, <1>12, <2>2
    <2>. QED BY <2>1, <2>2
<1>19. r = [l EXCEPT !.path = p, !.before = bf, !.deltas = ds]
    <2>2. DOMAIN q.before = V
        BY <1>1
    <2>3. bf = [u \in DOMAIN q.before |-> IF u \in others THEN q.before[u] - 1 ELSE q.before[u]]
        BY <1>9, <2>2
    <2>1. r = [l EXCEPT !.path = Front(@), !.before = bf,
                        !.deltas = [u \in DOMAIN @ \cup {v} |->
                            IF u = v \/ u \in others THEN Delta(g, bf, u) ELSE @[u]]]
        <3>1. bf = Lowered(q, others)
            BY <2>3 DEF Lowered
        <3>2. r = Unplaced(g, v, others, bf, l)
            BY <1>7, <1>13, <1>30, <3>1, UndoIs
        <3>. QED BY <3>2 DEF Unplaced
    <2>4. ds = [u \in DOMAIN l.deltas \cup {v} |->
                   IF u = v \/ u \in others THEN Delta(g, bf, u) ELSE l.deltas[u]]
        BY <1>1, <1>10, <1>18
    <2>5. p = Front(l.path)
        BY <1>3, <1>18
    <2>. QED BY <2>1, <2>4, <2>5
<1>20. /\ DOMAIN r = DOMAIN q /\ IsRecord(r) /\ r.path = p /\ r.before = bf /\ r.deltas = ds
       /\ r.tracked = q.tracked /\ r.degree = l.degree /\ r.bins = l.bins /\ r.top = l.top
       /\ \A x \in DOMAIN q \ NodeFields : r[x] = q[x]
    <2>1. NodeFields \subseteq DOMAIN l
        BY <1>1, <1>18
    <2>2. DOMAIN r = DOMAIN l /\ IsRecord(r)
        BY <1>19 DEF IsRecord
    <2>3. \A x \in DOMAIN l : r[x] = IF x = "path" THEN p ELSE IF x = "before" THEN bf
                                     ELSE IF x = "deltas" THEN ds ELSE l[x]
        BY <1>19
    <2>. QED BY <1>18, <2>1, <2>2, <2>3 DEF NodeFields
<1>21. Placed(r) = R
    BY <1>5, <1>20 DEF Placed
<1>22. \A i \in 1..Len(p) : /\ i \in 1..Len(q.path) /\ p[i] = q.path[i] /\ p[i] \in V
                            /\ p[i] \notin others /\ First(p, i - 1) = First(q.path, i - 1)
    <2>. SUFFICES ASSUME NEW i \in 1..Len(p)
                  PROVE  /\ i \in 1..Len(q.path) /\ p[i] = q.path[i] /\ p[i] \in V
                         /\ p[i] \notin others /\ First(p, i - 1) = First(q.path, i - 1)
        OBVIOUS
    <2>1. i \in 1..Len(q.path) /\ i - 1 \in 0..Len(p)
        BY <1>2, <1>4
    <2>2. p[i] \in R /\ DOMAIN p = 1..Len(p)
        BY <1>4, <1>5, PathFacts DEF ToSet
    <2>. QED BY <1>4, <1>6, <1>8, <2>1, <2>2
<1>23. \A u \in V : q.before[u] \in Int /\ bf[u] \in Int
    BY <1>1, <1>9
<1>24. \A u \in V \ R : bf[u] = Shares(g, R, u)
    <2>. SUFFICES ASSUME NEW u \in V \ R PROVE bf[u] = Shares(g, R, u)
        OBVIOUS
    <2>1. PlacedStep(g, R, v, u)
        BY <1>14
    <2>2. CASE u = v
        <3>1. q.before[v] = Shares(g, R, v)
            BY <1>2, <1>16 DEF NodeOk
        <3>. QED BY <1>6, <1>8, <1>9, <2>2, <3>1
    <2>3. CASE u # v
        <3>1. u \in V \ P /\ q.before[u] = Shares(g, P, u)
            BY <1>6, <2>3 DEF NodeOk
        <3>2. u \in others <=> u \in g[v]
            BY <1>7, <3>1
        <3>3. CASE u \in others
            <4>1. bf[u] = q.before[u] - 1 /\ Shares(g, P, u) = Shares(g, R, u) + 1 /\ Shares(g, R, u) \in Nat
                BY <1>9, <1>14, <2>1, <3>2, <3>3 DEF PlacedStep
            <4>. QED BY <3>1, <4>1
        <3>4. CASE u \notin others
            <4>1. bf[u] = q.before[u] /\ Shares(g, P, u) = Shares(g, R, u)
                BY <1>9, <1>14, <2>1, <3>2, <3>4 DEF PlacedStep
            <4>. QED BY <3>1, <4>1
        <3>. QED BY <3>3, <3>4
    <2>. QED BY <2>2, <2>3
<1>25. /\ bf \in [V -> Int] /\ IsRecord(ds) /\ DOMAIN ds = V \ R
       /\ \A u \in V \ R : ds[u] = Delta(g, bf, u)
    <2>1. bf \in [V -> Int]
        BY <1>9, <1>23
    <2>2. IsRecord(ds) /\ DOMAIN ds = V \ R
        BY <1>6, <1>10 DEF IsRecord
    <2>3. ASSUME NEW u \in V \ R PROVE ds[u] = Delta(g, bf, u)
        <3>1. CASE u = v \/ u \in others
            BY <1>6, <1>10, <3>1
        <3>2. CASE ~(u = v \/ u \in others)
            <4>1. ds[u] = q.deltas[u] /\ u \in V \ P /\ bf[u] = q.before[u]
                BY <1>6, <1>9, <1>10, <3>2
            <4>. QED BY <4>1 DEF NodeOk, Delta
        <3>. QED BY <3>1, <3>2
    <2>. QED BY <2>1, <2>2, <2>3
<1>26. \A i \in 1..Len(p) : bf[p[i]] = Shares(g, First(p, i - 1), p[i])
    <2>. SUFFICES ASSUME NEW i \in 1..Len(p) PROVE bf[p[i]] = Shares(g, First(p, i - 1), p[i])
        OBVIOUS
    <2>1. q.before[q.path[i]] = Shares(g, First(q.path, i - 1), q.path[i])
        BY <1>22 DEF NodeOk
    <2>. QED BY <1>9, <1>22, <2>1
<1>27. q.tracked => Tracks(g, b, exact, r)
    <2>. SUFFICES ASSUME q.tracked PROVE Tracks(g, b, exact, r)
        OBVIOUS
    <2>1. Counted(g, V \ R, r)
        <3>2. {"degree", "bins", "top"} \subseteq DOMAIN r
            BY <1>1, <1>20 DEF NodeFields
        <3>. QED BY <1>17, <1>20, <3>2 DEF Counted
    <2>2. r.degree = Shifted(g, q.degree, others, 1) /\ q.degree \in [V -> Int]
        BY <1>17, <1>20 DEF NodeOk, Tracks, Counted
    <2>3. ASSUME NEW u \in V \ R
          PROVE  /\ r.degree[u] <= ResidualDegree(g, R, u)
                 /\ exact => r.degree[u] = ResidualDegree(g, R, u)
        <3>1. PlacedStep(g, R, v, u) /\ R \cup {v} = P /\ ResidualDegree(g, P, u) \in Nat
            BY <1>14, <1>15
        <3>2. q.degree[u] \in Int
            BY <2>2
        <3>3. CASE u = v
            <4>1. r.degree[v] = q.degree[v]
                BY <1>6, <1>8, <2>2 DEF Shifted
            <4>2. /\ q.degree[v] \in 0..ResidualDegree(g, R, v)
                  /\ exact => q.degree[v] = ResidualDegree(g, R, v)
                BY <1>16 DEF NodeOk, Tracks
            <4>3. ResidualDegree(g, R, v) \in Int
                BY <1>6, <1>14 DEF PlacedStep
            <4>. QED BY <3>3, <4>1, <4>2, <4>3
        <3>4. CASE u # v
            <4>1. /\ u \in V \ P /\ q.degree[u] <= ResidualDegree(g, P, u)
                  /\ exact => q.degree[u] = ResidualDegree(g, P, u)
                BY <1>6, <3>4 DEF NodeOk, Tracks
            <4>2. u \in others <=> u \in g[v]
                BY <1>7, <4>1
            <4>3. CASE u \in others
                <5>1. r.degree[u] = q.degree[u] + 1 /\ ResidualDegree(g, R, u) = ResidualDegree(g, P, u) + 1
                    BY <2>2, <3>1, <4>2, <4>3 DEF Shifted, PlacedStep
                <5>. QED BY <3>1, <3>2, <4>1, <5>1
            <4>4. CASE u \notin others
                <5>1. r.degree[u] = q.degree[u] /\ ResidualDegree(g, R, u) = ResidualDegree(g, P, u)
                    BY <2>2, <3>1, <4>2, <4>4 DEF Shifted, PlacedStep
                <5>. QED BY <4>1, <5>1
            <4>. QED BY <4>3, <4>4
        <3>. QED BY <3>3, <3>4
    <2>4. ASSUME NEW i \in (b + 1)..Len(p), NEW d, d = ResidualDegree(g, First(p, i - 1), p[i])
          PROVE  r.degree[p[i]] \in 0..d /\ (exact => r.degree[p[i]] = d)
        <3>1. i \in 1..Len(p) /\ i \in (b + 1)..Len(q.path)
            BY <1>2, <1>4
        <3>2. r.degree[p[i]] = q.degree[p[i]]
            BY <1>22, <2>2, <3>1 DEF Shifted
        <3>3. d = ResidualDegree(g, First(q.path, i - 1), q.path[i]) /\ p[i] = q.path[i]
            BY <1>22, <2>4, <3>1
        <3>. QED BY <3>1, <3>2, <3>3 DEF NodeOk, Tracks
    <2>. QED BY <1>20, <1>21, <2>1, <2>3, <2>4 DEF Tracks
<1>28. NodeFields \subseteq DOMAIN r
    BY <1>1, <1>20
<1>29. NodeOk(g, b, exact, r)
    BY <1>1, <1>4, <1>20, <1>21, <1>24, <1>25, <1>26, <1>27, <1>28 DEF NodeOk
<1>. QED BY <1>3, <1>13, <1>20, <1>29 DEF Leads

LEMMA PathCount ==
    ASSUME NEW g, IsSimple(g), NEW p, IsPath(g, p), NEW m \in 0..Len(p), NEW A
    PROVE  Cardinality({i \in 1..m : p[i] \in A}) = Cardinality(A \cap First(p, m))
<1>. DEFINE I == {i \in 1..m : p[i] \in A}
            S == A \cap First(p, m)
            f == [i \in I |-> p[i]]
<1>1. Len(p) \in Nat /\ m \in Nat
    BY PathFacts
<1>2. f \in Bijection(I, S)
    <2>1. \A i \in I : f[i] \in S
        BY DEF First
    <2>2. \A i, j \in I : f[i] = f[j] => i = j
        <3>1. \A i \in I : i \in 1..Len(p)
            BY <1>1
        <3>. QED BY <3>1 DEF IsPath
    <2>3. \A x \in S : \E i \in I : f[i] = x
        BY DEF First
    <2>. QED BY <2>1, <2>2, <2>3 DEF Bijection, Injection, Surjection, IsInjective
<1>3. IsFiniteSet(I)
    <2>1. IsFiniteSet(1..m) /\ I \in SUBSET (1..m)
        BY <1>1, FS_Interval
    <2>. QED BY <2>1, FS_Subset
<1>4. ExistsBijection(I, S)
    <2>. HIDE DEF f
    <2>. QED BY <1>2 DEF ExistsBijection
<1>. HIDE DEF I, S
<1>5. Cardinality(I) = Cardinality(S)
    BY <1>3, <1>4, FS_Bijection
<1>. QED BY <1>5 DEF I, S

LEMMA BeforeIs ==
    ASSUME NEW g, IsSimple(g), NEW p, IsPath(g, p)
    PROVE  /\ BeforeOf(g, p) \in [Vertices(g) -> Int]
           /\ \A v \in Vertices(g) \ ToSet(p) : BeforeOf(g, p)[v] = Shares(g, ToSet(p), v)
           /\ \A m \in 1..Len(p) : BeforeOf(g, p)[p[m]] = Shares(g, First(p, m - 1), p[m])
<1>1. /\ Len(p) \in Nat /\ DOMAIN p = 1..Len(p) /\ ToSet(p) = First(p, Len(p))
      /\ \A i \in 1..Len(p) : p[i] \in Vertices(g)
    BY PathFacts
<1>2. \A v \in Vertices(g) \ ToSet(p) : BeforeOf(g, p)[v] = Shares(g, ToSet(p), v)
    <2>. SUFFICES ASSUME NEW v \in Vertices(g) \ ToSet(p)
                  PROVE  BeforeOf(g, p)[v] = Shares(g, ToSet(p), v)
        OBVIOUS
    <2>. DEFINE I == {i \in DOMAIN p : p[i] \in g[v] /\ \A j \in 1..i : p[j] # v}
    <2>1. I = {i \in 1..Len(p) : p[i] \in g[v]}
        <3>1. \A i \in 1..Len(p) : \A j \in 1..i : p[j] # v
            BY <1>1 DEF ToSet
        <3>. QED BY <1>1, <3>1
    <2>2. BeforeOf(g, p)[v] = Cardinality(I)
        BY DEF BeforeOf
    <2>3. Len(p) \in 0..Len(p)
        BY <1>1
    <2>4. Cardinality({i \in 1..Len(p) : p[i] \in g[v]}) = Cardinality(g[v] \cap First(p, Len(p)))
        BY <2>3, PathCount
    <2>. QED BY <1>1, <2>1, <2>2, <2>4 DEF Shares
<1>3. \A m \in 1..Len(p) : BeforeOf(g, p)[p[m]] = Shares(g, First(p, m - 1), p[m])
    <2>. SUFFICES ASSUME NEW m \in 1..Len(p)
                  PROVE  BeforeOf(g, p)[p[m]] = Shares(g, First(p, m - 1), p[m])
        OBVIOUS
    <2>. DEFINE I == {i \in DOMAIN p : p[i] \in g[p[m]] /\ \A j \in 1..i : p[j] # p[m]}
    <2>1. I = {i \in 1..(m - 1) : p[i] \in g[p[m]]}
        <3>1. ASSUME NEW i \in 1..Len(p)
              PROVE  (\A j \in 1..i : p[j] # p[m]) <=> i \in 1..(m - 1)
            <4>1. CASE i < m
                <5>1. \A j \in 1..i : j \in 1..Len(p) /\ j # m
                    BY <1>1, <4>1
                <5>. QED BY <1>1, <4>1, <5>1 DEF IsPath
            <4>2. CASE ~(i < m)
                <5>1. m \in 1..i /\ i \notin 1..(m - 1)
                    BY <1>1, <4>2
                <5>. QED BY <5>1
            <4>. QED BY <4>1, <4>2
        <3>2. \A i : i \in 1..(m - 1) => i \in 1..Len(p)
            BY <1>1
        <3>. QED BY <1>1, <3>1, <3>2
    <2>2. BeforeOf(g, p)[p[m]] = Cardinality(I)
        BY <1>1 DEF BeforeOf
    <2>3. m - 1 \in 0..Len(p)
        BY <1>1
    <2>4. Cardinality({i \in 1..(m - 1) : p[i] \in g[p[m]]}) = Cardinality(g[p[m]] \cap First(p, m - 1))
        BY <2>3, PathCount
    <2>. QED BY <2>1, <2>2, <2>4 DEF Shares
<1>4. BeforeOf(g, p) \in [Vertices(g) -> Int]
    <2>1. ASSUME NEW v \in Vertices(g) PROVE BeforeOf(g, p)[v] \in Int
        <3>. DEFINE I == {i \in DOMAIN p : p[i] \in g[v] /\ \A j \in 1..i : p[j] # v}
        <3>1. IsFiniteSet(1..Len(p)) /\ I \in SUBSET (1..Len(p))
            BY <1>1, FS_Interval
        <3>2. IsFiniteSet(I)
            BY <3>1, FS_Subset
        <3>3. Cardinality(I) \in Nat
            BY <3>2, FS_CardinalityType
        <3>. QED BY <3>3 DEF BeforeOf
    <2>2. DOMAIN BeforeOf(g, p) = Vertices(g) /\ BeforeOf(g, p) = [v \in Vertices(g) |-> BeforeOf(g, p)[v]]
        BY DEF BeforeOf
    <2>. QED BY <2>1, <2>2
<1>. QED BY <1>2, <1>3, <1>4

LEMMA NodeAtOk ==
    ASSUME NEW g, IsSimple(g), NEW p, IsPath(g, p), NEW tracked \in BOOLEAN,
           NEW b \in Nat, NEW exact \in BOOLEAN, exact => b >= Len(p)
    PROVE  /\ NodeOk(g, b, exact, NodeAt(g, p, tracked)) /\ Placed(NodeAt(g, p, tracked)) = ToSet(p)
           /\ DOMAIN NodeAt(g, p, tracked) = NodeFields
           /\ NodeAt(g, p, tracked).path = p /\ NodeAt(g, p, tracked).tracked = tracked
<1>. DEFINE V == Vertices(g)
            P == ToSet(p)
<1>1. PICK q : q = NodeAt(g, p, tracked)
    OBVIOUS
<1>2. /\ DOMAIN q = NodeFields /\ IsRecord(q) /\ q.path = p /\ q.tracked = tracked
      /\ q.before = BeforeOf(g, p)
      /\ q.degree = [v \in V |-> IF v \in P \/ ~tracked THEN 0 ELSE ResidualDegree(g, P, v)]
      /\ q.bins = IF tracked THEN Histogram(g, P) ELSE [d \in 0..Cardinality(V) |-> 0]
      /\ q.top = IF tracked THEN MaximumDegree(g, P) ELSE 0
      /\ q.deltas = [v \in V \ P |-> Delta(g, BeforeOf(g, p), v)]
    BY <1>1 DEF NodeAt, NodeFields, IsRecord
<1>3. Placed(q) = P /\ P \in SUBSET V /\ Len(p) \in Nat
    BY <1>2, PathFacts DEF Placed
<1>4. /\ q.before \in [V -> Int] /\ IsRecord(q.deltas) /\ DOMAIN q.deltas = V \ P
      /\ \A v \in V \ P : q.before[v] = Shares(g, P, v) /\ q.deltas[v] = Delta(g, q.before, v)
      /\ \A i \in 1..Len(p) : q.before[p[i]] = Shares(g, First(p, i - 1), p[i])
    <2>1. IsRecord(q.deltas)
        BY <1>2 DEF IsRecord
    <2>. QED BY <1>2, <2>1, BeforeIs
<1>5. ASSUME tracked PROVE Tracks(g, b, exact, q)
    <2>1. /\ \A v \in V : ResidualDegree(g, P, v) \in 0..Size(g)
          /\ MaximumDegree(g, P) \in {0} \cup {ResidualDegree(g, P, v) : v \in Remaining(g, P)}
          /\ \A v \in Remaining(g, P) : ResidualDegree(g, P, v) <= MaximumDegree(g, P)
        <3>1. \A v \in V : ResidualDegree(g, P, v) \in 0..Size(g)
            <4>. SUFFICES ASSUME NEW v \in V PROVE ResidualDegree(g, P, v) \in 0..Size(g)
                OBVIOUS
            <4>1. g[v] \ P \in SUBSET V /\ IsFiniteSet(V)
                BY SimpleFacts
            <4>2. Cardinality(g[v] \ P) <= Cardinality(V) /\ Cardinality(g[v] \ P) \in Nat
                BY <4>1, FS_Subset, SimpleFacts
            <4>. QED BY <4>1, <4>2, FS_CardinalityType DEF ResidualDegree, Size
        <3>. QED BY <1>3, <3>1, ResidualDegrees
    <2>2. Size(g) \in Nat
        BY SimpleFacts DEF Size
    <2>3. \A v \in V \ P : q.degree[v] = ResidualDegree(g, P, v)
        BY <1>2, <1>5
    <2>4. \A d \in 0..Size(g) : q.bins[d] = Cardinality(Having(V \ P, q.degree, d))
        <3>. SUFFICES ASSUME NEW d \in 0..Size(g)
                      PROVE  q.bins[d] = Cardinality(Having(V \ P, q.degree, d))
            OBVIOUS
        <3>1. Having(V \ P, q.degree, d) = {v \in V \ P : ResidualDegree(g, P, v) = d}
            BY <2>3 DEF Having
        <3>2. q.bins = Histogram(g, P)
            BY <1>2, <1>5
        <3>3. Histogram(g, P)[d] = Cardinality({v \in V \ P : ResidualDegree(g, P, v) = d})
            BY DEF Histogram, Size
        <3>. QED BY <3>1, <3>2, <3>3
    <2>5. \A d \in 0..Size(g) : q.bins[d] \in Nat
        <3>. SUFFICES ASSUME NEW d \in 0..Size(g) PROVE q.bins[d] \in Nat
            OBVIOUS
        <3>1. Having(V \ P, q.degree, d) \in SUBSET V
            BY DEF Having
        <3>2. Cardinality(Having(V \ P, q.degree, d)) \in Nat
            BY <3>1, SimpleFacts
        <3>. QED BY <2>4, <3>2
    <2>6. q.bins \in [0..Size(g) -> Int]
        <3>1. DOMAIN q.bins = 0..Size(g) /\ q.bins = [d \in 0..Size(g) |-> q.bins[d]]
            BY <1>2, <1>5 DEF Histogram, Size
        <3>2. \A d \in 0..Size(g) : q.bins[d] \in Int
            BY <2>5
        <3>. QED BY <3>1, <3>2
    <2>7. q.degree \in [V -> Int]
        <3>1. \A v \in V : (IF v \in P \/ ~tracked THEN 0 ELSE ResidualDegree(g, P, v)) \in Int
            BY <2>1, <2>2
        <3>. QED BY <1>2, <3>1
    <2>8. /\ q.top \in 0..Size(g) /\ \A w \in V \ P : q.degree[w] <= q.top
          /\ q.top # 0 => \E w \in V \ P : q.degree[w] = q.top
        <3>1. q.top = MaximumDegree(g, P)
            BY <1>2, <1>5
        <3>. QED BY <2>1, <2>2, <2>3, <3>1 DEF Remaining
    <2>9. q.top # 0 => q.bins[q.top] > 0
        <3>. SUFFICES ASSUME q.top # 0 PROVE q.bins[q.top] > 0
            OBVIOUS
        <3>1. PICK w \in V \ P : q.degree[w] = q.top
            BY <2>8
        <3>2. w \in Having(V \ P, q.degree, q.top) /\ Having(V \ P, q.degree, q.top) \in SUBSET V
            BY <3>1 DEF Having
        <3>3. IsFiniteSet(Having(V \ P, q.degree, q.top))
            BY <3>2, SimpleFacts
        <3>4. Cardinality(Having(V \ P, q.degree, q.top)) # 0
            BY <3>2, <3>3, FS_EmptySet
        <3>. QED BY <2>4, <2>5, <2>8, <3>4
    <2>10. Counted(g, V \ P, q)
        <3>1. {"degree", "bins", "top"} \subseteq DOMAIN q
            BY <1>2 DEF NodeFields
        <3>. QED BY <2>1, <2>3, <2>4, <2>6, <2>7, <2>8, <2>9, <3>1 DEF Counted
    <2>11. ASSUME NEW i \in (b + 1)..Len(p), NEW d, d = ResidualDegree(g, First(p, i - 1), p[i])
           PROVE  q.degree[p[i]] \in 0..d /\ (exact => q.degree[p[i]] = d)
        <3>1. ~exact /\ i \in 1..Len(p)
            BY <1>3
        <3>2. p[i] \in V /\ p[i] \in P
            <4>1. DOMAIN p = 1..Len(p) /\ P \in SUBSET V
                BY PathFacts
            <4>. QED BY <3>1, <4>1 DEF ToSet
        <3>3. q.degree[p[i]] = 0
            BY <1>2, <3>2
        <3>4. d \in Nat
            <4>1. g[p[i]] \ First(p, i - 1) \in SUBSET V
                BY <3>2, SimpleFacts
            <4>. QED BY <2>11, <4>1, SimpleFacts DEF ResidualDegree
        <3>. QED BY <3>1, <3>3, <3>4
    <2>12. \A u \in V \ P : q.degree[u] <= ResidualDegree(g, P, u)
        BY <2>1, <2>2, <2>3
    <2>. QED BY <1>2, <1>3, <2>3, <2>10, <2>11, <2>12 DEF Tracks
<1>6. NodeOk(g, b, exact, q)
    BY <1>2, <1>3, <1>4, <1>5 DEF NodeOk
<1>. QED BY <1>1, <1>2, <1>3, <1>6

\* The degree bound read off the histogram refutes only what does not fit, in a resumed
\* session too, where the degrees may be too small.
THEOREM HistogramSound ==
    ASSUME NEW g, IsSimple(g), NEW k \in Nat, NEW b, NEW exact, NEW q, NodeOk(g, b, exact, q),
           q.tracked, DegreeBound(q.top) > k
    PROVE  ~Fits(g, k, Placed(q))
<1>. DEFINE P == Placed(q)
            U == Vertices(g) \ P
<1>1. P \in SUBSET Vertices(g)
    <2>1. IsPath(g, q.path)
        BY DEF NodeOk
    <2>. QED BY <2>1, PathFacts DEF Placed
<1>2. Counted(g, U, q) /\ \A u \in U : q.degree[u] <= ResidualDegree(g, P, u)
    BY DEF NodeOk, Tracks
<1>3. q.top \in 0..Size(g) /\ Size(g) \in Nat
    BY <1>2, SimpleFacts DEF Counted, Size
<1>4. q.top # 0
    BY DEF DegreeBound
<1>5. PICK w \in U : q.degree[w] = q.top
    <2>1. Cardinality(Having(U, q.degree, q.top)) > 0
        BY <1>2, <1>3, <1>4 DEF Counted
    <2>2. Having(U, q.degree, q.top) # {}
        BY <2>1, FS_EmptySet
    <2>. QED BY <2>2 DEF Having
<1>6. q.top <= MaximumDegree(g, P) /\ MaximumDegree(g, P) \in Nat
    <2>1. /\ ResidualDegree(g, P, w) <= MaximumDegree(g, P) /\ MaximumDegree(g, P) \in Nat
          /\ ResidualDegree(g, P, w) \in Nat
        BY <1>1, ResidualDegrees DEF Remaining
    <2>. QED BY <1>2, <1>3, <1>5, <2>1
<1>7. DegreeBound(MaximumDegree(g, P)) > k
    <2>. DEFINE m == MaximumDegree(g, P)
    <2>. HIDE DEF m
    <2>1. (m + 1) \div 2 > k
        BY <1>3, <1>6 DEF m, DegreeBound
    <2>. QED BY <2>1 DEF m, DegreeBound
<1>. QED BY <1>1, <1>7, ResidualDegreeSound

-----------------------------------------------------------------------------
\* The table of the residual DP, and the order traced back.

LEMMA MaxTwo ==
    ASSUME NEW a \in Nat, NEW c \in Nat
    PROVE  /\ Max({a, c}) \in Nat /\ a <= Max({a, c}) /\ c <= Max({a, c})
           /\ \A k \in Int : Max({a, c}) <= k <=> a <= k /\ c <= k
<1>1. IsFiniteSet({a, c})
    <2>1. IsFiniteSet({a}) /\ {a, c} = {a} \cup {c}
        BY FS_Singleton
    <2>. QED BY <2>1, FS_AddElement
<1>2. Max({a, c}) \in {a, c} /\ a <= Max({a, c}) /\ c <= Max({a, c})
    <2>1. {a, c} \in SUBSET Int /\ {a, c} # {}
        OBVIOUS
    <2>. QED BY <1>1, <2>1, MaxIs
<1>. QED BY <1>2

EndWidths(g, P, S, x) == {Max({x[S \ {v}], Cut(g, P \cup S)}) : v \in S}
TableAt(g, P, S, x) == IF S = {} THEN Cut(g, P) ELSE Min(EndWidths(g, P, S, x))
TableFn(g, P) == CHOOSE x : x = [S \in SUBSET (Vertices(g) \ P) |-> TableAt(g, P, S, x)]

LEMMA TableIsFn == \A g, P : ResidualTable(g, P) = TableFn(g, P)
BY DEF ResidualTable, TableFn, TableAt, EndWidths

LEMMA EndsNat ==
    ASSUME NEW g, IsSimple(g), NEW P \in SUBSET Vertices(g), NEW S \in SUBSET (Vertices(g) \ P), S # {},
           NEW x, \A v \in S : x[S \ {v}] \in Nat
    PROVE  /\ EndWidths(g, P, S, x) \in SUBSET Nat
           /\ Min(EndWidths(g, P, S, x)) \in EndWidths(g, P, S, x)
           /\ \A e \in EndWidths(g, P, S, x) : Min(EndWidths(g, P, S, x)) <= e
<1>1. Cut(g, P \cup S) \in Nat
    <2>1. P \cup S \in SUBSET Vertices(g)
        OBVIOUS
    <2>. QED BY <2>1, CutNat
<1>2. \A v \in S : Max({x[S \ {v}], Cut(g, P \cup S)}) \in Nat
    BY <1>1, MaxTwo
<1>. DEFINE f == [v \in S |-> Max({x[S \ {v}], Cut(g, P \cup S)})]
<1>3. IsFiniteSet(S)
    <2>1. S \in SUBSET Vertices(g)
        OBVIOUS
    <2>. QED BY <2>1, SimpleFacts
<1>4. IsFiniteSet({f[v] : v \in S})
    <2>. HIDE DEF f
    <2>. QED BY <1>3, ImageFinite
<1>5. EndWidths(g, P, S, x) = {f[v] : v \in S}
    BY DEF EndWidths
<1>6. EndWidths(g, P, S, x) \in SUBSET Nat
    BY <1>2 DEF EndWidths
<1>7. EndWidths(g, P, S, x) # {}
    BY DEF EndWidths
<1>8. EndWidths(g, P, S, x) \in SUBSET Int
    BY <1>6
<1>. QED BY <1>4, <1>5, <1>6, <1>7, <1>8, MinIs

LEMMA TableEquation ==
    ASSUME NEW g, IsSimple(g), NEW P \in SUBSET Vertices(g)
    PROVE  \A S \in SUBSET (Vertices(g) \ P) :
               /\ TableFn(g, P)[S] = TableAt(g, P, S, TableFn(g, P))
               /\ TableFn(g, P)[S] \in Nat
<1>. DEFINE U == Vertices(g) \ P
            X == SUBSET U
            rank == [S \in X |-> Cardinality(S)]
            D == [S \in X |-> [x \in [X -> Nat] |-> TableAt(g, P, S, x)]]
<1>1. IsFiniteSet(U) /\ Cardinality(U) \in Nat
    BY SimpleFacts
<1>2. \A S \in X : rank[S] \in 0..Cardinality(U)
    <2>. SUFFICES ASSUME NEW S \in X PROVE rank[S] \in 0..Cardinality(U)
        OBVIOUS
    <2>1. IsFiniteSet(S) /\ Cardinality(S) <= Cardinality(U)
        BY <1>1, FS_Subset
    <2>2. Cardinality(S) \in Nat
        BY <2>1, FS_CardinalityType
    <2>. QED BY <1>1, <2>1, <2>2
<1>3. ASSUME NEW S \in X, NEW x \in [X -> Nat] PROVE TableAt(g, P, S, x) \in Nat
    <2>1. CASE S = {}
        BY <2>1, CutNat DEF TableAt
    <2>2. CASE S # {}
        <3>1. \A v \in S : S \ {v} \in X
            OBVIOUS
        <3>2. \A v \in S : x[S \ {v}] \in Nat
            <4>. HIDE DEF X
            <4>. QED BY <3>1
        <3>3. Min(EndWidths(g, P, S, x)) \in Nat
            BY <2>2, <3>2, EndsNat
        <3>. QED BY <2>2, <3>3 DEF TableAt
    <2>. QED BY <2>1, <2>2
<1>4. ASSUME NEW S \in X, NEW x \in [X -> Nat], NEW y \in [X -> Nat],
             \A T \in X : rank[T] < rank[S] => x[T] = y[T]
      PROVE  TableAt(g, P, S, x) = TableAt(g, P, S, y)
    <2>1. \A v \in S : x[S \ {v}] = y[S \ {v}]
        <3>. SUFFICES ASSUME NEW v \in S PROVE x[S \ {v}] = y[S \ {v}]
            OBVIOUS
        <3>1. IsFiniteSet(S) /\ Cardinality(S \ {v}) = Cardinality(S) - 1
            BY <1>1, FS_Subset, FS_RemoveElement
        <3>2. Cardinality(S) \in Nat
            BY <3>1, FS_CardinalityType
        <3>3. S \ {v} \in X /\ rank[S \ {v}] < rank[S]
            BY <3>1, <3>2
        <3>. HIDE DEF rank, X
        <3>. QED BY <1>4, <3>3
    <2>2. EndWidths(g, P, S, x) = EndWidths(g, P, S, y)
        BY <2>1 DEF EndWidths
    <2>. QED BY <2>2 DEF TableAt
<1>5. Ranked(X, Nat, rank, Cardinality(U), D)
    <2>1. \A S \in X : \A x \in [X -> Nat] : D[S][x] \in Nat
        BY <1>3
    <2>2. \A S \in X : \A x, y \in [X -> Nat] :
              (\A T \in X : rank[T] < rank[S] => x[T] = y[T]) => D[S][x] = D[S][y]
        <3>. HIDE DEF rank, X
        <3>1. \A S \in X : \A x, y \in [X -> Nat] :
              (\A T \in X : rank[T] < rank[S] => x[T] = y[T]) => TableAt(g, P, S, x) = TableAt(g, P, S, y)
            BY <1>4
        <3>. QED BY <3>1
    <2>. HIDE DEF X, rank, D
    <2>. QED BY <1>2, <2>1, <2>2 DEF Ranked
<1>6. PICK x \in [X -> Nat] : \A S \in X : x[S] = D[S][x]
    <2>. HIDE DEF X, rank, D, U
    <2>. QED BY <1>1, <1>5, RankedRecursion
<1>7. x = [S \in X |-> TableAt(g, P, S, x)]
    BY <1>6
<1>. DEFINE h == TableFn(g, P)
<1>8. h = [S \in X |-> TableAt(g, P, S, h)]
    BY <1>7 DEF TableFn
<1>. HIDE DEF h
<1>9. \A S \in X : h[S] = TableAt(g, P, S, h)
    BY <1>8
<1>10. \A S \in X : h[S] \in Nat
    <2>. DEFINE B == {S \in X : h[S] \notin Nat}
    <2>. SUFFICES ASSUME B # {} PROVE FALSE
        OBVIOUS
    <2>1. PICK S \in B : \A T \in SUBSET S : T # S => T \notin B
        <3>1. B \in SUBSET (SUBSET U)
            OBVIOUS
        <3>. HIDE DEF B, U
        <3>. QED BY <1>1, <3>1, MinimalSet
    <2>2. CASE S = {}
        BY <1>9, <2>1, <2>2, CutNat DEF TableAt
    <2>3. CASE S # {}
        <3>1. \A v \in S : h[S \ {v}] \in Nat
            BY <2>1
        <3>2. Min(EndWidths(g, P, S, h)) \in Nat
            BY <2>3, <3>1, EndsNat
        <3>. QED BY <1>9, <2>1, <2>3, <3>2 DEF TableAt
    <2>. QED BY <2>2, <2>3
<1>. QED BY <1>9, <1>10 DEF h

(* The vertices the table of S may end with.                                  *)
Lasts(g, P, S) ==
    {v \in S : Max({TableFn(g, P)[S \ {v}], Cut(g, P \cup S)}) = TableFn(g, P)[S]}

(* A set of the table keeps a threshold exactly if its cut does and one of its  *)
(* vertices may come last.                                                    *)
LEMMA TableStep ==
    ASSUME NEW g, IsSimple(g), NEW P \in SUBSET Vertices(g)
    PROVE  /\ TableFn(g, P)[{}] = Cut(g, P)
           /\ \A S \in SUBSET (Vertices(g) \ P), v \in Vertices(g) \ P :
                 v \notin S => \A k \in Int :
                    TableFn(g, P)[S] <= k /\ Cut(g, P \cup (S \cup {v})) <= k
                        => TableFn(g, P)[S \cup {v}] <= k
           /\ \A S \in SUBSET (Vertices(g) \ P) : S # {} =>
                 /\ Min(Lasts(g, P, S)) \in S
                 /\ TableFn(g, P)[S \ {Min(Lasts(g, P, S))}] <= TableFn(g, P)[S]
                 /\ Cut(g, P \cup S) <= TableFn(g, P)[S]
<1> PICK F : F = TableFn(g, P)  OBVIOUS
<1>0. \A S \in SUBSET (Vertices(g) \ P) : F[S] = TableAt(g, P, S, F) /\ F[S] \in Nat
  BY TableEquation
<1>1. F[{}] = Cut(g, P)
  BY <1>0 DEF TableAt
<1>2. \A S \in SUBSET (Vertices(g) \ P) : Cut(g, P \cup S) \in Nat
  BY CutNat
<1>3. ASSUME NEW S \in SUBSET (Vertices(g) \ P), NEW v \in Vertices(g) \ P, v \notin S, NEW k \in Int,
             F[S] <= k, Cut(g, P \cup (S \cup {v})) <= k
      PROVE  F[S \cup {v}] <= k
  <2> PICK T : T = S \cup {v}  OBVIOUS
  <2>1. T \in SUBSET (Vertices(g) \ P) /\ T # {} /\ v \in T /\ T \ {v} = S
    BY <1>3
  <2>2. \A w \in T : F[T \ {w}] \in Nat
    BY <1>0, <2>1
  <2>3. F[T] = Min(EndWidths(g, P, T, F))
    BY <1>0, <2>1 DEF TableAt
  <2>4. Max({F[S], Cut(g, P \cup T)}) \in EndWidths(g, P, T, F)
    BY <2>1 DEF EndWidths
  <2>5. Max({F[S], Cut(g, P \cup T)}) \in Nat /\ Max({F[S], Cut(g, P \cup T)}) <= k
    BY <1>0, <1>2, <1>3, <2>1, MaxTwo
  <2>6. F[T] <= Max({F[S], Cut(g, P \cup T)})
    BY <2>1, <2>2, <2>3, <2>4, EndsNat
  <2> QED
    BY <1>0, <2>1, <2>5, <2>6
<1>4. ASSUME NEW S \in SUBSET (Vertices(g) \ P), S # {}
      PROVE  /\ Min(Lasts(g, P, S)) \in S
             /\ F[S \ {Min(Lasts(g, P, S))}] <= F[S]
             /\ Cut(g, P \cup S) <= F[S]
  <2>1. \A v \in S : F[S \ {v}] \in Nat
    BY <1>0, <1>4
  <2>2. F[S] = Min(EndWidths(g, P, S, F)) /\ F[S] \in Nat
    BY <1>0, <1>4 DEF TableAt
  <2>3. F[S] \in EndWidths(g, P, S, F)
    BY <1>4, <2>1, <2>2, EndsNat
  <2>4. PICK v \in S : F[S] = Max({F[S \ {v}], Cut(g, P \cup S)})
    BY <2>3 DEF EndWidths
  <2>5. Lasts(g, P, S) \in SUBSET Int /\ IsFiniteSet(Lasts(g, P, S)) /\ Lasts(g, P, S) # {}
    <3>1. S \in SUBSET Int /\ IsFiniteSet(S)
      BY SimpleFacts
    <3>2. Lasts(g, P, S) \subseteq S /\ v \in Lasts(g, P, S)
      BY <2>4 DEF Lasts
    <3> QED
      BY <3>1, <3>2, FS_Subset
  <2> PICK m : m = Min(Lasts(g, P, S))  OBVIOUS
  <2>6. m \in Lasts(g, P, S)
    BY <2>5, MinIs
  <2>7. m \in S /\ F[S] = Max({F[S \ {m}], Cut(g, P \cup S)})
    BY <2>6 DEF Lasts
  <2>8. F[S \ {m}] <= Max({F[S \ {m}], Cut(g, P \cup S)}) /\ Cut(g, P \cup S) <= Max({F[S \ {m}], Cut(g, P \cup S)})
    BY <1>2, <2>1, <2>7, MaxTwo
  <2> QED
    BY <2>7, <2>8
<1> QED
  BY <1>1, <1>3, <1>4

\* The residual DP refutes only prefixes that do not fit (residual_dp.cpp).
THEOREM TableSound ==
    ASSUME NEW g, IsSimple(g), NEW P \in SUBSET Vertices(g), NEW k \in Int, Fits(g, k, P)
    PROVE  ResidualTable(g, P)[Vertices(g) \ P] <= k
<1> PICK F : F = TableFn(g, P)  OBVIOUS
<1> PICK U : U = Vertices(g) \ P  OBVIOUS
<1> DEFINE B == {T \in SUBSET U : F[T] <= k /\ Fits(g, k, P \cup T)}
<1>1. {} \in B
  <2>1. Cut(g, P) <= k
    BY FitsStep
  <2>2. P \cup {} = P
    OBVIOUS
  <2> QED
    BY <2>1, <2>2, TableStep
<1>2. IsFiniteSet(U) /\ B \in SUBSET (SUBSET U) /\ B # {}
  BY <1>1, SimpleFacts
<1> HIDE DEF B
<1>3. PICK T \in B : \A X \in SUBSET U : T \subseteq X /\ X # T => X \notin B
  BY <1>2, MaximalSet
<1> USE DEF B
<1>4. T = U
  <2> SUFFICES ASSUME T # U PROVE FALSE
    OBVIOUS
  <2>1. P \cup T \in SUBSET Vertices(g) /\ P \cup T # Vertices(g) /\ Fits(g, k, P \cup T)
    OBVIOUS
  <2>2. PICK v \in Vertices(g) \ (P \cup T) : Fits(g, k, (P \cup T) \cup {v})
    BY <2>1, FitsStep
  <2>3. (P \cup T) \cup {v} = P \cup (T \cup {v})
    OBVIOUS
  <2>4. Cut(g, P \cup (T \cup {v})) <= k
    <3> PICK X : X = (P \cup T) \cup {v}  OBVIOUS
    <3>1. X \in SUBSET Vertices(g) /\ Fits(g, k, X)
      BY <2>2
    <3>2. Cut(g, X) <= k
      BY <3>1, FitsStep
    <3> QED
      BY <2>3, <3>2
  <2>5. T \in SUBSET (Vertices(g) \ P) /\ v \in Vertices(g) \ P /\ v \notin T /\ F[T] <= k
    OBVIOUS
  <2>6. F[T \cup {v}] <= k
    BY <2>4, <2>5, TableStep
  <2>7. T \cup {v} \in B
    BY <2>2, <2>3, <2>5, <2>6
  <2> QED
    BY <1>3, <2>5, <2>7
<1> QED
  BY <1>4, TableIsFn

OrderAt(g, P, S, x) ==
    IF S = {} THEN << >>
    ELSE Append(x[S \ {Min(Lasts(g, P, S))}], Min(Lasts(g, P, S)))

OrderFn(g, P) == CHOOSE x : x = [S \in SUBSET (Vertices(g) \ P) |-> OrderAt(g, P, S, x)]

LEMMA WitnessIs == \A g, P : ReconstructWitness(g, P) = OrderFn(g, P)[Vertices(g) \ P]
BY DEF ReconstructWitness, OrderFn, OrderAt, Lasts, ResidualTable, TableFn, TableAt, EndWidths

LEMMA OrderEquation ==
    ASSUME NEW g, IsSimple(g), NEW P \in SUBSET Vertices(g)
    PROVE  \A S \in SUBSET (Vertices(g) \ P) : OrderFn(g, P)[S] = OrderAt(g, P, S, OrderFn(g, P))
<1>. DEFINE U == Vertices(g) \ P
            X == SUBSET U
            V == Seq(Vertices(g))
            rank == [S \in X |-> Cardinality(S)]
            D == [S \in X |-> [x \in [X -> V] |-> OrderAt(g, P, S, x)]]
<1>0. V # {}
    <2>1. << >> \in V
        OBVIOUS
    <2>. QED BY <2>1
<1>1. IsFiniteSet(U) /\ Cardinality(U) \in Nat
    BY SimpleFacts
<1>2. \A S \in X : rank[S] \in 0..Cardinality(U)
    <2>. SUFFICES ASSUME NEW S \in X PROVE rank[S] \in 0..Cardinality(U)
        OBVIOUS
    <2>1. IsFiniteSet(S) /\ Cardinality(S) <= Cardinality(U)
        BY <1>1, FS_Subset
    <2>2. Cardinality(S) \in Nat
        BY <2>1, FS_CardinalityType
    <2>. QED BY <1>1, <2>1, <2>2
<1>3. \A S \in X : S # {} =>
          /\ Min(Lasts(g, P, S)) \in S
          /\ S \ {Min(Lasts(g, P, S))} \in X /\ rank[S \ {Min(Lasts(g, P, S))}] < rank[S]
    <2>. SUFFICES ASSUME NEW S \in X, S # {}
                  PROVE  /\ Min(Lasts(g, P, S)) \in S
                         /\ S \ {Min(Lasts(g, P, S))} \in X /\ rank[S \ {Min(Lasts(g, P, S))}] < rank[S]
        OBVIOUS
    <2>. PICK m : m = Min(Lasts(g, P, S))  OBVIOUS
    <2>1. m \in S
        BY TableStep
    <2>2. IsFiniteSet(S) /\ Cardinality(S \ {m}) = Cardinality(S) - 1
        BY <1>1, <2>1, FS_Subset, FS_RemoveElement
    <2>3. Cardinality(S) \in Nat
        BY <2>2, FS_CardinalityType
    <2>. QED BY <2>1, <2>2, <2>3
<1>4. ASSUME NEW S \in X, NEW x \in [X -> V] PROVE OrderAt(g, P, S, x) \in V
    <2>1. CASE S = {}
        BY <2>1 DEF OrderAt
    <2>2. CASE S # {}
        <3>. PICK m : m = Min(Lasts(g, P, S))  OBVIOUS
        <3>1. m \in Vertices(g) /\ S \ {m} \in X
            BY <1>3, <2>2
        <3>2. x[S \ {m}] \in Seq(Vertices(g))
            <4>. HIDE DEF X
            <4>. QED BY <3>1
        <3>3. Append(x[S \ {m}], m) \in Seq(Vertices(g))
            BY <3>1, <3>2
        <3>. QED BY <2>2, <3>3 DEF OrderAt
    <2>. QED BY <2>1, <2>2
<1>5. ASSUME NEW S \in X, NEW x \in [X -> V], NEW y \in [X -> V],
             \A T \in X : rank[T] < rank[S] => x[T] = y[T]
      PROVE  OrderAt(g, P, S, x) = OrderAt(g, P, S, y)
    <2>1. CASE S = {}
        BY <2>1 DEF OrderAt
    <2>2. CASE S # {}
        <3>. PICK m : m = Min(Lasts(g, P, S))  OBVIOUS
        <3>1. x[S \ {m}] = y[S \ {m}]
            <4>. HIDE DEF X, rank
            <4>. QED BY <1>3, <1>5, <2>2
        <3>. QED BY <2>2, <3>1 DEF OrderAt
    <2>. QED BY <2>1, <2>2
<1>6. Ranked(X, V, rank, Cardinality(U), D)
    <2>1. \A S \in X : \A x \in [X -> V] : D[S][x] \in V
        <3>. HIDE DEF V
        <3>. QED BY <1>4
    <2>2. \A S \in X : \A x, y \in [X -> V] :
              (\A T \in X : rank[T] < rank[S] => x[T] = y[T]) => D[S][x] = D[S][y]
        <3>. HIDE DEF rank, X, V
        <3>1. \A S \in X : \A x, y \in [X -> V] :
              (\A T \in X : rank[T] < rank[S] => x[T] = y[T]) => OrderAt(g, P, S, x) = OrderAt(g, P, S, y)
            BY <1>5
        <3>. QED BY <3>1
    <2>. HIDE DEF X, rank, D, V
    <2>. QED BY <1>2, <2>1, <2>2 DEF Ranked
<1>7. PICK x \in [X -> V] : \A S \in X : x[S] = D[S][x]
    <2>. HIDE DEF X, rank, D, U, V
    <2>. QED BY <1>0, <1>1, <1>6, RankedRecursion
<1>8. x = [S \in X |-> OrderAt(g, P, S, x)]
    BY <1>7
<1>. DEFINE h == OrderFn(g, P)
<1>9. h = [S \in X |-> OrderAt(g, P, S, h)]
    BY <1>8 DEF OrderFn
<1>. HIDE DEF h
<1>10. \A S \in X : h[S] = OrderAt(g, P, S, h)
    BY <1>9
<1>. QED BY <1>10 DEF h

(* An order that places a set after P without a cut above the threshold.       *)
Keeps(g, P, k, S, o) ==
    /\ IsPath(g, o) /\ ToSet(o) = S
    /\ \A i \in 0..Len(o) : Cut(g, P \cup First(o, i)) <= k

LEMMA KeepsOne ==
    ASSUME NEW g, IsSimple(g), NEW P \in SUBSET Vertices(g), NEW k \in Int,
           NEW S, NEW T, NEW m \in S, T = S \ {m}, S \in SUBSET Vertices(g),
           NEW o, Keeps(g, P, k, T, o), Cut(g, P \cup S) <= k
    PROVE  Keeps(g, P, k, S, Append(o, m))
<1> PICK r : r = Append(o, m)  OBVIOUS
<1>1. IsPath(g, o) /\ ToSet(o) = T /\ m \in Vertices(g) \ ToSet(o)
  BY DEF Keeps
<1>2. Appended(g, o, m, r)
  BY <1>1, PathAppend
<1>3. IsPath(g, r) /\ ToSet(r) = S /\ Len(r) = Len(o) + 1 /\ Len(o) \in Nat
  BY <1>1, <1>2, PathFacts DEF Appended
<1>4. ASSUME NEW i \in 0..Len(r) PROVE Cut(g, P \cup First(r, i)) <= k
  <2>1. CASE i = Len(r)
    <3>1. First(r, i) = S
      BY <1>3, <2>1, PathFacts
    <3> QED
      BY <3>1
  <2>2. CASE i # Len(r)
    <3>1. i \in 0..Len(o) /\ First(r, i) = First(o, i)
      BY <1>2, <1>3, <2>2 DEF Appended
    <3> QED
      BY <3>1 DEF Keeps
  <2> QED
    BY <2>1, <2>2
<1> QED
  BY <1>3, <1>4 DEF Keeps

\* The order the residual DP traces back keeps every threshold the table keeps.
THEOREM WitnessKeeps ==
    ASSUME NEW g, IsSimple(g), NEW P \in SUBSET Vertices(g), NEW k \in Int,
           ResidualTable(g, P)[Vertices(g) \ P] <= k
    PROVE  Keeps(g, P, k, Vertices(g) \ P, ReconstructWitness(g, P))
<1> PICK F : F = TableFn(g, P)  OBVIOUS
<1> PICK h : h = OrderFn(g, P)  OBVIOUS
<1> PICK U : U = Vertices(g) \ P  OBVIOUS
<1> DEFINE B == {S \in SUBSET U : F[S] <= k /\ ~Keeps(g, P, k, S, h[S])}
<1>1. IsFiniteSet(U) /\ B \in SUBSET (SUBSET U)
  BY SimpleFacts
<1>2. F[U] <= k
  BY TableIsFn
<1>3. \A S \in SUBSET U : h[S] = OrderAt(g, P, S, h) /\ F[S] \in Nat
  BY OrderEquation, TableEquation
<1>4. B = {}
  <2> SUFFICES ASSUME B # {} PROVE FALSE
    OBVIOUS
  <2>1. PICK S \in B : \A T \in SUBSET S : T # S => T \notin B
    <3> HIDE DEF B
    <3> QED
      BY <1>1, MinimalSet
  <2>2. S \in SUBSET U /\ F[S] <= k /\ ~Keeps(g, P, k, S, h[S])
    BY <2>1
  <2>3. CASE S = {}
    <3>1. h[S] = << >>
      BY <1>3, <2>3 DEF OrderAt
    <3>2. Cut(g, P) <= k
      BY <2>2, <2>3, TableStep
    <3>3. IsPath(g, << >>) /\ ToSet(<< >>) = {} /\ First(<< >>, 0) = {} /\ Len(<< >>) = 0
      BY DEF IsPath, First, ToSet
    <3>4. P \cup {} = P
      OBVIOUS
    <3>5. Keeps(g, P, k, {}, << >>)
      <4> PICK e : e = << >>  OBVIOUS
      <4>1. \A i \in 0..Len(e) : i = 0
        BY <3>3
      <4>2. \A i \in 0..Len(e) : Cut(g, P \cup First(e, i)) <= k
        BY <3>2, <3>3, <3>4, <4>1
      <4> QED
        BY <3>3, <4>2 DEF Keeps
    <3> QED
      BY <2>2, <2>3, <3>1, <3>5
  <2>4. CASE S # {}
    <3> PICK m : m = Min(Lasts(g, P, S))  OBVIOUS
    <3> PICK T : T = S \ {m}  OBVIOUS
    <3>1. m \in S /\ F[T] <= F[S] /\ Cut(g, P \cup S) <= F[S]
      BY <2>2, <2>4, TableStep
    <3>2. h[S] = Append(h[T], m)
      BY <1>3, <2>2, <2>4 DEF OrderAt
    <3>3. T \in SUBSET U /\ T \in SUBSET S /\ T # S
      BY <2>2, <3>1
    <3>4. S \in SUBSET Vertices(g) /\ P \cup S \in SUBSET Vertices(g)
      BY <2>2
    <3>5. Cut(g, P \cup S) \in Nat
      BY <3>4, CutNat
    <3>6. F[S] \in Nat /\ F[T] \in Nat
      BY <1>3, <2>2, <3>3
    <3>7. F[T] <= k /\ Cut(g, P \cup S) <= k
      BY <2>2, <3>1, <3>5, <3>6
    <3>8. Keeps(g, P, k, T, h[T])
      BY <2>1, <3>3, <3>7
    <3>9. Keeps(g, P, k, S, Append(h[T], m))
      BY <3>1, <3>4, <3>7, <3>8, KeepsOne
    <3> QED
      BY <2>2, <3>2, <3>9
  <2> QED
    BY <2>3, <2>4
<1>5. Keeps(g, P, k, U, h[U])
  BY <1>2, <1>4
<1> QED
  BY <1>5, WitnessIs

(* A path whose prefixes all keep the threshold.                              *)
Within(g, k, p) ==
    /\ IsPath(g, p)
    /\ \A i \in 0..Len(p) : Cut(g, First(p, i)) <= k

Orders(g, k, o) == Within(g, k, o) /\ Len(o) = Size(g)

LEMMA WithinAppend ==
    ASSUME NEW g, IsSimple(g), NEW k \in Int, NEW p, Within(g, k, p),
           NEW v \in Vertices(g) \ ToSet(p), Cut(g, ToSet(p) \cup {v}) <= k
    PROVE  Within(g, k, Append(p, v))
<1> PICK r : r = Append(p, v)  OBVIOUS
<1>1. IsPath(g, p)
  BY DEF Within
<1>2. Appended(g, p, v, r)
  BY <1>1, PathAppend
<1>3. IsPath(g, r) /\ ToSet(r) = ToSet(p) \cup {v} /\ Len(r) = Len(p) + 1 /\ Len(p) \in Nat
  BY <1>1, <1>2, PathFacts DEF Appended
<1>4. ASSUME NEW i \in 0..Len(r) PROVE Cut(g, First(r, i)) <= k
  <2>1. CASE i = Len(r)
    <3>1. First(r, i) = ToSet(r)
      BY <1>3, <2>1, PathFacts
    <3> QED
      BY <1>3, <3>1
  <2>2. CASE i # Len(r)
    <3>1. i \in 0..Len(p) /\ First(r, i) = First(p, i)
      BY <1>2, <1>3, <2>2 DEF Appended
    <3> QED
      BY <3>1 DEF Within
  <2> QED
    BY <2>1, <2>2
<1> QED
  BY <1>3, <1>4 DEF Within

LEMMA WithinFront ==
    ASSUME NEW g, IsSimple(g), NEW k \in Int, NEW p, Within(g, k, p), Len(p) > 0
    PROVE  Within(g, k, Front(p))
<1> PICK r : r = Front(p)  OBVIOUS
<1>1. IsPath(g, p) /\ Len(p) \in Nat
  BY PathFacts DEF Within
<1>2. Shortened(g, p, r)
  BY <1>1, PathFront
<1>3. IsPath(g, r) /\ Len(r) = Len(p) - 1
  BY <1>2 DEF Shortened
<1>4. \A i \in 0..Len(r) : First(r, i) = First(p, i) /\ i \in 0..Len(p)
  BY <1>1, <1>2, <1>3 DEF Shortened
<1> QED
  BY <1>3, <1>4 DEF Within

LEMMA WithinJoin ==
    ASSUME NEW g, IsSimple(g), NEW k \in Int, NEW p, Within(g, k, p),
           NEW o, Keeps(g, ToSet(p), k, Vertices(g) \ ToSet(p), o)
    PROVE  Orders(g, k, p \o o)
<1> PICK r : r = p \o o  OBVIOUS
<1>1. IsPath(g, p) /\ IsPath(g, o) /\ ToSet(o) = Vertices(g) \ ToSet(p)
  BY DEF Within, Keeps
<1>2. p \in Seq(Vertices(g)) /\ o \in Seq(Vertices(g))
  BY <1>1 DEF IsPath
<1>3. r \in Seq(Vertices(g)) /\ Len(r) = Len(p) + Len(o) /\ Len(p) \in Nat /\ Len(o) \in Nat
  BY <1>2
<1>4. \A i \in 1..Len(p) : r[i] = p[i] /\ p[i] \in ToSet(p)
  <2>1. \A i \in 1..Len(p) : r[i] = p[i]
    BY <1>2
  <2>2. \A i \in 1..Len(p) : p[i] \in ToSet(p)
    BY <1>2 DEF ToSet
  <2> QED
    BY <2>1, <2>2
<1>5. \A i \in 1..Len(o) : r[Len(p) + i] = o[i] /\ o[i] \notin ToSet(p)
  <2>1. \A i \in 1..Len(o) : r[Len(p) + i] = o[i]
    BY <1>2
  <2>2. \A i \in 1..Len(o) : o[i] \in ToSet(o)
    BY <1>2 DEF ToSet
  <2> QED
    BY <1>1, <2>1, <2>2
<1>6. \A i \in 1..Len(r) : i > Len(p) =>
          i - Len(p) \in 1..Len(o) /\ r[i] = o[i - Len(p)] /\ r[i] \notin ToSet(p)
  <2> SUFFICES ASSUME NEW i \in 1..Len(r), i > Len(p)
               PROVE  i - Len(p) \in 1..Len(o) /\ r[i] = o[i - Len(p)] /\ r[i] \notin ToSet(p)
    OBVIOUS
  <2> PICK j : j = i - Len(p)  OBVIOUS
  <2>1. j \in 1..Len(o) /\ i = Len(p) + j
    BY <1>3
  <2> QED
    BY <1>5, <2>1
<1>7. IsPath(g, r)
  <2> SUFFICES ASSUME NEW i \in 1..Len(r), NEW j \in 1..Len(r), r[i] = r[j] PROVE i = j
    BY <1>3 DEF IsPath
  <2>0. \A a, b \in 1..Len(p) : p[a] = p[b] => a = b
    BY <1>1 DEF IsPath
  <2>1. CASE i <= Len(p) /\ j <= Len(p)
    <3>1. i \in 1..Len(p) /\ j \in 1..Len(p)
      BY <1>3, <2>1
    <3> QED
      BY <1>4, <2>0, <3>1
  <2>2. CASE i <= Len(p) /\ j > Len(p)
    <3>1. i \in 1..Len(p)
      BY <1>3, <2>2
    <3> QED
      BY <1>4, <1>6, <2>2, <3>1
  <2>3. CASE i > Len(p) /\ j <= Len(p)
    <3>1. j \in 1..Len(p)
      BY <1>3, <2>3
    <3> QED
      BY <1>4, <1>6, <2>3, <3>1
  <2>4. CASE i > Len(p) /\ j > Len(p)
    <3>1. \A a, b \in 1..Len(o) : o[a] = o[b] => a = b
      BY <1>1 DEF IsPath
    <3>2. i - Len(p) = j - Len(p)
      BY <1>6, <2>4, <3>1
    <3> QED
      BY <1>3, <3>2
  <2> QED
    BY <1>3, <2>1, <2>2, <2>3, <2>4
<1>8. \A i \in 0..Len(p) : First(r, i) = First(p, i)
  BY <1>3, <1>4 DEF First
<1>9. \A i \in 0..Len(o) : First(r, Len(p) + i) = ToSet(p) \cup First(o, i)
  <2> SUFFICES ASSUME NEW i \in 0..Len(o) PROVE First(r, Len(p) + i) = ToSet(p) \cup First(o, i)
    OBVIOUS
  <2>1. ToSet(p) = First(p, Len(p))
    BY <1>1, PathFacts
  <2>2. ASSUME NEW x \in First(r, Len(p) + i) PROVE x \in ToSet(p) \cup First(o, i)
    <3>1. PICK j \in 1..(Len(p) + i) : x = r[j]
      BY <2>2 DEF First
    <3>2. CASE j <= Len(p)
      <4>1. j \in 1..Len(p)
        BY <1>3, <3>2
      <4> QED
        BY <1>4, <3>1, <4>1
    <3>3. CASE j > Len(p)
      <4>1. j \in 1..Len(r) /\ j - Len(p) \in 1..i
        BY <1>3, <3>3
      <4> QED
        BY <1>6, <3>1, <3>3, <4>1 DEF First
    <3> QED
      BY <1>3, <3>2, <3>3
  <2>3. ASSUME NEW x \in First(p, Len(p)) PROVE x \in First(r, Len(p) + i)
    <3>1. PICK j \in 1..Len(p) : x = p[j]
      BY <2>3 DEF First
    <3>2. j \in 1..(Len(p) + i) /\ r[j] = x
      BY <1>3, <1>4, <3>1
    <3> QED
      BY <3>2 DEF First
  <2>4. ASSUME NEW x \in First(o, i) PROVE x \in First(r, Len(p) + i)
    <3>1. PICK j \in 1..i : x = o[j]
      BY <2>4 DEF First
    <3> PICK m : m = Len(p) + j  OBVIOUS
    <3>2. m \in 1..(Len(p) + i) /\ r[m] = x
      BY <1>3, <1>5, <3>1
    <3> QED
      BY <3>2 DEF First
  <2> QED
    BY <2>1, <2>2, <2>3, <2>4
<1>10. ASSUME NEW i \in 0..Len(r) PROVE Cut(g, First(r, i)) <= k
  <2>1. CASE i <= Len(p)
    <3>1. i \in 0..Len(p)
      BY <1>3, <2>1
    <3> QED
      BY <1>8, <3>1 DEF Within
  <2>2. CASE i > Len(p)
    <3> PICK j : j = i - Len(p)  OBVIOUS
    <3>1. j \in 0..Len(o) /\ i = Len(p) + j
      BY <1>3, <2>2
    <3> QED
      BY <1>9, <3>1 DEF Keeps
  <2> QED
    BY <1>3, <2>1, <2>2
<1>11. Len(r) = Size(g)
  <2>1. ToSet(r) = First(r, Len(r)) /\ Cardinality(ToSet(r)) = Len(r)
    BY <1>7, PathFacts
  <2>2. First(o, Len(o)) = ToSet(o) /\ ToSet(p) \in SUBSET Vertices(g)
    BY <1>1, PathFacts
  <2>3. First(r, Len(r)) = ToSet(p) \cup ToSet(o)
    BY <1>3, <1>9, <2>2
  <2>4. ToSet(r) = Vertices(g)
    BY <1>1, <2>1, <2>2, <2>3
  <2> QED
    BY <2>1, <2>4 DEF Size
<1> QED
  BY <1>7, <1>10, <1>11 DEF Orders, Within

(* A witness is an order of all vertices that keeps the threshold.             *)
LEMMA WitnessWidth ==
    ASSUME NEW g, IsSimple(g), NEW k \in Nat, NEW o, Orders(g, k, o)
    PROVE  ValidOrdering(g, o) /\ OrderingCutwidth(g, o) <= k
<1>1. IsPath(g, o) /\ Len(o) = Size(g) /\ \A i \in 0..Len(o) : Cut(g, First(o, i)) <= k
  BY DEF Orders, Within
<1>2. o \in Seq(Vertices(g)) /\ Len(o) \in Nat /\ DOMAIN o = 1..Len(o)
  BY <1>1 DEF IsPath
<1>3. ToSet(o) = Vertices(g)
  <2>1. ToSet(o) \in SUBSET Vertices(g) /\ Cardinality(ToSet(o)) = Size(g)
    BY <1>1, PathFacts
  <2> QED
    BY <2>1, SimpleFacts, FS_Subset DEF Size
<1>4. \A i \in DOMAIN o : ToSet(SubSeq(o, 1, i)) = First(o, i)
  <2> SUFFICES ASSUME NEW i \in 1..Len(o) PROVE ToSet(SubSeq(o, 1, i)) = First(o, i)
    BY <1>2
  <2> PICK s : s = SubSeq(o, 1, i)  OBVIOUS
  <2>1. Len(s) = i /\ DOMAIN s = 1..i /\ \A j \in 1..i : s[j] = o[j]
    BY <1>2
  <2> QED
    BY <2>1 DEF ToSet, First
<1>5. \A i \in DOMAIN o : Cut(g, First(o, i)) \in Nat /\ Cut(g, First(o, i)) <= k
  <2>1. \A i \in DOMAIN o : i \in 0..Len(o) /\ First(o, i) \in SUBSET Vertices(g)
    BY <1>1, <1>2, PathFacts
  <2> QED
    BY <1>1, <2>1, CutNat
<1> DEFINE f == [i \in DOMAIN o |-> Cut(g, First(o, i))]
           W == {f[i] : i \in DOMAIN o}
<1>6. {Cut(g, ToSet(SubSeq(o, 1, i))) : i \in DOMAIN o} = W
  BY <1>4
<1>7. IsFiniteSet(W)
  <2>1. IsFiniteSet(DOMAIN o)
    BY <1>2, FS_Interval
  <2> HIDE DEF f
  <2> QED
    BY <2>1, ImageFinite
<1>8. IsFiniteSet({0} \cup W)
  <2> HIDE DEF W
  <2> QED
    BY <1>7, FS_Union, FS_Singleton
<1>9. \A x \in {0} \cup W : x \in Int /\ x <= k
  BY <1>5
<1>10. Max({0} \cup W) \in {0} \cup W
  <2> HIDE DEF W
  <2> QED
    BY <1>8, <1>9, MaxIs
<1>11. OrderingCutwidth(g, o) <= k
  <2>1. Max({0} \cup W) <= k
    BY <1>9, <1>10
  <2> HIDE DEF W, f
  <2> QED
    BY <1>6, <2>1 DEF OrderingCutwidth
<1> QED
  BY <1>1, <1>3, <1>11 DEF ValidOrdering, Size

-----------------------------------------------------------------------------
\* Sums taken apart.

LEMMA SumIs == \A f : SumOf(f) = Total(f, DOMAIN f)
    BY TotalIsSum DEF SumOf

LEMMA TotalPlus ==
    ASSUME NEW S, IsFiniteSet(S), NEW f, NEW h, NEW e,
           \A x \in S : f[x] \in Int /\ h[x] \in Int /\ e[x] = f[x] + h[x]
    PROVE  Total(e, S) = Total(f, S) + Total(h, S)
<1>1. \A x \in S : e[x] \in Int /\ h[x] \in Int /\ f[x] = e[x] - h[x]
    OBVIOUS
<1>2. Total(f, S) = Total(e, S) - Total(h, S)
    BY <1>1, TotalDifference
<1>3. Total(e, S) \in Int /\ Total(h, S) \in Int
    BY <1>1, TotalInt
<1>. QED BY <1>2, <1>3

\* The elements of a part count alike.
LEMMA TotalAlike ==
    ASSUME NEW S, IsFiniteSet(S), NEW A, NEW c \in Int, NEW f,
           \A x \in S : f[x] = IF x \in A THEN c ELSE 0
    PROVE  Total(f, S) = c * Cardinality(S \cap A)
<1>. DEFINE B == {T \in SUBSET S : Total(f, T) # c * Cardinality(T \cap A)}
<1>1. SUFFICES ASSUME B # {} PROVE FALSE
    OBVIOUS
<1>2. PICK T \in B : \A X \in SUBSET T : X # T => X \notin B
    <2>1. B \in SUBSET (SUBSET S)
        OBVIOUS
    <2>. HIDE DEF B
    <2>. QED BY <1>1, <2>1, MinimalSet
<1>3. T # {}
    <2>1. {} \cap A = {}
        OBVIOUS
    <2>. QED BY <2>1, TotalEmpty, FS_EmptySet
<1>4. PICK x \in T : TRUE
    BY <1>3
<1>5. IsFiniteSet(T) /\ (\A y \in T : f[y] \in Int)
    BY FS_Subset
<1>6. Total(f, T) = f[x] + Total(f, T \ {x})
    BY <1>5, TotalWithout
<1>7. Total(f, T \ {x}) = c * Cardinality((T \ {x}) \cap A)
    BY <1>2
<1>8. IsFiniteSet(T \cap A) /\ Cardinality(T \cap A) \in Nat
    BY <1>5, FS_Intersection, FS_CardinalityType
<1>9. CASE x \in A
    <2>1. (T \ {x}) \cap A = (T \cap A) \ {x} /\ x \in T \cap A
        BY <1>9
    <2>2. Cardinality((T \cap A) \ {x}) = Cardinality(T \cap A) - 1
        BY <1>8, <2>1, FS_RemoveElement
    <2>4. f[x] = c
        BY <1>9
    <2>5. Total(f, T) = c + c * (Cardinality(T \cap A) - 1)
        BY <1>6, <1>7, <2>1, <2>2, <2>4
    <2>6. \A n \in Nat : c + c * (n - 1) = c * n
        OBVIOUS
    <2>. QED BY <1>8, <2>5, <2>6
<1>10. CASE x \notin A
    <2>1. (T \ {x}) \cap A = T \cap A
        BY <1>10
    <2>2. f[x] = 0 /\ Total(f, T \ {x}) = c * Cardinality(T \cap A)
        BY <1>7, <1>10, <2>1
    <2>3. PICK n \in Nat : n = Cardinality(T \cap A)
        BY <1>8
    <2>4. Total(f, T) = 0 + c * n /\ c * n \in Int
        BY <1>6, <2>2, <2>3
    <2>5. Total(f, T) = c * n
        BY <2>4
    <2>. QED BY <1>2, <2>3, <2>5
<1>. QED BY <1>9, <1>10

LEMMA TotalSplit ==
    ASSUME NEW S, IsFiniteSet(S), NEW f, \A x \in S : f[x] \in Int, NEW A \in SUBSET S
    PROVE  Total(f, S) = Total(f, A) + Total(f, S \ A)
<1>. DEFINE B == {T \in SUBSET A : Total(f, S) # Total(f, T) + Total(f, S \ T)}
<1>1. SUFFICES ASSUME B # {} PROVE FALSE
    OBVIOUS
<1>2. PICK T \in B : \A X \in SUBSET T : X # T => X \notin B
    <2>1. B \in SUBSET (SUBSET A) /\ IsFiniteSet(A)
        BY FS_Subset
    <2>. HIDE DEF B
    <2>. QED BY <1>1, <2>1, MinimalSet
<1>5. \A X \in SUBSET S : IsFiniteSet(X) /\ (\A y \in X : f[y] \in Int)
    BY FS_Subset
<1>6. \A X \in SUBSET S : Total(f, X) \in Int
    BY <1>5, TotalInt
<1>3. T # {}
    <2>1. S \ {} = S /\ S \in SUBSET S
        OBVIOUS
    <2>2. Total(f, {}) = 0 /\ Total(f, S) \in Int
        BY <1>6, <2>1, TotalEmpty
    <2>3. Total(f, S) = Total(f, {}) + Total(f, S \ {})
        BY <2>1, <2>2
    <2>. QED BY <2>3, <1>2
<1>4. PICK x \in T : TRUE
    BY <1>3
<1>7. Total(f, T) = f[x] + Total(f, T \ {x})
    BY <1>5, TotalWithout
<1>8. Total(f, S \ (T \ {x})) = f[x] + Total(f, S \ T)
    <2>1. (S \ (T \ {x})) \ {x} = S \ T /\ x \in S \ (T \ {x}) /\ S \ (T \ {x}) \in SUBSET S
        OBVIOUS
    <2>2. IsFiniteSet(S \ (T \ {x})) /\ \A y \in S \ (T \ {x}) : f[y] \in Int
        BY <1>5, <2>1
    <2>. QED BY <2>1, <2>2, TotalWithout
<1>9. Total(f, S) = Total(f, T \ {x}) + Total(f, S \ (T \ {x}))
    BY <1>2
<1>10. /\ Total(f, T \ {x}) \in Int /\ Total(f, S \ T) \in Int /\ f[x] \in Int /\ T \in SUBSET S
    BY <1>6
<1>. QED BY <1>7, <1>8, <1>9, <1>10

\* What the rest adds is at least zero.
LEMMA TotalPart ==
    ASSUME NEW S, IsFiniteSet(S), NEW f, \A x \in S : f[x] \in Nat, NEW A \in SUBSET S
    PROVE  Total(f, A) <= Total(f, S) /\ Total(f, A) \in Nat /\ Total(f, S) \in Nat
<1>1. Total(f, S) = Total(f, A) + Total(f, S \ A)
    BY TotalSplit
<1>2. \A X \in SUBSET S : IsFiniteSet(X) /\ (\A y \in X : f[y] \in Nat)
    BY FS_Subset
<1>3. \A X \in SUBSET S : Total(f, X) \in Nat
    BY <1>2, TotalNat
<1>4. Total(f, A) \in Nat /\ Total(f, S \ A) \in Nat /\ Total(f, S) \in Nat
    BY <1>3
<1>. QED BY <1>1, <1>4

\* A table of numbers, by rows and by columns, with their sums.
Tabled(A, C, f, h, rows, cols) ==
    /\ \A a \in A, c \in C : f[a][c] \in Int /\ h[c][a] = f[a][c]
    /\ \A a \in A : rows[a] = Total(f[a], C)
    /\ \A c \in C : cols[c] = Total(h[c], A)

\* Rows and columns of a table give the same sum.
LEMMA Fubini ==
    ASSUME NEW A, IsFiniteSet(A), NEW C, IsFiniteSet(C), NEW f, NEW h, NEW rows, NEW cols,
           Tabled(A, C, f, h, rows, cols)
    PROVE  Total(rows, A) = Total(cols, C)
<1>. USE DEF Tabled
<1>. DEFINE col(T) == [c \in C |-> Total(h[c], T)]
            B == {T \in SUBSET A : Total(rows, T) # Total(col(T), C)}
<1>0. \A c \in C : cols[c] = col(A)[c] /\ cols[c] \in Int
    BY TotalInt
<1>1. SUFFICES ASSUME B # {} PROVE FALSE
    <2>1. Total(cols, C) = Total(col(A), C)
        <3>. DEFINE w == col(A)
        <3>1. \A c \in C : w[c] = cols[c] /\ cols[c] \in Int
            BY <1>0
        <3>. HIDE DEF w
        <3>2. Total(w, C) = Total(cols, C)
            BY <3>1, TotalsAgree
        <3>. QED BY <3>2 DEF w
    <2>2. Total(rows, A) = Total(col(A), C)
        OBVIOUS
    <2>. QED BY <2>1, <2>2
<1>2. PICK T \in B : \A X \in SUBSET T : X # T => X \notin B
    <2>1. B \in SUBSET (SUBSET A)
        OBVIOUS
    <2>. HIDE DEF B
    <2>. QED BY <1>1, <2>1, MinimalSet
<1>3. T # {}
    <2>1. \A c \in C : col({})[c] = 0
        BY TotalEmpty
    <2>2. Total(col({}), C) = 0
        BY <2>1, TotalZero
    <2>. QED BY <2>2, TotalEmpty
<1>4. PICK x \in T : TRUE
    BY <1>3
<1>5. \A X \in SUBSET A : IsFiniteSet(X)
    BY FS_Subset
<1>6. \A a \in A : rows[a] \in Int
    BY TotalInt
<1>7. Total(rows, T) = rows[x] + Total(rows, T \ {x})
    <2>1. IsFiniteSet(T) /\ \A a \in T : rows[a] \in Int
        BY <1>5, <1>6
    <2>. QED BY SMTT(30), <2>1, TotalWithout
<1>8. Total(rows, T \ {x}) = Total(col(T \ {x}), C)
    BY <1>2
<1>9. Total(col(T), C) = Total(f[x], C) + Total(col(T \ {x}), C)
    <2>1. \A c \in C : /\ f[x][c] \in Int /\ col(T \ {x})[c] \in Int
                       /\ col(T)[c] = f[x][c] + col(T \ {x})[c]
        <3>1. TAKE c \in C
        <3>2. IsFiniteSet(T) /\ IsFiniteSet(T \ {x}) /\ (\A a \in T : h[c][a] \in Int)
            BY <1>5
        <3>3. PICK u : u = h[c]
            OBVIOUS
        <3>4. (\A a \in T : u[a] \in Int) /\ (\A a \in T \ {x} : u[a] \in Int)
            BY <3>2, <3>3
        <3>5. Total(u, T) = u[x] + Total(u, T \ {x}) /\ Total(u, T \ {x}) \in Int
            BY ZenonT(60), <3>2, <3>4, TotalWithout, TotalInt
        <3>. QED BY <3>3, <3>5
    <2>2. PICK u : u = col(T)
        OBVIOUS
    <2>3. PICK w : w = col(T \ {x})
        OBVIOUS
    <2>4. \A c \in C : f[x][c] \in Int /\ w[c] \in Int /\ u[c] = f[x][c] + w[c]
        BY <2>1, <2>2, <2>3
    <2>5. Total(u, C) = Total(f[x], C) + Total(w, C)
        BY ONLY <2>4, TotalPlus, IsFiniteSet(C)
    <2>. QED BY <2>2, <2>3, <2>5
<1>. QED BY <1>2, <1>7, <1>8, <1>9

\* A sum over the images of an injection.
LEMMA Reindex ==
    ASSUME NEW S, IsFiniteSet(S), NEW p, \A x, y \in S : p[x] = p[y] => x = y,
           NEW f, NEW h, \A x \in S : f[p[x]] \in Int /\ h[x] = f[p[x]]
    PROVE  Total(h, S) = Total(f, {p[x] : x \in S})
<1>. DEFINE image(T) == {p[x] : x \in T}
            B == {T \in SUBSET S : Total(h, T) # Total(f, image(T))}
<1>1. SUFFICES ASSUME B # {} PROVE FALSE
    OBVIOUS
<1>2. PICK T \in B : \A X \in SUBSET T : X # T => X \notin B
    <2>1. B \in SUBSET (SUBSET S)
        OBVIOUS
    <2>. HIDE DEF B
    <2>. QED BY <1>1, <2>1, MinimalSet
<1>3. T # {}
    <2>1. image({}) = {}
        OBVIOUS
    <2>. QED BY <2>1, TotalEmpty
<1>4. PICK x \in T : TRUE
    BY <1>3
<1>5. IsFiniteSet(T) /\ (\A y \in T : h[y] \in Int)
    BY FS_Subset
<1>6. Total(h, T) = h[x] + Total(h, T \ {x})
    BY <1>5, TotalWithout
<1>7. Total(h, T \ {x}) = Total(f, image(T \ {x}))
    BY <1>2
<1>8. Total(f, image(T)) = f[p[x]] + Total(f, image(T \ {x}))
    <2>1. IsFiniteSet(image(T)) /\ \A y \in image(T) : f[y] \in Int
        BY <1>5, ImageFinite
    <2>2. image(T) \ {p[x]} = image(T \ {x}) /\ p[x] \in image(T)
        OBVIOUS
    <2>3. PICK U : U = image(T)
        OBVIOUS
    <2>4. Total(f, U) = f[p[x]] + Total(f, U \ {p[x]})
        BY <2>1, <2>2, <2>3, TotalWithout
    <2>. QED BY <2>2, <2>3, <2>4
<1>. QED BY <1>6, <1>7, <1>8, <1>2

-----------------------------------------------------------------------------
\* Vertices in a row.

LEMMA TotalOn ==
    ASSUME NEW S, IsFiniteSet(S), NEW A \in SUBSET S, NEW f, NEW h,
           \A x \in A : h[x] \in Int,
           \A x \in S : f[x] = IF x \in A THEN h[x] ELSE 0
    PROVE  Total(f, S) = Total(h, A)
<1>1. \A x \in S : f[x] \in Int
    OBVIOUS
<1>2. Total(f, S) = Total(f, A) + Total(f, S \ A)
    BY <1>1, TotalSplit
<1>3. IsFiniteSet(A) /\ IsFiniteSet(S \ A)
    BY FS_Subset
<1>4. Total(f, S \ A) = 0
    BY <1>3, TotalZero
<1>5. Total(f, A) = Total(h, A)
    BY <1>3, TotalsAgree
<1>6. Total(h, A) \in Int
    BY <1>3, TotalInt
<1>. QED BY <1>2, <1>4, <1>5, <1>6

LEMMA TotalLast ==
    ASSUME NEW k \in Nat, NEW f, \A i \in 1..(k + 1) : f[i] \in Int
    PROVE  /\ Total(f, 1..(k + 1)) = f[k + 1] + Total(f, 1..k)
           /\ Total(f, 1..k) \in Int /\ Total(f, 1..(k + 1)) \in Int
<1>1. (1..(k + 1)) \ {k + 1} = 1..k /\ k + 1 \in 1..(k + 1)
    OBVIOUS
<1>2. IsFiniteSet(1..(k + 1)) /\ IsFiniteSet(1..k)
    BY FS_Interval
<1>3. Total(f, 1..(k + 1)) = f[k + 1] + Total(f, (1..(k + 1)) \ {k + 1})
    BY <1>1, <1>2, TotalWithout
<1>4. \A i \in 1..k : f[i] \in Int
    OBVIOUS
<1>. QED BY <1>1, <1>2, <1>3, <1>4, TotalInt

\* Summands that fall by at most one from q at e on.
LEMMA Ramp ==
    ASSUME NEW n \in Nat, NEW f, \A d \in 1..n : f[d] \in Nat,
           NEW e \in 0..n, NEW q \in Nat, q <= e, \A d \in 1..e : f[d] >= q - (e - d)
    PROVE  2 * Total(f, 1..n) >= q * (q + 1)
<1>. DEFINE Claim(k) == \A x \in 0..k : (\A d \in 1..k : f[d] >= x - (k - d))
                            => 2 * Total(f, 1..k) >= x * (x + 1)
            B == {k \in 0..n : ~Claim(k)}
<1>1. \A k \in 0..n : IsFiniteSet(1..k) /\ \A d \in 1..k : f[d] \in Nat
    BY FS_Interval
<1>2. \A k \in 0..n : Total(f, 1..k) \in Nat
    BY <1>1, TotalNat
<1>3. ASSUME B # {} PROVE FALSE
    <2>1. PICK k \in B : \A j \in B : k <= j
        <3>1. B \in SUBSET Nat
            OBVIOUS
        <3>. HIDE DEF B
        <3>. QED BY <1>3, <3>1, Least
    <2>2. PICK x \in 0..k : /\ \A d \in 1..k : f[d] >= x - (k - d)
                            /\ ~(2 * Total(f, 1..k) >= x * (x + 1))
        OBVIOUS
    <2>3. PICK t \in Nat : t = Total(f, 1..k)
        BY <1>2
    <2>4. x # 0
        BY <2>2, <2>3
    <2>5. k - 1 \in 0..n /\ k - 1 \notin B /\ x - 1 \in 0..(k - 1)
        BY <2>1, <2>4
    <2>6. \A d \in 1..(k - 1) : f[d] >= (x - 1) - ((k - 1) - d)
        <3>1. TAKE d \in 1..(k - 1)
        <3>2. d \in 1..k /\ f[d] \in Nat
            BY <1>1
        <3>3. f[d] >= x - (k - d)
            BY <2>2, <3>2
        <3>. QED BY <3>2, <3>3
    <2>7. 2 * Total(f, 1..(k - 1)) >= (x - 1) * ((x - 1) + 1)
        BY <2>5, <2>6
    <2>8. f[k] \in Nat /\ f[k] >= x
        BY <2>2, <2>4, <1>1
    <2>9. t = f[k] + Total(f, 1..(k - 1))
        <3>1. k - 1 \in Nat /\ (k - 1) + 1 = k
            BY <2>5
        <3>2. \A i \in 1..((k - 1) + 1) : f[i] \in Int
            BY <1>1, <3>1
        <3>. QED BY <2>3, <3>1, <3>2, TotalLast
    <2>10. PICK s \in Nat : s = Total(f, 1..(k - 1))
        BY <1>2, <2>5
    <2>11. (x - 1) * ((x - 1) + 1) + 2 * x = x * (x + 1)
        BY x \in Int
    <2>12. 2 * s >= (x - 1) * ((x - 1) + 1) /\ t = f[k] + s /\ ~(2 * t >= x * (x + 1))
        BY <2>2, <2>3, <2>7, <2>9, <2>10
    <2>13. PICK y \in Int : y = (x - 1) * ((x - 1) + 1)
        BY x \in Int
    <2>. QED BY ONLY <2>8, <2>11, <2>12, <2>13, x \in Int, s \in Nat, t \in Nat
<1>4. Claim(e)
    BY <1>3
<1>5. 2 * Total(f, 1..e) >= q * (q + 1)
    BY <1>4
<1>6. Total(f, 1..e) <= Total(f, 1..n) /\ Total(f, 1..e) \in Nat /\ Total(f, 1..n) \in Nat
    <2>1. 1..e \in SUBSET (1..n) /\ IsFiniteSet(1..n)
        BY FS_Interval
    <2>. QED BY <2>1, TotalPart
<1>7. PICK y \in Int : y = q * (q + 1)
    OBVIOUS
<1>. QED BY <1>5, <1>6, <1>7

LEMMA RampDown ==
    ASSUME NEW n \in Nat, NEW f, \A d \in 1..n : f[d] \in Nat,
           NEW e \in 1..(n + 1), NEW q \in Nat, q <= n + 1 - e,
           \A d \in e..n : f[d] >= q - (d - e)
    PROVE  2 * Total(f, 1..n) >= q * (q + 1)
<1>1. PICK p : p = [d \in 1..n |-> n + 1 - d]
    OBVIOUS
<1>2. PICK h : h = [d \in 1..n |-> f[n + 1 - d]]
    OBVIOUS
<1>3. \A d \in 1..n : p[d] \in 1..n /\ p[d] = n + 1 - d /\ h[d] = f[n + 1 - d]
    BY <1>1, <1>2
<1>4. {p[d] : d \in 1..n} = 1..n
    <2>1. \A i \in 1..n : n + 1 - i \in 1..n /\ p[n + 1 - i] = i
        BY <1>3
    <2>. QED BY <1>3, <2>1
<1>5. Total(h, 1..n) = Total(f, 1..n)
    <2>1. \A x, y \in 1..n : p[x] = p[y] => x = y
        BY <1>3
    <2>2. \A x \in 1..n : f[p[x]] \in Int /\ h[x] = f[p[x]]
        BY <1>3
    <2>3. Total(h, 1..n) = Total(f, {p[x] : x \in 1..n})
        <3>1. PICK S : S = 1..n
            OBVIOUS
        <3>2. IsFiniteSet(S)
            BY <3>1, FS_Interval
        <3>4. (\A x, y \in S : p[x] = p[y] => x = y) /\ (\A x \in S : f[p[x]] \in Int /\ h[x] = f[p[x]])
            BY <2>1, <2>2, <3>1
        <3>3. Total(h, S) = Total(f, {p[x] : x \in S})
            BY ONLY <3>2, <3>4, Reindex
        <3>. QED BY <3>1, <3>3
    <2>. QED BY <1>4, <2>3
<1>6. \A d \in 1..n : h[d] \in Nat
    BY <1>3
<1>7. n + 1 - e \in 0..n
    OBVIOUS
<1>8. \A d \in 1..(n + 1 - e) : h[d] >= q - ((n + 1 - e) - d)
    <2>1. TAKE d \in 1..(n + 1 - e)
    <2>2. d \in 1..n /\ n + 1 - d \in e..n /\ n + 1 - d \in 1..n
        OBVIOUS
    <2>3. f[n + 1 - d] >= q - ((n + 1 - d) - e) /\ f[n + 1 - d] \in Nat
        BY <2>2
    <2>4. h[d] = f[n + 1 - d]
        BY <1>3, <2>2
    <2>. QED BY <2>2, <2>3, <2>4
<1>9. 2 * Total(h, 1..n) >= q * (q + 1)
    <2>1. \A x \in 0..n : q <= x /\ (\A d \in 1..x : h[d] >= q - (x - d)) => 2 * Total(h, 1..n) >= q * (q + 1)
        BY <1>6, Ramp
    <2>. QED BY <2>1, <1>7, <1>8
<1>. QED BY <1>5, <1>9

\* What is after a position, summed over all positions, counts each as often as its
\* position says.
LEMMA TailSums ==
    ASSUME NEW r \in Nat, NEW b, \A j \in 1..r : b[j] \in Nat,
           NEW tail, \A i \in 1..r : tail[i] = Total(b, i..r),
           NEW weighted, \A j \in 1..r : weighted[j] = j * b[j]
    PROVE  Total(tail, 1..r) = Total(weighted, 1..r)
<1>1. PICK f : f = [i \in 1..r |-> [j \in 1..r |-> IF j \in i..r THEN b[j] ELSE 0]]
    OBVIOUS
<1>2. PICK h : h = [j \in 1..r |-> [i \in 1..r |-> IF i \in 1..j THEN b[j] ELSE 0]]
    OBVIOUS
<1>3. IsFiniteSet(1..r)
    BY FS_Interval
<1>4. \A i \in 1..r, j \in 1..r : f[i][j] \in Int /\ h[j][i] = f[i][j]
    BY <1>1, <1>2
<1>5. \A i \in 1..r : tail[i] = Total(f[i], 1..r)
    <2>1. TAKE i \in 1..r
    <2>2. i..r \in SUBSET (1..r) /\ \A x \in i..r : b[x] \in Int
        OBVIOUS
    <2>3. PICK w : w = f[i]
        OBVIOUS
    <2>4. \A x \in 1..r : w[x] = IF x \in i..r THEN b[x] ELSE 0
        BY <1>1, <2>3
    <2>5. Total(w, 1..r) = Total(b, i..r)
        BY <1>3, <2>2, <2>4, TotalOn
    <2>. QED BY <2>3, <2>5
<1>6. \A j \in 1..r : weighted[j] = Total(h[j], 1..r)
    <2>1. TAKE j \in 1..r
    <2>2. PICK w : w = h[j]
        OBVIOUS
    <2>3. PICK c \in Int : c = b[j]
        OBVIOUS
    <2>4. \A x \in 1..r : w[x] = IF x \in 1..j THEN c ELSE 0
        BY <1>2, <2>2, <2>3
    <2>5. Total(w, 1..r) = c * Cardinality((1..r) \cap (1..j))
        BY ZenonT(60), <1>3, <2>4, TotalAlike
    <2>6. (1..r) \cap (1..j) = 1..j /\ Cardinality(1..j) = j
        BY FS_Interval
    <2>7. Total(w, 1..r) = c * j
        BY <2>5, <2>6
    <2>8. weighted[j] = j * c /\ c * j = j * c
        BY <2>3
    <2>. QED BY <2>2, <2>7, <2>8
<1>7. Tabled(1..r, 1..r, f, h, tail, weighted)
    BY <1>4, <1>5, <1>6 DEF Tabled
<1>. QED BY <1>3, <1>7, Fubini

-----------------------------------------------------------------------------
\* Neighbours in a row: N gives the neighbours of a position.

Row(r, N) ==
    \A i \in 1..r : /\ N[i] \in SUBSET (1..r) /\ i \notin N[i]
                    /\ \A j \in 1..r : j \in N[i] <=> i \in N[j]

Back(N, j, i)     == Cardinality(N[j] \cap (1..(i - 1)))
Onward(N, r, j, i) == Cardinality(N[j] \cap (i..r))

LEMMA RowCounts ==
    ASSUME NEW r \in Nat, NEW N, Row(r, N), NEW j \in 1..r
    PROVE  /\ IsFiniteSet(N[j]) /\ Cardinality(N[j]) \in Nat
           /\ \A i \in Int : Back(N, j, i) \in Nat /\ Onward(N, r, j, i) \in Nat
           /\ \A i \in 1..r : /\ Back(N, j, i + 1) <= Back(N, j, i) + 1
                              /\ Onward(N, r, j, i) <= Onward(N, r, j, i + 1) + 1
           /\ \A i \in 1..(r + 1) : Back(N, j, i) <= i - 1 /\ Onward(N, r, j, i) <= r + 1 - i
           /\ Onward(N, r, j, j) = Onward(N, r, j, j + 1)
           /\ Cardinality(N[j]) = Back(N, j, j) + Onward(N, r, j, j + 1)
<1>1. N[j] \in SUBSET (1..r) /\ j \notin N[j]
    BY DEF Row
<1>2. IsFiniteSet(N[j])
    <2>1. IsFiniteSet(1..r)
        BY FS_Interval
    <2>. QED BY <1>1, <2>1, FS_Subset
<1>3. \A A : IsFiniteSet(N[j] \cap A) /\ Cardinality(N[j] \cap A) \in Nat
    BY <1>2, FS_Intersection, FS_CardinalityType
<1>4. Cardinality(N[j]) \in Nat
    BY <1>2, FS_CardinalityType
<1>5. \A i \in Int : Back(N, j, i) \in Nat /\ Onward(N, r, j, i) \in Nat
    BY <1>3 DEF Back, Onward
\* One position more holds at most one element more.
<1>6. \A A, i : Cardinality(N[j] \cap (A \cup {i})) <= Cardinality(N[j] \cap A) + 1
    <2>1. TAKE A, i
    <2>2. PICK C, D : C = N[j] \cap A /\ D = N[j] \cap (A \cup {i})
        OBVIOUS
    <2>3. IsFiniteSet(C) /\ Cardinality(C) \in Nat
        BY <1>3, <2>2
    <2>4. CASE i \in N[j] /\ i \notin A
        <3>1. D = C \cup {i} /\ i \notin C
            BY <2>2, <2>4
        <3>2. Cardinality(C \cup {i}) = Cardinality(C) + 1
            BY <2>3, <3>1, FS_AddElement
        <3>3. Cardinality(D) <= Cardinality(C) + 1
            BY ONLY <2>3, <3>1, <3>2
        <3>. QED BY <2>2, <3>3
    <2>5. CASE ~(i \in N[j] /\ i \notin A)
        <3>1. D = C
            BY <2>2, <2>5
        <3>3. Cardinality(D) <= Cardinality(C) + 1
            BY ONLY <2>3, <3>1
        <3>. QED BY <2>2, <3>3
    <2>. QED BY <2>4, <2>5
<1>7. \A i \in 1..r : /\ Back(N, j, i + 1) <= Back(N, j, i) + 1
                      /\ Onward(N, r, j, i) <= Onward(N, r, j, i + 1) + 1
    <2>1. TAKE i \in 1..r
    <2>2. 1..((i + 1) - 1) = (1..(i - 1)) \cup {i}
        OBVIOUS
    <2>3. i..r = ((i + 1)..r) \cup {i}
        OBVIOUS
    <2>. QED BY <1>6, <2>2, <2>3 DEF Back, Onward
<1>8. \A i \in 1..(r + 1) : Back(N, j, i) <= i - 1 /\ Onward(N, r, j, i) <= r + 1 - i
    <2>1. TAKE i \in 1..(r + 1)
    <2>2. IsFiniteSet(1..(i - 1)) /\ Cardinality(1..(i - 1)) = i - 1
        <3>1. i - 1 \in Int /\ (1 > i - 1 <=> i = 1)
            OBVIOUS
        <3>. QED BY <3>1, FS_Interval
    <2>3. IsFiniteSet(i..r) /\ Cardinality(i..r) = r + 1 - i
        <3>1. i \in Int /\ r \in Int /\ (i > r => r + 1 - i = 0) /\ (~(i > r) => r - i + 1 = r + 1 - i)
            OBVIOUS
        <3>. QED BY <3>1, FS_Interval
    <2>4. N[j] \cap (1..(i - 1)) \in SUBSET (1..(i - 1)) /\ N[j] \cap (i..r) \in SUBSET (i..r)
        OBVIOUS
    <2>5. Cardinality(N[j] \cap (1..(i - 1))) <= Cardinality(1..(i - 1))
        BY <2>2, <2>4, FS_Subset
    <2>6. Cardinality(N[j] \cap (i..r)) <= Cardinality(i..r)
        BY <2>3, <2>4, FS_Subset
    <2>. QED BY <2>2, <2>3, <2>5, <2>6 DEF Back, Onward
<1>9. Onward(N, r, j, j) = Onward(N, r, j, j + 1)
    <2>1. N[j] \cap (j..r) = N[j] \cap ((j + 1)..r)
        BY <1>1
    <2>. QED BY <2>1 DEF Onward
<1>10. Cardinality(N[j]) = Back(N, j, j) + Onward(N, r, j, j + 1)
    <2>1. PICK X, Y : X = N[j] \cap (1..(j - 1)) /\ Y = N[j] \cap ((j + 1)..r)
        OBVIOUS
    <2>2. X \cup Y = N[j] /\ X \cap Y = {}
        BY <1>1, <2>1
    <2>3. IsFiniteSet(X) /\ IsFiniteSet(Y)
        BY <1>3, <2>1
    <2>4. Cardinality(X \cup Y) = Cardinality(X) + Cardinality(Y)
        <3>1. Cardinality(X) \in Nat /\ Cardinality(Y) \in Nat /\ Cardinality(X \cap Y) = 0
            BY <2>2, <2>3, FS_CardinalityType, FS_EmptySet
        <3>2. Cardinality(X \cup Y) = Cardinality(X) + Cardinality(Y) - Cardinality(X \cap Y)
            BY <2>3, FS_Union
        <3>. QED BY ONLY <3>1, <3>2
    <2>. QED BY <2>1, <2>2, <2>4 DEF Back, Onward
<1>. QED BY <1>2, <1>4, <1>5, <1>7, <1>8, <1>9, <1>10

-----------------------------------------------------------------------------
\* The bounds by areas: the edges across every position of an order.
\* The edges across a position, counted from the one side and from the other.
LEMMA CrossingTwoWays ==
    ASSUME NEW r \in Nat, NEW N, Row(r, N), NEW i \in 1..r,
           NEW f, \A j \in 1..r : f[j] = IF i <= j THEN Back(N, j, i) ELSE 0,
           NEW h, \A j \in 1..r : h[j] = IF j < i THEN Onward(N, r, j, i) ELSE 0
    PROVE  Total(f, 1..r) = Total(h, 1..r)
<1>1. PICK x : x = [j \in 1..r |-> [l \in 1..r |-> IF i <= j /\ l < i /\ l \in N[j] THEN 1 ELSE 0]]
    OBVIOUS
<1>2. PICK y : y = [l \in 1..r |-> [j \in 1..r |-> IF i <= j /\ l < i /\ l \in N[j] THEN 1 ELSE 0]]
    OBVIOUS
<1>3. \A j, l \in 1..r : x[j][l] \in Int /\ y[l][j] = x[j][l]
    BY <1>1, <1>2
<1>4. IsFiniteSet(1..r)
    BY FS_Interval
<1>5. \A j \in 1..r : f[j] = Total(x[j], 1..r)
    <2>1. TAKE j \in 1..r
    <2>2. PICK u : u = x[j]
        OBVIOUS
    <2>3. CASE i <= j
        <3>1. PICK A : A = N[j] \cap (1..(i - 1))
            OBVIOUS
        <3>2. \A l \in 1..r : u[l] = IF l \in A THEN 1 ELSE 0
            BY <1>1, <2>2, <2>3, <3>1
        <3>3. Total(u, 1..r) = Cardinality((1..r) \cap A)
            BY <1>4, <3>2, TotalCounts
        <3>4. (1..r) \cap A = A
            BY <3>1
        <3>. QED BY <2>2, <2>3, <3>1, <3>3, <3>4 DEF Back
    <2>4. CASE ~(i <= j)
        <3>1. \A l \in 1..r : u[l] = 0
            BY <1>1, <2>2, <2>4
        <3>2. Total(u, 1..r) = 0
            BY <1>4, <3>1, TotalZero
        <3>. QED BY <2>2, <2>4, <3>2
    <2>. QED BY <2>3, <2>4
<1>6. \A l \in 1..r : h[l] = Total(y[l], 1..r)
    <2>1. TAKE l \in 1..r
    <2>2. PICK u : u = y[l]
        OBVIOUS
    <2>3. CASE l < i
        <3>1. PICK A : A = N[l] \cap (i..r)
            OBVIOUS
        <3>2. \A j \in 1..r : u[j] = IF j \in A THEN 1 ELSE 0
            <4>1. TAKE j \in 1..r
            <4>2. l \in N[j] <=> j \in N[l]
                BY DEF Row
            <4>. QED BY <1>2, <2>2, <2>3, <3>1, <4>2
        <3>3. Total(u, 1..r) = Cardinality((1..r) \cap A)
            BY <1>4, <3>2, TotalCounts
        <3>4. (1..r) \cap A = A
            BY <3>1
        <3>. QED BY <2>2, <2>3, <3>1, <3>3, <3>4 DEF Onward
    <2>4. CASE ~(l < i)
        <3>1. \A j \in 1..r : u[j] = 0
            BY <1>2, <2>2, <2>4
        <3>2. Total(u, 1..r) = 0
            BY <1>4, <3>1, TotalZero
        <3>. QED BY <2>2, <2>4, <3>2
    <2>. QED BY <2>3, <2>4
<1>7. Tabled(1..r, 1..r, x, y, f, h)
    BY <1>3, <1>5, <1>6 DEF Tabled
<1>. QED BY <1>7, FS_Interval, Fubini

Crossings(N, r) ==
    [i \in 1..r |-> Total([j \in 1..r |-> IF i <= j THEN Back(N, j, i) ELSE 0], 1..r)]
BackArea(N, r) ==
    [j \in 1..r |-> Total([i \in 1..r |-> IF i <= j THEN Back(N, j, i) ELSE 0], 1..r)]
OnwardArea(N, r) ==
    [j \in 1..r |-> Total([i \in 1..r |-> IF j < i THEN Onward(N, r, j, i) ELSE 0], 1..r)]

LEMMA CrossingArea ==
    ASSUME NEW r \in Nat, NEW N, Row(r, N)
    PROVE  /\ Total(Crossings(N, r), 1..r) = Total(BackArea(N, r), 1..r)
           /\ Total(Crossings(N, r), 1..r) = Total(OnwardArea(N, r), 1..r)
           /\ \A i \in 1..r : /\ Crossings(N, r)[i] \in Nat
                              /\ BackArea(N, r)[i] \in Nat /\ OnwardArea(N, r)[i] \in Nat
<1>0. \A i, j \in 1..r : Back(N, j, i) \in Nat /\ Onward(N, r, j, i) \in Nat
    BY RowCounts
<1>1. PICK f : f = [i \in 1..r |-> [j \in 1..r |-> IF i <= j THEN Back(N, j, i) ELSE 0]]
    OBVIOUS
<1>2. PICK g : g = [j \in 1..r |-> [i \in 1..r |-> IF i <= j THEN Back(N, j, i) ELSE 0]]
    OBVIOUS
<1>3. PICK x : x = [i \in 1..r |-> [j \in 1..r |-> IF j < i THEN Onward(N, r, j, i) ELSE 0]]
    OBVIOUS
<1>4. PICK y : y = [j \in 1..r |-> [i \in 1..r |-> IF j < i THEN Onward(N, r, j, i) ELSE 0]]
    OBVIOUS
<1>5. \A i, j \in 1..r : f[i][j] \in Nat /\ g[j][i] = f[i][j] /\ x[i][j] \in Nat /\ y[j][i] = x[i][j]
    BY <1>0, <1>1, <1>2, <1>3, <1>4
<1>6. PICK c : c = Crossings(N, r)
    OBVIOUS
<1>7. PICK b, o : b = BackArea(N, r) /\ o = OnwardArea(N, r)
    OBVIOUS
<1>8. \A i \in 1..r : /\ c[i] = Total(f[i], 1..r) /\ b[i] = Total(g[i], 1..r)
                      /\ o[i] = Total(y[i], 1..r)
    BY <1>1, <1>2, <1>4, <1>6, <1>7 DEF Crossings, BackArea, OnwardArea
<1>9. \A i \in 1..r : Total(f[i], 1..r) = Total(x[i], 1..r)
    <2>1. TAKE i \in 1..r
    <2>2. PICK u, v : u = f[i] /\ v = x[i]
        OBVIOUS
    <2>3. \A j \in 1..r : u[j] = IF i <= j THEN Back(N, j, i) ELSE 0
        BY <1>1, <2>2
    <2>4. \A j \in 1..r : v[j] = IF j < i THEN Onward(N, r, j, i) ELSE 0
        BY <1>3, <2>2
    <2>5. Total(u, 1..r) = Total(v, 1..r)
        BY <2>3, <2>4, CrossingTwoWays
    <2>. QED BY <2>2, <2>5
<1>10. \A i \in 1..r : c[i] \in Nat /\ b[i] \in Nat /\ o[i] \in Nat
    <2>1. \A u : (\A j \in 1..r : u[j] \in Nat) => Total(u, 1..r) \in Nat
        <3>1. IsFiniteSet(1..r)
            BY FS_Interval
        <3>. QED BY <3>1, TotalNat
    <2>2. \A i \in 1..r : /\ \A j \in 1..r : f[i][j] \in Nat
                          /\ \A j \in 1..r : g[i][j] \in Nat
                          /\ \A j \in 1..r : y[i][j] \in Nat
        BY <1>5
    <2>. QED BY <1>8, <2>1, <2>2
<1>11. Total(c, 1..r) = Total(b, 1..r)
    <2>1. \A i, j \in 1..r : f[i][j] \in Int /\ g[j][i] = f[i][j]
        BY <1>5
    <2>2. Tabled(1..r, 1..r, f, g, c, b)
        BY <1>8, <2>1 DEF Tabled
    <2>. QED BY <2>2, FS_Interval, Fubini
<1>12. Total(c, 1..r) = Total(o, 1..r)
    <2>1. \A i, j \in 1..r : x[i][j] \in Int /\ y[j][i] = x[i][j]
        BY <1>5
    <2>2. \A i \in 1..r : c[i] = Total(x[i], 1..r)
        BY <1>8, <1>9
    <2>3. Tabled(1..r, 1..r, x, y, c, o)
        BY <1>8, <2>1, <2>2 DEF Tabled
    <2>. QED BY <2>3, FS_Interval, Fubini
<1>. QED BY <1>6, <1>7, <1>10, <1>11, <1>12

\* The edges of one position reach at least as far as if they led to the positions
\* next to it.
LEMMA AreaAtLeast ==
    ASSUME NEW r \in Nat, NEW N, Row(r, N), NEW j \in 1..r
    PROVE  /\ 2 * BackArea(N, r)[j] >= Back(N, j, j) * (Back(N, j, j) + 1)
           /\ 2 * OnwardArea(N, r)[j] >= Onward(N, r, j, j + 1) * (Onward(N, r, j, j + 1) + 1)
<1>0. /\ \A i \in Int : Back(N, j, i) \in Nat /\ Onward(N, r, j, i) \in Nat
      /\ \A i \in 1..r : /\ Back(N, j, i + 1) <= Back(N, j, i) + 1
                         /\ Onward(N, r, j, i) <= Onward(N, r, j, i + 1) + 1
      /\ \A i \in 1..(r + 1) : Back(N, j, i) <= i - 1 /\ Onward(N, r, j, i) <= r + 1 - i
    BY RowCounts
<1>1. 2 * BackArea(N, r)[j] >= Back(N, j, j) * (Back(N, j, j) + 1)
    <2>1. PICK f : f = [i \in 1..r |-> IF i <= j THEN Back(N, j, i) ELSE 0]
        OBVIOUS
    <2>2. \A i \in 1..r : f[i] \in Nat /\ (i <= j => f[i] = Back(N, j, i))
        <3>1. TAKE i \in 1..r
        <3>2. PICK t \in Nat : t = Back(N, j, i)
            BY <1>0
        <3>3. f[i] = IF i <= j THEN t ELSE 0
            BY <2>1, <3>2
        <3>. QED BY <3>2, <3>3
    <2>3. PICK q \in Nat : q = Back(N, j, j)
        BY <1>0
    <2>. DEFINE B == {m \in 0..(j - 1) : ~(Back(N, j, j - m) >= q - m)}
    <2>4. ASSUME B # {} PROVE FALSE
        <3>1. PICK m \in B : \A k \in B : m <= k
            <4>1. B \in SUBSET Nat
                OBVIOUS
            <4>. HIDE DEF B
            <4>. QED BY <2>4, <4>1, Least
        <3>2. m # 0
            BY <2>3
        <3>3. m - 1 \in 0..(j - 1) /\ m - 1 \notin B
            BY <3>1, <3>2
        <3>4. Back(N, j, j - (m - 1)) >= q - (m - 1)
            BY <3>3
        <3>5. j - m \in 1..r /\ j - (m - 1) = (j - m) + 1
            BY <3>2
        <3>6. Back(N, j, (j - m) + 1) <= Back(N, j, j - m) + 1
            BY <1>0, <3>5
        <3>7. Back(N, j, j - m) \in Nat /\ Back(N, j, (j - m) + 1) \in Nat
            BY <1>0
        <3>. QED BY <3>4, <3>5, <3>6, <3>7
    <2>5. \A d \in 1..j : f[d] >= q - (j - d)
        <3>1. TAKE d \in 1..j
        <3>2. j - d \in 0..(j - 1) /\ j - (j - d) = d
            OBVIOUS
        <3>3. Back(N, j, j - (j - d)) >= q - (j - d)
            BY <2>4, <3>2
        <3>. QED BY <2>2, <3>2, <3>3
    <2>6. q <= j /\ j \in 0..r /\ \A d \in 1..r : f[d] \in Nat
        BY <1>0, <2>2, <2>3
    <2>7. 2 * Total(f, 1..r) >= q * (q + 1)
        BY ONLY r \in Nat, j \in 0..r, q \in Nat, <2>5, <2>6, Ramp
    <2>. QED BY <2>1, <2>3, <2>7 DEF BackArea
<1>2. 2 * OnwardArea(N, r)[j] >= Onward(N, r, j, j + 1) * (Onward(N, r, j, j + 1) + 1)
    <2>1. PICK f : f = [i \in 1..r |-> IF j < i THEN Onward(N, r, j, i) ELSE 0]
        OBVIOUS
    <2>2. \A i \in 1..r : f[i] \in Nat /\ (j < i => f[i] = Onward(N, r, j, i))
        <3>1. TAKE i \in 1..r
        <3>2. PICK t \in Nat : t = Onward(N, r, j, i)
            BY <1>0
        <3>3. f[i] = IF j < i THEN t ELSE 0
            BY <2>1, <3>2
        <3>. QED BY <3>2, <3>3
    <2>3. PICK q \in Nat : q = Onward(N, r, j, j + 1)
        BY <1>0
    <2>. DEFINE B == {m \in 0..(r - j) : ~(Onward(N, r, j, (j + 1) + m) >= q - m)}
    <2>4. ASSUME B # {} PROVE FALSE
        <3>1. PICK m \in B : \A k \in B : m <= k
            <4>1. B \in SUBSET Nat
                OBVIOUS
            <4>. HIDE DEF B
            <4>. QED BY <2>4, <4>1, Least
        <3>2. m # 0
            BY <2>3
        <3>3. m - 1 \in 0..(r - j) /\ m - 1 \notin B
            BY <3>1, <3>2
        <3>4. Onward(N, r, j, (j + 1) + (m - 1)) >= q - (m - 1)
            BY <3>3
        <3>5. j + m \in 1..r /\ (j + 1) + (m - 1) = j + m /\ (j + 1) + m = (j + m) + 1
            BY <3>2
        <3>6. Onward(N, r, j, j + m) <= Onward(N, r, j, (j + m) + 1) + 1
            BY <1>0, <3>5
        <3>7. Onward(N, r, j, j + m) \in Nat /\ Onward(N, r, j, (j + m) + 1) \in Nat
            BY <1>0
        <3>. QED BY <3>4, <3>5, <3>6, <3>7
    <2>5. \A d \in (j + 1)..r : f[d] >= q - (d - (j + 1))
        <3>1. TAKE d \in (j + 1)..r
        <3>2. d - (j + 1) \in 0..(r - j) /\ (j + 1) + (d - (j + 1)) = d
            OBVIOUS
        <3>3. Onward(N, r, j, (j + 1) + (d - (j + 1))) >= q - (d - (j + 1))
            BY <2>4, <3>2
        <3>4. d \in 1..r /\ j < d
            OBVIOUS
        <3>. QED BY <2>2, <3>2, <3>3, <3>4
    <2>6. q <= r + 1 - (j + 1) /\ j + 1 \in 1..(r + 1) /\ \A d \in 1..r : f[d] \in Nat
        BY <1>0, <2>2, <2>3
    <2>7. PICK e : e = j + 1
        OBVIOUS
    <2>8. e \in 1..(r + 1) /\ q <= r + 1 - e /\ (\A d \in e..r : f[d] >= q - (d - e))
        BY <2>5, <2>6, <2>7
    <2>9. 2 * Total(f, 1..r) >= q * (q + 1)
        BY ONLY r \in Nat, q \in Nat, <2>6, <2>8, RampDown
    <2>. QED BY <2>1, <2>3, <2>9 DEF OnwardArea
<1>. QED BY <1>1, <1>2

LEMMA QuarterHalves ==
    ASSUME NEW p \in Nat, NEW q \in Nat, NEW x \in Nat, NEW y \in Nat,
           2 * x >= p * (p + 1), 2 * y >= q * (q + 1)
    PROVE  QuarterSquare(p + q) <= x + y /\ QuarterSquare(p + q) \in Nat
<1>1. PICK a, b, c \in Int : a = p * p /\ b = q * q /\ c = p * q
    OBVIOUS
<1>2. p * (p + 1) = a + p /\ q * (q + 1) = b + q
    BY <1>1
<1>3. ((p + q) + 1) * ((p + q) + 1) = a + b + 2 * c + 2 * p + 2 * q + 1
    BY <1>1
<1>4. a + b - 2 * c >= 0
    <2>1. (p - q) * (p - q) = a + b - 2 * c
        BY <1>1
    <2>2. \A z \in Int : z * z >= 0
        OBVIOUS
    <2>. QED BY <2>1, <2>2
<1>5. PICK s \in Int : s = ((p + q) + 1) * ((p + q) + 1)
    OBVIOUS
<1>6. s <= 4 * (x + y) + 1 /\ s >= 0
    BY <1>1, <1>2, <1>3, <1>4, <1>5
<1>7. s \div 4 <= x + y /\ s \div 4 \in Nat
    BY ONLY <1>6, s \in Int, x \in Nat, y \in Nat
<1>. QED BY <1>5, <1>7 DEF QuarterSquare

\* The bound of the degrees (minimum_degree_distance_area).
LEMMA DegreeArea ==
    ASSUME NEW r \in Nat, NEW N, Row(r, N),
           NEW Q, \A j \in 1..r : Q[j] = QuarterSquare(Cardinality(N[j]))
    PROVE  /\ Total(Q, 1..r) <= 2 * Total(Crossings(N, r), 1..r)
           /\ Total(Q, 1..r) \in Nat /\ Total(Crossings(N, r), 1..r) \in Nat
<1>1. PICK c, b, o : c = Crossings(N, r) /\ b = BackArea(N, r) /\ o = OnwardArea(N, r)
    OBVIOUS
<1>2. /\ Total(c, 1..r) = Total(b, 1..r) /\ Total(c, 1..r) = Total(o, 1..r)
      /\ \A i \in 1..r : c[i] \in Nat /\ b[i] \in Nat /\ o[i] \in Nat
    BY <1>1, CrossingArea
<1>3. \A j \in 1..r : Q[j] \in Nat /\ Q[j] <= b[j] + o[j]
    <2>1. TAKE j \in 1..r
    <2>2. PICK p, q \in Nat : p = Back(N, j, j) /\ q = Onward(N, r, j, j + 1)
        BY RowCounts
    <2>3. 2 * b[j] >= p * (p + 1) /\ 2 * o[j] >= q * (q + 1)
        BY <1>1, <2>2, AreaAtLeast
    <2>4. Cardinality(N[j]) = p + q
        BY <2>2, RowCounts
    <2>5. b[j] \in Nat /\ o[j] \in Nat
        BY <1>2
    <2>6. QuarterSquare(p + q) <= b[j] + o[j] /\ QuarterSquare(p + q) \in Nat
        BY <2>3, <2>5, QuarterHalves
    <2>. QED BY <2>4, <2>6
<1>4. PICK e : e = [j \in 1..r |-> b[j] + o[j]]
    OBVIOUS
<1>5. IsFiniteSet(1..r)
    BY FS_Interval
<1>6. Total(e, 1..r) = Total(b, 1..r) + Total(o, 1..r)
    <2>1. \A j \in 1..r : b[j] \in Int /\ o[j] \in Int /\ e[j] = b[j] + o[j]
        BY <1>2, <1>4
    <2>. QED BY <1>5, <2>1, TotalPlus
<1>7. Total(Q, 1..r) <= Total(e, 1..r)
    <2>1. \A j \in 1..r : Q[j] \in Int /\ e[j] \in Int /\ Q[j] <= e[j]
        BY <1>2, <1>3, <1>4
    <2>. QED BY <1>5, <2>1, TotalsOrdered
<1>8. Total(Q, 1..r) \in Nat /\ Total(c, 1..r) \in Nat
    BY <1>2, <1>3, <1>5, TotalNat
<1>. QED BY <1>1, <1>2, <1>6, <1>7, <1>8

\* The edges between positions at least d apart.
Reaching(N, r) == [d \in 1..r |-> Total([j \in 1..r |-> Onward(N, r, j, j + d)], 1..r)]

LEMMA OnwardNone ==
    ASSUME NEW r \in Nat, NEW N, NEW j \in 1..r, NEW d \in Nat, j + d > r
    PROVE  Onward(N, r, j, j + d) = 0
<1>1. N[j] \cap ((j + d)..r) = {}
    OBVIOUS
<1>. QED BY <1>1, FS_EmptySet DEF Onward

LEMMA ReachArea ==
    ASSUME NEW r \in Nat, NEW N, Row(r, N)
    PROVE  Total(Reaching(N, r), 1..r) = Total(Crossings(N, r), 1..r)
<1>0. \A j \in 1..r : \A i \in Int : Onward(N, r, j, i) \in Nat
    BY RowCounts
<1>1. PICK f : f = [d \in 1..r |-> [j \in 1..r |-> Onward(N, r, j, j + d)]]
    OBVIOUS
<1>2. PICK h : h = [j \in 1..r |-> [d \in 1..r |-> Onward(N, r, j, j + d)]]
    OBVIOUS
<1>3. PICK rows, cols : rows = Reaching(N, r) /\ cols = OnwardArea(N, r)
    OBVIOUS
<1>4. \A d, j \in 1..r : f[d][j] \in Int /\ h[j][d] = f[d][j]
    <2>1. TAKE d, j \in 1..r
    <2>2. j + d \in Int
        OBVIOUS
    <2>. QED BY <1>0, <1>1, <1>2, <2>2
<1>5. \A d \in 1..r : rows[d] = Total(f[d], 1..r)
    BY <1>1, <1>3 DEF Reaching
<1>6. \A j \in 1..r : cols[j] = Total(h[j], 1..r)
    <2>1. TAKE j \in 1..r
    <2>2. PICK x : x = [i \in 1..r |-> IF j < i THEN Onward(N, r, j, i) ELSE 0]
        OBVIOUS
    <2>3. PICK v : v = [i \in 1..r |-> Onward(N, r, j, i)]
        OBVIOUS
    <2>4. PICK u : u = h[j]
        OBVIOUS
    <2>5. PICK w : w = [d \in 1..(r - j) |-> Onward(N, r, j, j + d)]
        OBVIOUS
    <2>6. PICK p : p = [d \in 1..(r - j) |-> j + d]
        OBVIOUS
    <2>7. IsFiniteSet(1..r) /\ IsFiniteSet(1..(r - j))
        BY FS_Interval
    <2>8. \A i \in 1..r : i \in Int /\ v[i] = Onward(N, r, j, i) /\ v[i] \in Int
        <3>1. \A i \in 1..r : i \in Int
            OBVIOUS
        <3>. QED BY <1>0, <2>3, <3>1
    <2>9. Total(x, 1..r) = Total(v, (j + 1)..r)
        <3>1. (j + 1)..r \in SUBSET (1..r) /\ \A i \in (j + 1)..r : v[i] \in Int
            BY <2>8
        <3>2. \A i \in 1..r : x[i] = IF i \in (j + 1)..r THEN v[i] ELSE 0
            BY <2>2, <2>8
        <3>. QED BY <2>7, <3>1, <3>2, TotalOn
    <2>10. Total(w, 1..(r - j)) = Total(v, (j + 1)..r)
        <3>1. PICK S : S = 1..(r - j)
            OBVIOUS
        <3>2. \A d \in S : j + d \in 1..r /\ p[d] = j + d /\ w[d] = Onward(N, r, j, j + d)
            BY <2>5, <2>6, <3>1
        <3>3. \A y, z \in S : p[y] = p[z] => y = z
            BY <3>1, <3>2
        <3>4. \A d \in S : v[p[d]] \in Int /\ w[d] = v[p[d]]
            BY <2>8, <3>2
        <3>5. Total(w, S) = Total(v, {p[d] : d \in S})
            <4>1. IsFiniteSet(S)
                BY <2>7, <3>1
            <4>. QED BY ONLY <4>1, <3>3, <3>4, Reindex
        <3>6. {p[d] : d \in S} = (j + 1)..r
            <4>1. \A i \in (j + 1)..r : i - j \in S /\ p[i - j] = i
                BY <3>1, <3>2
            <4>2. \A d \in S : p[d] \in (j + 1)..r
                BY <3>1, <3>2
            <4>. QED BY <4>1, <4>2
        <3>. QED BY <3>1, <3>5, <3>6
    <2>11. Total(u, 1..r) = Total(w, 1..(r - j))
        <3>1. 1..(r - j) \in SUBSET (1..r)
            OBVIOUS
        <3>2. \A d \in 1..(r - j) : w[d] \in Int
            <4>1. \A d \in 1..(r - j) : j + d \in Int
                OBVIOUS
            <4>. QED BY <1>0, <2>5, <4>1
        <3>3. \A d \in 1..r : u[d] = IF d \in 1..(r - j) THEN w[d] ELSE 0
            <4>1. TAKE d \in 1..r
            <4>2. u[d] = Onward(N, r, j, j + d)
                BY <1>2, <2>4
            <4>3. d \notin 1..(r - j) => j + d > r /\ d \in Nat
                OBVIOUS
            <4>. QED BY <2>5, <4>2, <4>3, OnwardNone
        <3>. QED BY <2>7, <3>1, <3>2, <3>3, TotalOn
    <2>12. cols[j] = Total(x, 1..r)
        BY <1>3, <2>2 DEF OnwardArea
    <2>. QED BY <2>4, <2>9, <2>10, <2>11, <2>12
<1>7. Tabled(1..r, 1..r, f, h, rows, cols)
    BY <1>4, <1>5, <1>6 DEF Tabled
<1>. QED BY <1>3, <1>7, FS_Interval, Fubini, CrossingArea

\* At most r - d edges are between positions d apart.
LEMMA ReachStep ==
    ASSUME NEW r \in Nat, NEW N, Row(r, N),
           NEW size, \A j \in 1..r : size[j] = Cardinality(N[j])
    PROVE  /\ \A d \in 1..r : Reaching(N, r)[d] \in Nat
           /\ \A d \in 1..(r - 1) : Reaching(N, r)[d] <= Reaching(N, r)[d + 1] + (r - d)
           /\ r > 0 => Total(size, 1..r) = 2 * Reaching(N, r)[1]
<1>0. \A j \in 1..r : \A i \in Int : Onward(N, r, j, i) \in Nat
    BY RowCounts
<1>1. PICK f : f = [d \in 1..r |-> [j \in 1..r |-> Onward(N, r, j, j + d)]]
    OBVIOUS
<1>2. PICK c : c = Reaching(N, r)
    OBVIOUS
<1>3. IsFiniteSet(1..r)
    BY FS_Interval
<1>4. \A d \in 1..r : c[d] = Total(f[d], 1..r)
    BY <1>1, <1>2 DEF Reaching
<1>5. \A d, j \in 1..r : f[d][j] = Onward(N, r, j, j + d) /\ f[d][j] \in Nat
    <2>1. TAKE d, j \in 1..r
    <2>2. j + d \in Int
        OBVIOUS
    <2>. QED BY <1>0, <1>1, <2>2
<1>6. \A d \in 1..r : c[d] \in Nat
    <2>1. TAKE d \in 1..r
    <2>2. \A j \in 1..r : f[d][j] \in Nat
        BY <1>5
    <2>. QED BY <1>3, <1>4, <2>2, TotalNat
<1>7. \A d \in 1..(r - 1) : c[d] <= c[d + 1] + (r - d)
    <2>1. TAKE d \in 1..(r - 1)
    <2>2. d \in 1..r /\ d + 1 \in 1..r
        OBVIOUS
    <2>3. PICK u, v : u = f[d] /\ v = f[d + 1]
        OBVIOUS
    <2>4. PICK one : one = [j \in 1..r |-> IF j \in 1..(r - d) THEN 1 ELSE 0]
        OBVIOUS
    <2>5. PICK e : e = [j \in 1..r |-> v[j] + one[j]]
        OBVIOUS
    <2>6. \A j \in 1..r : u[j] \in Nat /\ v[j] \in Nat
        BY <1>5, <2>2, <2>3
    <2>7. \A j \in 1..r : u[j] <= e[j] /\ e[j] \in Int /\ one[j] \in Int
        <3>1. TAKE j \in 1..r
        <3>2. u[j] = Onward(N, r, j, j + d) /\ v[j] = Onward(N, r, j, j + (d + 1))
            BY <1>5, <2>2, <2>3
        <3>3. CASE j + d <= r
            <4>1. j + d \in 1..r /\ j + (d + 1) = (j + d) + 1 /\ j \in 1..(r - d)
                BY <3>3
            <4>2. Onward(N, r, j, j + d) <= Onward(N, r, j, (j + d) + 1) + 1
                BY <4>1, RowCounts
            <4>3. e[j] = v[j] + 1 /\ one[j] = 1
                BY <2>4, <2>5, <4>1
            <4>. QED BY <2>6, <3>2, <4>1, <4>2, <4>3
        <3>4. CASE ~(j + d <= r)
            <4>1. u[j] = 0
                <5>1. j + d > r /\ d \in Nat
                    BY <3>4
                <5>. QED BY <3>2, <5>1, OnwardNone
            <4>2. one[j] = 0
                BY <2>4, <3>4
            <4>. QED BY <2>5, <2>6, <4>1, <4>2
        <3>. QED BY <3>3, <3>4
    <2>8. Total(u, 1..r) <= Total(e, 1..r)
        <3>1. \A j \in 1..r : u[j] \in Int /\ e[j] \in Int /\ u[j] <= e[j]
            BY <2>6, <2>7
        <3>. QED BY <1>3, <3>1, TotalsOrdered
    <2>9. Total(e, 1..r) = Total(v, 1..r) + Total(one, 1..r)
        <3>1. \A j \in 1..r : v[j] \in Int /\ one[j] \in Int /\ e[j] = v[j] + one[j]
            BY <2>5, <2>6, <2>7
        <3>. QED BY <1>3, <3>1, TotalPlus
    <2>10. Total(one, 1..r) = r - d
        <3>1. \A j \in 1..r : one[j] = IF j \in 1..(r - d) THEN 1 ELSE 0
            BY <2>4
        <3>2. Total(one, 1..r) = Cardinality((1..r) \cap (1..(r - d)))
            BY <1>3, <3>1, TotalCounts
        <3>3. (1..r) \cap (1..(r - d)) = 1..(r - d)
            OBVIOUS
        <3>4. Cardinality(1..(r - d)) = r - d
            <4>1. ~(1 > r - d) /\ (r - d) - 1 + 1 = r - d
                OBVIOUS
            <4>. QED BY <4>1, FS_Interval
        <3>. QED BY <3>2, <3>3, <3>4
    <2>. QED BY <1>4, <2>2, <2>3, <2>8, <2>9, <2>10
<1>8. ASSUME r > 0 PROVE Total(size, 1..r) = 2 * c[1]
    <2>1. 1 \in 1..r
        BY <1>8
    <2>2. PICK b : b = [j \in 1..r |-> Back(N, j, j)]
        OBVIOUS
    <2>3. PICK o : o = [j \in 1..r |-> Onward(N, r, j, j + 1)]
        OBVIOUS
    <2>4. c[1] = Total(o, 1..r)
        BY <1>4, <1>1, <2>1, <2>3
    <2>5. \A j \in 1..r : b[j] \in Nat /\ o[j] \in Nat /\ size[j] = b[j] + o[j]
        <3>1. TAKE j \in 1..r
        <3>2. j \in Int /\ j + 1 \in Int
            OBVIOUS
        <3>3. Back(N, j, j) \in Nat /\ Onward(N, r, j, j + 1) \in Nat
            BY <3>2, RowCounts
        <3>. QED BY <2>2, <2>3, <3>3, RowCounts
    <2>6. Total(size, 1..r) = Total(b, 1..r) + Total(o, 1..r)
        <3>1. \A j \in 1..r : b[j] \in Int /\ o[j] \in Int /\ size[j] = b[j] + o[j]
            BY <2>5
        <3>. QED BY <1>3, <3>1, TotalPlus
    <2>7. Total(b, 1..r) = Total(o, 1..r)
        <3>1. PICK x : x = [j \in 1..r |-> [l \in 1..r |-> IF l < j /\ l \in N[j] THEN 1 ELSE 0]]
            OBVIOUS
        <3>2. PICK y : y = [l \in 1..r |-> [j \in 1..r |-> IF l < j /\ l \in N[j] THEN 1 ELSE 0]]
            OBVIOUS
        <3>3. \A j, l \in 1..r : x[j][l] \in Int /\ y[l][j] = x[j][l]
            BY <3>1, <3>2
        <3>4. \A j \in 1..r : b[j] = Total(x[j], 1..r)
            <4>1. TAKE j \in 1..r
            <4>2. PICK u, A : u = x[j] /\ A = N[j] \cap (1..(j - 1))
                OBVIOUS
            <4>3. \A l \in 1..r : u[l] = IF l \in A THEN 1 ELSE 0
                BY <3>1, <4>2
            <4>4. Total(u, 1..r) = Cardinality((1..r) \cap A)
                BY <1>3, <4>3, TotalCounts
            <4>5. (1..r) \cap A = A
                BY <4>2
            <4>. QED BY <2>2, <4>2, <4>4, <4>5 DEF Back
        <3>5. \A l \in 1..r : o[l] = Total(y[l], 1..r)
            <4>1. TAKE l \in 1..r
            <4>2. PICK u, A : u = y[l] /\ A = N[l] \cap ((l + 1)..r)
                OBVIOUS
            <4>3. \A j \in 1..r : u[j] = IF j \in A THEN 1 ELSE 0
                <5>1. TAKE j \in 1..r
                <5>2. l \in N[j] <=> j \in N[l]
                    BY DEF Row
                <5>. QED BY <3>2, <4>2, <5>2
            <4>4. Total(u, 1..r) = Cardinality((1..r) \cap A)
                BY <1>3, <4>3, TotalCounts
            <4>5. (1..r) \cap A = A
                BY <4>2
            <4>. QED BY <2>3, <4>2, <4>4, <4>5 DEF Onward
        <3>6. Tabled(1..r, 1..r, x, y, b, o)
            BY <3>3, <3>4, <3>5 DEF Tabled
        <3>. QED BY <3>6, FS_Interval, Fubini
    <2>8. Total(o, 1..r) \in Int
        BY <1>6, <2>1, <2>4
    <2>. QED BY <2>4, <2>6, <2>7, <2>8
<1>. QED BY <1>2, <1>6, <1>7, <1>8


-----------------------------------------------------------------------------
\* The distances are filled from the shortest on.

LEMMA UnfilledStep ==
    ASSUME NEW r \in Nat, NEW m \in Nat
    PROVE  /\ Unfilled(r, m, 1) = m
           /\ \A d \in 1..r : Unfilled(r, m, d) \in Nat
           /\ \A d \in 1..(r - 1) :
                 /\ Unfilled(r, m, d + 1) = Max({0, Unfilled(r, m, d) - (r - d)})
                 /\ Min({Unfilled(r, m, d), r - d}) = Unfilled(r, m, d) - Unfilled(r, m, d + 1)
<1>. DEFINE pairs(d) == [e \in 1..(d - 1) |-> r - e]
            sum(d) == Total(pairs(d), 1..(d - 1))
<1>1. \A d \in 1..r : Unfilled(r, m, d) = Max({0, m - sum(d)})
    <2>1. TAKE d \in 1..r
    <2>2. PICK p : p = pairs(d)
        OBVIOUS
    <2>3. DOMAIN p = 1..(d - 1)
        BY <2>2
    <2>4. SumOf(p) = Total(p, 1..(d - 1))
        BY <2>3, SumIs
    <2>. QED BY <2>2, <2>4 DEF Unfilled
<1>2. /\ sum(1) = 0 /\ \A d \in 1..r : sum(d) \in Nat
      /\ \A d \in 1..(r - 1) : sum(d + 1) = sum(d) + (r - d)
    <2>1. sum(1) = 0
        <3>1. 1..(1 - 1) = {}
            OBVIOUS
        <3>. QED BY <3>1, TotalEmpty
    <2>2. \A d \in 1..r : sum(d) \in Nat
        <3>1. TAKE d \in 1..r
        <3>2. PICK p : p = pairs(d)
            OBVIOUS
        <3>3. IsFiniteSet(1..(d - 1)) /\ \A e \in 1..(d - 1) : p[e] \in Nat
            BY <3>2, FS_Interval
        <3>4. Total(p, 1..(d - 1)) \in Nat
            BY <3>3, TotalNat
        <3>. QED BY <3>2, <3>4
    <2>3. \A d \in 1..(r - 1) : sum(d + 1) = sum(d) + (r - d)
        <3>1. TAKE d \in 1..(r - 1)
        <3>2. PICK p, q : p = pairs(d) /\ q = pairs(d + 1)
            OBVIOUS
        <3>3. PICK k \in Nat : k = d - 1
            OBVIOUS
        <3>4. (d + 1) - 1 = k + 1 /\ d = k + 1
            BY <3>3
        <3>5. \A e \in 1..(k + 1) : q[e] = r - e /\ q[e] \in Int
            BY <3>2, <3>4
        <3>6. \A e \in 1..k : p[e] = r - e /\ p[e] \in Int
            BY <3>2, <3>3
        <3>7. Total(q, 1..(k + 1)) = q[k + 1] + Total(q, 1..k)
            BY <3>5, TotalLast
        <3>8. Total(q, 1..k) = Total(p, 1..k)
            <4>1. IsFiniteSet(1..k) /\ \A e \in 1..k : p[e] \in Int /\ q[e] = p[e]
                BY <3>5, <3>6, FS_Interval
            <4>. QED BY <4>1, TotalsAgree
        <3>9. q[k + 1] = r - d
            BY <3>4, <3>5
        <3>10. sum(d + 1) = Total(q, 1..(k + 1)) /\ sum(d) = Total(p, 1..k)
            BY <3>2, <3>3, <3>4
        <3>11. sum(d) \in Nat
            BY <2>2
        <3>. HIDE DEF sum
        <3>. QED BY <3>7, <3>8, <3>9, <3>10, <3>11
    <2>. HIDE DEF sum
    <2>. QED BY <2>1, <2>2, <2>3
<1>. HIDE DEF sum
<1>3. \A x \in Int : Max({0, x}) = IF x > 0 THEN x ELSE 0
    <2>1. TAKE x \in Int
    <2>2. {0, x} \in SUBSET Int /\ IsFiniteSet({0, x}) /\ {0, x} # {}
        <3>1. {0, x} = {0} \cup {x}
            OBVIOUS
        <3>2. IsFiniteSet({0})
            BY FS_Singleton
        <3>3. IsFiniteSet({0} \cup {x})
            BY ONLY <3>2, FS_AddElement
        <3>4. IsFiniteSet({0, x})
            BY ONLY <3>1, <3>3
        <3>. QED BY <3>4
    <2>3. PICK M : M = {0, x}
        OBVIOUS
    <2>4. Max(M) \in M /\ \A k \in M : k <= Max(M)
        BY <2>2, <2>3, MaxIs
    <2>5. PICK y : y = Max(M)
        OBVIOUS
    <2>. QED BY <2>3, <2>4, <2>5
<1>4. \A x, y \in Int : Min({x, y}) = IF x <= y THEN x ELSE y
    <2>1. TAKE x, y \in Int
    <2>2. {x, y} \in SUBSET Int /\ IsFiniteSet({x, y}) /\ {x, y} # {}
        <3>1. {x, y} = {x} \cup {y}
            OBVIOUS
        <3>2. IsFiniteSet({x})
            BY FS_Singleton
        <3>3. IsFiniteSet({x} \cup {y})
            BY ONLY <3>2, FS_AddElement
        <3>4. IsFiniteSet({x, y})
            BY ONLY <3>1, <3>3
        <3>. QED BY <3>4
    <2>3. PICK M : M = {x, y}
        OBVIOUS
    <2>4. Min(M) \in M /\ \A k \in M : Min(M) <= k
        BY <2>2, <2>3, MinIs
    <2>5. PICK z : z = Min(M)
        OBVIOUS
    <2>. QED BY <2>3, <2>4, <2>5
<1>5. \A d \in 1..r : Unfilled(r, m, d) = IF m - sum(d) > 0 THEN m - sum(d) ELSE 0
    <2>1. TAKE d \in 1..r
    <2>2. m - sum(d) \in Int
        BY <1>2
    <2>. QED BY <1>1, <1>3, <2>2
<1>6. Unfilled(r, m, 1) = m
    <2>1. SumOf([e \in 1..(1 - 1) |-> r - e]) = 0
        <3>1. PICK p : p = [e \in 1..(1 - 1) |-> r - e]
            OBVIOUS
        <3>2. DOMAIN p = {}
            BY <3>1
        <3>. QED BY <3>1, <3>2, SumIs, TotalEmpty
    <2>2. Max({0, m - 0}) = m
        BY <1>3
    <2>. QED BY <2>1, <2>2 DEF Unfilled
<1>7. \A d \in 1..r : Unfilled(r, m, d) \in Nat
    BY <1>2, <1>5
<1>8. ASSUME NEW d \in 1..(r - 1)
      PROVE  /\ Unfilled(r, m, d + 1) = Max({0, Unfilled(r, m, d) - (r - d)})
             /\ Min({Unfilled(r, m, d), r - d}) = Unfilled(r, m, d) - Unfilled(r, m, d + 1)
    <2>1. d \in 1..r /\ d + 1 \in 1..r /\ r - d \in Nat /\ r - d > 0
        OBVIOUS
    <2>2. PICK u, v \in Nat : u = Unfilled(r, m, d) /\ v = Unfilled(r, m, d + 1)
        BY <1>7, <2>1
    <2>3. PICK s \in Nat : s = sum(d)
        BY <1>2, <2>1
    <2>4. u = IF m - s > 0 THEN m - s ELSE 0
        BY <1>5, <2>1, <2>2, <2>3
    <2>5. v = IF m - (s + (r - d)) > 0 THEN m - (s + (r - d)) ELSE 0
        BY <1>2, <1>5, <2>1, <2>2, <2>3
    <2>6. v = IF u - (r - d) > 0 THEN u - (r - d) ELSE 0
        BY <2>1, <2>4, <2>5
    <2>7. v = Max({0, u - (r - d)})
        BY <1>3, <2>1, <2>6
    <2>8. Min({u, r - d}) = IF u <= r - d THEN u ELSE r - d
        BY <1>4, <2>1
    <2>. QED BY <2>1, <2>2, <2>6, <2>7, <2>8
<1>. QED BY <1>6, <1>7, <1>8

LEMMA MinimumFill ==
    ASSUME NEW r \in Nat, NEW m \in Nat, NEW c, \A d \in 1..r : c[d] \in Nat,
           r > 0 => c[1] = m, \A d \in 1..(r - 1) : c[d] <= c[d + 1] + (r - d),
           NEW a, a = [d \in 1..(r - 1) |-> d * Min({Unfilled(r, m, d), r - d})]
    PROVE  SumOf(a) <= Total(c, 1..r) /\ SumOf(a) \in Int
<1>1. SumOf(a) = Total(a, 1..(r - 1))
    BY SumIs
<1>2. CASE r = 0
    <2>1. 1..(r - 1) = {} /\ 1..r = {}
        BY <1>2
    <2>2. Total(a, {}) = 0 /\ Total(c, {}) = 0
        BY TotalEmpty
    <2>. QED BY ONLY <1>1, <2>1, <2>2
<1>3. CASE r > 0
    <2>1. PICK n \in Nat : n = r - 1
        BY <1>3
    <2>2. PICK U : U = [d \in 1..r |-> Unfilled(r, m, d)]
        OBVIOUS
    <2>3. \A d \in 1..r : U[d] \in Nat
        BY <2>2, UnfilledStep
    <2>4. U[1] = m
        BY <1>3, <2>2, UnfilledStep
    <2>5. \A d \in 1..n : /\ U[d + 1] >= U[d] - (r - d) /\ U[d + 1] = Max({0, U[d] - (r - d)})
                          /\ a[d] = d * (U[d] - U[d + 1]) /\ a[d] \in Int
        <3>1. TAKE d \in 1..n
        <3>2. d \in 1..(r - 1) /\ d \in 1..r /\ d + 1 \in 1..r /\ d \in Int
            BY <2>1
        <3>3. /\ U[d + 1] = Max({0, U[d] - (r - d)})
              /\ Min({U[d], r - d}) = U[d] - U[d + 1]
            BY ZenonT(60), <2>2, <3>2, UnfilledStep
        <3>4. a[d] = d * Min({U[d], r - d})
            BY <2>2, <3>2
        <3>5. PICK u, v \in Nat : u = U[d] /\ v = U[d + 1]
            BY <2>3, <3>2
        <3>6. v >= u - (r - d)
            <4>1. PICK y \in Int : y = u - (r - d)
                BY <3>2
            <4>2. PICK X : X = {0, y}
                OBVIOUS
            <4>3. X = {0} \cup {y} /\ IsFiniteSet({0})
                BY <4>2, FS_Singleton
            <4>4. IsFiniteSet(X)
                BY <4>3, FS_AddElement
            <4>5. X \in SUBSET Int /\ X # {} /\ y \in X
                BY <4>2
            <4>6. y <= Max(X)
                BY <4>4, <4>5, MaxIs
            <4>. QED BY <3>3, <3>5, <4>1, <4>2, <4>6
        <3>7. d * (u - v) \in Int
            BY <3>2
        <3>. QED BY <3>3, <3>4, <3>5, <3>6, <3>7
    <2>13. \A d \in 1..n : a[d] \in Int
        BY <2>5
    \* Summation by parts.
    <2>. DEFINE A == {k \in 0..n : Total(a, 1..k) + k * U[k + 1] # Total(U, 1..k)}
    <2>6. ASSUME A # {} PROVE FALSE
        <3>1. PICK k \in A : \A j \in A : k <= j
            <4>1. A \in SUBSET Nat
                OBVIOUS
            <4>. HIDE DEF A
            <4>. QED BY <2>6, <4>1, Least
        <3>2. k # 0
            <4>1. ASSUME k = 0 PROVE FALSE
                <5>1. 1..k = {} /\ Total(a, {}) = 0 /\ Total(U, {}) = 0
                    BY <4>1, TotalEmpty
                <5>2. U[k + 1] \in Nat /\ k * U[k + 1] = 0
                    BY <1>3, <2>3, <4>1
                <5>. QED BY <5>1, <5>2
            <4>. QED BY <4>1
        <3>3. PICK j \in 0..n : j = k - 1 /\ k = j + 1 /\ j \in Nat
            BY <3>2
        <3>0. k \in 1..n
            BY <3>2
        <3>14. j \notin A
            <4>. HIDE DEF A
            <4>. QED BY ONLY <3>1, <3>3
        <3>4. Total(a, 1..j) + j * U[j + 1] = Total(U, 1..j)
            BY <3>14
        <3>5. /\ Total(a, 1..(j + 1)) = a[j + 1] + Total(a, 1..j) /\ Total(a, 1..j) \in Int
            <4>1. \A i \in 1..(j + 1) : a[i] \in Int
                <5>1. \A i \in 1..(j + 1) : i \in 1..n
                    BY ONLY <3>0, <3>3
                <5>. QED BY ONLY <2>13, <5>1
            <4>. QED BY <3>3, <4>1, TotalLast
        <3>6. /\ Total(U, 1..(j + 1)) = U[j + 1] + Total(U, 1..j) /\ Total(U, 1..j) \in Int
            <4>1. \A i \in 1..(j + 1) : U[i] \in Int
                BY <2>1, <2>3, <3>3
            <4>. QED BY <3>3, <4>1, TotalLast
        <3>7. PICK x, y \in Int : x = U[k] /\ y = U[k + 1]
            <4>1. k \in 1..r /\ k + 1 \in 1..r
                BY ONLY n \in Nat, r \in Nat, <2>1, <3>0
            <4>. QED BY ONLY <2>3, <4>1
        <3>8. a[k] = k * (x - y)
            BY <2>5, <3>0, <3>7
        <3>9. k * (x - y) + k * y = x + j * x
            BY <3>3
        <3>10. PICK s, t \in Int : s = Total(a, 1..j) /\ t = Total(U, 1..j)
            BY <3>5, <3>6
        <3>11. s + j * x = t /\ Total(a, 1..k) = k * (x - y) + s /\ Total(U, 1..k) = x + t
            BY <3>3, <3>4, <3>5, <3>6, <3>7, <3>8, <3>10
        <3>12. PICK e, f, g \in Int : e = k * (x - y) /\ f = k * y /\ g = j * x
            OBVIOUS
        <3>13. Total(a, 1..k) + f = Total(U, 1..k)
            BY ONLY <3>9, <3>11, <3>12, s \in Int, t \in Int, x \in Int
        <3>. QED BY <3>1, <3>7, <3>12, <3>13
    <2>7. Total(a, 1..n) + n * U[n + 1] = Total(U, 1..n)
        <3>1. n \in 0..n
            BY ONLY n \in Nat
        <3>2. n \notin A
            <4>. HIDE DEF A
            <4>. QED BY ONLY <2>6
        <3>. QED BY <3>1, <3>2
    <2>8. \A d \in 1..r : U[d] <= c[d]
        <3>. DEFINE B == {d \in 1..r : ~(U[d] <= c[d])}
        <3>1. ASSUME B # {} PROVE FALSE
            <4>1. PICK d \in B : \A e \in B : d <= e
                <5>1. B \in SUBSET Nat
                    OBVIOUS
                <5>. HIDE DEF B
                <5>. QED BY <3>1, <5>1, Least
            <4>2. d # 1
                BY <2>3, <2>4, <4>1
            <4>3. PICK e \in 1..n : d = e + 1 /\ e \in 1..r /\ e \notin B /\ e \in 1..(r - 1)
                <5>1. d - 1 \in 1..n /\ d = (d - 1) + 1 /\ d - 1 \in 1..r /\ d - 1 \in 1..(r - 1)
                    BY <2>1, <4>2
                <5>2. d - 1 \notin B
                    BY <4>1
                <5>. QED BY <5>1, <5>2
            <4>4. U[e] <= c[e] /\ c[e] <= c[e + 1] + (r - e)
                BY <4>3
            <4>5. U[e + 1] = Max({0, U[e] - (r - e)})
                BY <2>5
            <4>6. PICK u, v \in Nat : u = U[e] /\ v = c[e + 1]
                BY <2>3, <4>3
            <4>7. u - (r - e) <= v
                BY SMTT(30), <4>3, <4>4, <4>6
            <4>8. Max({0, u - (r - e)}) <= v
                <5>1. {0, u - (r - e)} \in SUBSET Int /\ IsFiniteSet({0, u - (r - e)}) /\ {0, u - (r - e)} # {}
                    <6>0. PICK z \in Int : z = u - (r - e)
                        BY <4>3
                    <6>1. {0, z} = {0} \cup {z} /\ IsFiniteSet({0})
                        BY FS_Singleton
                    <6>2. IsFiniteSet({0} \cup {z})
                        BY <6>1, FS_AddElement
                    <6>3. IsFiniteSet({0, z})
                        BY ONLY <6>1, <6>2
                    <6>. QED BY <6>0, <6>3
                <5>2. Max({0, u - (r - e)}) \in {0, u - (r - e)}
                    BY <5>1, MaxIs
                <5>. QED BY <4>7, <5>2
            <4>. QED BY <4>1, <4>3, <4>5, <4>6, <4>8
        <3>. QED BY <3>1
    <2>9. Total(U, 1..n) <= Total(c, 1..n)
        <3>1. \A d \in 1..n : U[d] \in Int /\ c[d] \in Int /\ U[d] <= c[d]
            BY <2>1, <2>3, <2>8
        <3>2. IsFiniteSet(1..n)
            BY FS_Interval
        <3>. QED BY <3>1, <3>2, TotalsOrdered
    <2>10. Total(c, 1..n) <= Total(c, 1..r) /\ Total(c, 1..n) \in Nat /\ Total(c, 1..r) \in Nat
        <3>1. 1..n \in SUBSET (1..r) /\ IsFiniteSet(1..r)
            BY <2>1, FS_Interval
        <3>. QED BY <3>1, TotalPart
    <2>11. Total(a, 1..n) \in Int /\ Total(U, 1..n) \in Int
        <3>1. \A d \in 1..n : a[d] \in Int
            BY <2>5
        <3>3. IsFiniteSet(1..n)
            BY FS_Interval
        <3>2. \A d \in 1..n : U[d] \in Int
            BY <2>1, <2>3
        <3>. QED BY <3>1, <3>2, <3>3, TotalInt
    <2>12. n * U[n + 1] \in Nat
        <3>1. U[n + 1] \in Nat
            BY <2>1, <2>3
        <3>. QED BY <3>1
    <2>. QED BY <1>1, <2>1, <2>7, <2>9, <2>10, <2>11, <2>12
<1>. QED BY <1>2, <1>3

\* Of the sets of one size, one of the smallest elements has the smallest sum.
LEMMA SmallestSum ==
    ASSUME NEW R, IsFiniteSet(R), NEW b, \A x \in R : b[x] \in Nat,
           NEW X \in SUBSET R, NEW Y \in SUBSET R, Cardinality(X) = Cardinality(Y),
           \A x \in X, y \in R \ X : b[x] <= b[y]
    PROVE  Total(b, X) <= Total(b, Y)
<1>1. \A T \in SUBSET R : /\ IsFiniteSet(T) /\ Cardinality(T) \in Nat /\ Total(b, T) \in Int
                          /\ \A x \in T : b[x] \in Int
    <2>1. TAKE T \in SUBSET R
    <2>2. IsFiniteSet(T) /\ Cardinality(T) \in Nat
        BY FS_Subset, FS_CardinalityType
    <2>3. \A x \in T : b[x] \in Int
        OBVIOUS
    <2>. QED BY <2>2, <2>3, TotalInt
<1>2. PICK C, D, E : C = X \cap Y /\ D = X \ Y /\ E = Y \ X
    OBVIOUS
<1>3. /\ C \in SUBSET X /\ C \in SUBSET Y /\ D = X \ C /\ E = Y \ C
      /\ D \in SUBSET R /\ E \in SUBSET R /\ C \in SUBSET R
    BY <1>2
<1>4. Total(b, X) = Total(b, C) + Total(b, D)
    BY <1>1, <1>3, TotalSplit
<1>5. Total(b, Y) = Total(b, C) + Total(b, E)
    BY <1>1, <1>3, TotalSplit
<1>6. Cardinality(D) = Cardinality(E)
    <2>1. Cardinality(X \ Y) = Cardinality(X) - Cardinality(X \cap Y)
        BY <1>1, FS_Difference
    <2>2. Cardinality(Y \ X) = Cardinality(Y) - Cardinality(Y \cap X)
        BY <1>1, FS_Difference
    <2>3. X \cap Y = Y \cap X
        OBVIOUS
    <2>. QED BY <1>2, <2>1, <2>2, <2>3
<1>7. CASE D = {}
    <2>1. Cardinality(E) = 0
        BY <1>6, <1>7, FS_EmptySet
    <2>2. E = {}
        BY <1>1, <1>3, <2>1, FS_EmptySet
    <2>. QED BY <1>1, <1>3, <1>4, <1>5, <1>7, <2>2
<1>8. CASE D # {}
    <2>1. PICK c \in Nat : (\A x \in D : b[x] <= c) /\ (\A y \in E : c <= b[y])
        <3>1. PICK V : V = {b[x] : x \in D}
            OBVIOUS
        <3>2. V \in SUBSET Int /\ V # {} /\ IsFiniteSet(V)
            <4>1. IsFiniteSet({b[x] : x \in D})
                BY ZenonT(60), <1>1, <1>3, ImageFinite
            <4>. QED BY <1>1, <1>3, <1>8, <3>1, <4>1
        <3>3. PICK c \in V : \A k \in V : k <= c
            BY <3>2, Extremes
        <3>4. PICK z \in D : b[z] = c
            BY <3>1, <3>3
        <3>5. \A x \in D : b[x] <= c
            BY <3>1, <3>3
        <3>6. \A y \in E : c <= b[y]
            BY <1>2, <3>4
        <3>7. c \in Nat
            BY <1>3, <3>4
        <3>. QED BY <3>5, <3>6, <3>7
    <2>2. PICK u : u = [x \in R |-> c]
        OBVIOUS
    <2>3. \A T \in SUBSET R : Total(u, T) = c * Cardinality(T)
        <3>1. TAKE T \in SUBSET R
        <3>2. \A x \in T : u[x] = IF x \in T THEN c ELSE 0
            BY <2>2
        <3>3. Total(u, T) = c * Cardinality(T \cap T)
            <4>1. IsFiniteSet(T)
                BY <1>1
            <4>. QED BY ONLY <4>1, <3>2, c \in Nat, Nat \in SUBSET Int, TotalAlike
        <3>4. T \cap T = T
            OBVIOUS
        <3>. QED BY <3>3, <3>4
    <2>4. Total(b, D) <= Total(u, D)
        <3>1. \A x \in D : b[x] \in Int /\ u[x] \in Int /\ b[x] <= u[x]
            BY <1>1, <1>3, <2>1, <2>2
        <3>. QED BY <1>1, <1>3, <3>1, TotalsOrdered
    <2>5. Total(u, E) <= Total(b, E)
        <3>1. \A x \in E : b[x] \in Int /\ u[x] \in Int /\ u[x] <= b[x]
            BY <1>1, <1>3, <2>1, <2>2
        <3>. QED BY <1>1, <1>3, <3>1, TotalsOrdered
    <2>6. Total(u, D) = Total(u, E) /\ Total(u, E) \in Int
        <3>1. PICK n \in Nat : n = Cardinality(E)
            BY <1>1, <1>3
        <3>. QED BY <1>3, <1>6, <2>3, <3>1
    <2>. QED BY <1>1, <1>3, <1>4, <1>5, <2>4, <2>5, <2>6
<1>. QED BY <1>7, <1>8

-----------------------------------------------------------------------------
\* The rest of a path, from a position on.

RestOf(p, i) == {p[j] : j \in i..Len(p)}

LEMMA RestFacts ==
    ASSUME NEW g, IsSimple(g), NEW p, IsPath(g, p), NEW i \in 1..Len(p)
    PROVE  /\ RestOf(p, i) = ToSet(p) \ First(p, i - 1)
           /\ Cardinality(RestOf(p, i)) = Len(p) - (i - 1)
           /\ RestOf(p, i) \in SUBSET ToSet(p)
<1>1. /\ Len(p) \in Nat /\ ToSet(p) = First(p, Len(p)) /\ ToSet(p) \in SUBSET Vertices(g)
      /\ Cardinality(ToSet(p)) = Len(p)
      /\ \A m \in 0..Len(p) : First(p, m) \in SUBSET Vertices(g) /\ Cardinality(First(p, m)) = m
    BY PathFacts
<1>2. i - 1 \in 0..Len(p)
    BY <1>1
<1>3. RestOf(p, i) = ToSet(p) \ First(p, i - 1)
    <2>1. \A j \in i..Len(p) : p[j] \in First(p, Len(p)) /\ p[j] \notin First(p, i - 1)
        <3>1. TAKE j \in i..Len(p)
        <3>2. j \in 1..Len(p) /\ \A k \in 1..(i - 1) : k \in 1..Len(p) /\ k # j
            BY <1>1
        <3>. QED BY <3>2 DEF First, IsPath
    <2>2. \A j \in 1..Len(p) : j \notin 1..(i - 1) => j \in i..Len(p)
        BY <1>1
    <2>. QED BY ZenonT(60), <1>1, <2>1, <2>2 DEF First, RestOf
<1>4. First(p, i - 1) \in SUBSET ToSet(p) /\ Cardinality(First(p, i - 1)) = i - 1
    <2>1. \A k \in 1..(i - 1) : k \in 1..Len(p)
        BY <1>1
    <2>. QED BY <1>1, <1>2, <2>1 DEF First
<1>5. IsFiniteSet(ToSet(p)) /\ ToSet(p) \cap First(p, i - 1) = First(p, i - 1)
    BY <1>1, <1>4, SimpleFacts
<1>6. Cardinality(ToSet(p) \ First(p, i - 1)) = Cardinality(ToSet(p)) - Cardinality(ToSet(p) \cap First(p, i - 1))
    BY <1>5, FS_Difference
<1>. QED BY <1>1, <1>3, <1>4, <1>5, <1>6

LEMMA RestTotal ==
    ASSUME NEW g, IsSimple(g), NEW p, IsPath(g, p), NEW i \in 1..Len(p),
           NEW b, \A x \in ToSet(p) : b[x] \in Int,
           NEW h, \A j \in 1..Len(p) : h[j] = b[p[j]]
    PROVE  Total(h, i..Len(p)) = Total(b, RestOf(p, i))
<1>1. Len(p) \in Nat /\ ToSet(p) = First(p, Len(p))
    BY PathFacts
<1>2. PICK S : S = i..Len(p)
    OBVIOUS
<1>3. IsFiniteSet(S) /\ \A j \in S : j \in 1..Len(p)
    BY <1>1, <1>2, FS_Interval
<1>4. \A x, y \in S : p[x] = p[y] => x = y
    BY <1>3 DEF IsPath
<1>5. \A x \in S : b[p[x]] \in Int /\ h[x] = b[p[x]]
    BY <1>1, <1>3 DEF First
<1>6. Total(h, S) = Total(b, {p[x] : x \in S})
    BY ONLY <1>3, <1>4, <1>5, Reindex
<1>. QED BY <1>2, <1>6 DEF RestOf


\* The boundary edges: whatever the order, they add at least what they add with the
\* vertices of larger boundary degree first (boundary_area).
LEMMA BoundaryLeast ==
    ASSUME NEW g, IsSimple(g), NEW P \in SUBSET Vertices(g),
           NEW o, IsPath(g, o), ToSet(o) = Vertices(g) \ P,
           NEW w, \A j \in 1..Len(o) : w[j] = j * BoundaryDegree(g, P, o[j])
    PROVE  BoundaryArea(g, P) <= Total(w, 1..Len(o)) /\ BoundaryArea(g, P) \in Int
<1>1. PICK R : R = Remaining(g, P)
    OBVIOUS
<1>2. R \in SUBSET Vertices(g) /\ R \in SUBSET Nat /\ IsFiniteSet(R) /\ ToSet(o) = R
    BY <1>1, SimpleFacts DEF Remaining
<1>3. PICK b : b = [v \in R |-> BoundaryDegree(g, P, v)]
    OBVIOUS
<1>4. \A v \in R : b[v] = BoundaryDegree(g, P, v) /\ b[v] \in Nat
    <2>1. \A v \in R : g[v] \cap P \in SUBSET Vertices(g)
        BY <1>2
    <2>2. \A v \in R : Cardinality(g[v] \cap P) \in Nat
        BY <2>1, SimpleFacts
    <2>. QED BY <1>3, <2>2 DEF BoundaryDegree
<1>5. PICK A : A = {p \in R \X R :
                       \/ BoundaryDegree(g, P, p[1]) > BoundaryDegree(g, P, p[2])
                       \/ BoundaryDegree(g, P, p[1]) = BoundaryDegree(g, P, p[2]) /\ p[1] < p[2]}
    OBVIOUS
<1>6. \A x, y \in R : <<x, y>> \in A <=> b[x] > b[y] \/ (b[x] = b[y] /\ x < y)
    BY <1>4, <1>5
<1>7. StrictlyOrders(A, R)
    <2>1. \A x, y \in R : /\ b[x] \in Nat /\ b[y] \in Nat /\ x \in Nat /\ y \in Nat
        BY <1>2, <1>4
    <2>2. \A x \in R : <<x, x>> \notin A
        BY <1>6, <2>1
    <2>3. \A x, y \in R : x = y \/ <<x, y>> \in A \/ <<y, x>> \in A
        <3>1. TAKE x, y \in R
        <3>2. b[x] \in Nat /\ b[y] \in Nat /\ x \in Nat /\ y \in Nat
            BY <2>1
        <3>. QED BY <1>6, <3>2
    <2>4. \A x, y, z \in R : <<x, y>> \in A /\ <<y, z>> \in A => <<x, z>> \in A
        <3>1. TAKE x, y, z \in R
        <3>2. /\ b[x] \in Nat /\ b[y] \in Nat /\ b[z] \in Nat
              /\ x \in Nat /\ y \in Nat /\ z \in Nat
            BY <2>1
        <3>. QED BY <1>6, <3>2
    <2>. QED BY <2>2, <2>3, <2>4 DEF StrictlyOrders
<1>8. PICK s : s = InOrder(A, R)
    OBVIOUS
<1>9. PICK r \in Nat : r = Len(o)
    BY PathFacts
<1>10. Cardinality(R) = r
    BY <1>2, <1>9, PathFacts
<1>11. /\ s \in Seq(R) /\ Len(s) = r /\ ToSet(s) = R
       /\ \A i, j \in 1..r : i < j => <<s[i], s[j]>> \in A
    BY <1>2, <1>7, <1>8, <1>10, OrderedSet
<1>12. IsPath(g, s)
    <2>1. \A i \in 1..r : s[i] \in R
        BY <1>11
    <2>2. \A i, j \in 1..r : s[i] = s[j] => i = j
        <3>1. TAKE i, j \in 1..r
        <3>2. <<s[i], s[i]>> \notin A /\ <<s[j], s[j]>> \notin A
            BY <1>7, <2>1 DEF StrictlyOrders
        <3>3. i < j \/ j < i \/ i = j
            OBVIOUS
        <3>. QED BY <1>11, <3>2, <3>3
    <2>3. s \in Seq(Vertices(g))
        BY <1>2, <1>11
    <2>. QED BY <1>11, <2>2, <2>3 DEF IsPath
<1>13. BoundaryArea(g, P) = SumOf([i \in DOMAIN s |-> i * BoundaryDegree(g, P, s[i])])
    <2>1. s = Sorted(Remaining(g, P),
                LAMBDA u, v : \/ BoundaryDegree(g, P, u) > BoundaryDegree(g, P, v)
                              \/ BoundaryDegree(g, P, u) = BoundaryDegree(g, P, v) /\ u < v)
        BY <1>1, <1>5, <1>8 DEF Sorted
    <2>. QED BY <2>1 DEF BoundaryArea
<1>14. PICK x : x = [i \in DOMAIN s |-> i * BoundaryDegree(g, P, s[i])]
    OBVIOUS
<1>15. DOMAIN s = 1..r /\ \A i \in 1..r : s[i] \in R
    BY <1>11
<1>16. BoundaryArea(g, P) = Total(x, 1..r)
    BY <1>13, <1>14, <1>15, SumIs
\* The degrees along the two orders, and what is left of them from each position on.
<1>17. PICK c, d : c = [j \in 1..r |-> b[s[j]]] /\ d = [j \in 1..r |-> b[o[j]]]
    OBVIOUS
<1>18. PICK t, u : t = [i \in 1..r |-> Total(c, i..r)] /\ u = [i \in 1..r |-> Total(d, i..r)]
    OBVIOUS
<1>19. \A j \in 1..r : o[j] \in R
    BY <1>2, <1>9, PathFacts DEF First
<1>20. \A j \in 1..r : /\ c[j] = b[s[j]] /\ c[j] \in Nat
                       /\ d[j] = b[o[j]] /\ d[j] \in Nat
    BY <1>4, <1>15, <1>17, <1>19
<1>21. Total(t, 1..r) = Total(x, 1..r)
    <2>1. \A i \in 1..r : t[i] = Total(c, i..r)
        BY <1>18
    <2>2. \A j \in 1..r : x[j] = j * c[j]
        BY <1>4, <1>14, <1>15, <1>20
    <2>3. \A j \in 1..r : c[j] \in Nat
        BY <1>20
    <2>. QED BY ONLY r \in Nat, <2>1, <2>2, <2>3, TailSums
<1>22. Total(u, 1..r) = Total(w, 1..r)
    <2>1. \A i \in 1..r : u[i] = Total(d, i..r)
        BY <1>18
    <2>2. \A j \in 1..r : w[j] = j * d[j]
        BY <1>4, <1>9, <1>19, <1>20
    <2>3. \A j \in 1..r : d[j] \in Nat
        BY <1>20
    <2>. QED BY ONLY r \in Nat, <2>1, <2>2, <2>3, TailSums
<1>23. ASSUME NEW i \in 1..r
       PROVE  t[i] \in Int /\ u[i] \in Int /\ t[i] <= u[i]
    <2>1. PICK X, Y : X = RestOf(s, i) /\ Y = RestOf(o, i)
        OBVIOUS
    <2>2. /\ X = R \ First(s, i - 1) /\ Cardinality(X) = r - (i - 1) /\ X \in SUBSET R
          /\ Cardinality(Y) = r - (i - 1) /\ Y \in SUBSET R
        BY <1>2, <1>9, <1>11, <1>12, <2>1, RestFacts
    <2>3. Total(c, i..r) = Total(b, X)
        <3>1. (\A v \in ToSet(s) : b[v] \in Int) /\ (\A j \in 1..Len(s) : c[j] = b[s[j]])
            BY <1>4, <1>11, <1>20
        <3>2. i \in 1..Len(s)
            BY <1>11
        <3>3. Total(c, i..Len(s)) = Total(b, RestOf(s, i))
            BY <1>12, <3>1, <3>2, RestTotal
        <3>. QED BY <1>11, <2>1, <3>3
    <2>4. Total(d, i..r) = Total(b, Y)
        <3>1. (\A v \in ToSet(o) : b[v] \in Int) /\ (\A j \in 1..Len(o) : d[j] = b[o[j]])
            <4>1. \A v \in ToSet(o) : b[v] \in Int
                <5>1. \A v \in R : b[v] \in Int
                    BY <1>4
                <5>2. ToSet(o) = R
                    BY <1>2
                <5>. QED BY ONLY <5>1, <5>2
            <4>2. \A j \in 1..Len(o) : d[j] = b[o[j]]
                BY ONLY <1>9, <1>20
            <4>. QED BY <4>1, <4>2
        <3>2. i \in 1..Len(o)
            BY <1>9
        <3>3. Total(d, i..Len(o)) = Total(b, RestOf(o, i))
            BY <3>1, <3>2, RestTotal
        <3>. QED BY <1>9, <2>1, <3>3
    <2>5. \A v \in X, y \in R \ X : b[v] <= b[y]
        <3>1. TAKE v \in X, y \in R \ X
        <3>2. PICK j \in i..r : v = s[j]
            BY <1>11, <2>1 DEF RestOf
        <3>3. PICK k \in 1..(i - 1) : y = s[k]
            BY <2>2 DEF First
        <3>4. k \in 1..r /\ j \in 1..r /\ k < j
            OBVIOUS
        <3>5. <<y, v>> \in A
            BY <1>11, <3>2, <3>3, <3>4
        <3>6. b[v] \in Nat /\ b[y] \in Nat /\ v \in R /\ y \in R
            BY <1>4, <2>2
        <3>. QED BY <1>6, <3>5, <3>6
    <2>6. Total(b, X) <= Total(b, Y)
        <3>1. \A v \in R : b[v] \in Nat
            BY <1>4
        <3>. QED BY <1>2, <2>2, <2>5, <3>1, SmallestSum
    <2>7. \A f : (\A j \in 1..r : f[j] \in Nat) => Total(f, i..r) \in Int
        <3>1. TAKE f
        <3>2. HAVE \A j \in 1..r : f[j] \in Nat
        <3>3. IsFiniteSet(i..r) /\ \A j \in i..r : f[j] \in Int
            BY <3>2, FS_Interval
        <3>. QED BY <3>3, TotalInt
    <2>8. Total(c, i..r) \in Int /\ Total(d, i..r) \in Int
        BY <1>20, <2>7
    <2>. QED BY <1>18, <2>3, <2>4, <2>6, <2>8
<1>24. IsFiniteSet(1..r)
    BY FS_Interval
<1>25. Total(t, 1..r) <= Total(u, 1..r) /\ Total(t, 1..r) \in Int
    BY <1>23, <1>24, TotalsOrdered, TotalInt
<1>. QED BY <1>9, <1>16, <1>21, <1>22, <1>25

\* The cut counted from its other side.
LEMMA CutFromRight ==
    ASSUME NEW g, IsSimple(g), NEW S \in SUBSET Vertices(g),
           NEW h, \A u \in Vertices(g) \ S : h[u] = Cardinality(g[u] \cap S)
    PROVE  Cut(g, S) = Total(h, Vertices(g) \ S)
<1>1. PICK C : C = Vertices(g) \ S
    OBVIOUS
<1>2. IsFiniteSet(S) /\ IsFiniteSet(C)
    BY <1>1, SimpleFacts
<1>3. PICK f : f = [v \in S |-> [u \in C |-> IF u \in g[v] THEN 1 ELSE 0]]
    OBVIOUS
<1>4. PICK e : e = [u \in C |-> [v \in S |-> IF u \in g[v] THEN 1 ELSE 0]]
    OBVIOUS
<1>5. \A v \in S, u \in C : f[v][u] \in Int /\ e[u][v] = f[v][u]
    BY <1>3, <1>4
<1>6. PICK c : c = CutTerms(g, S)
    OBVIOUS
<1>7. \A v \in S : c[v] = Total(f[v], C)
    <2>1. TAKE v \in S
    <2>2. PICK w : w = f[v]
        OBVIOUS
    <2>3. PICK A : A = g[v]
        OBVIOUS
    <2>4. \A u \in C : w[u] = IF u \in A THEN 1 ELSE 0
        BY <1>3, <2>2, <2>3
    <2>5. Total(w, C) = Cardinality(C \cap A)
        BY <1>2, <2>4, TotalCounts
    <2>6. C \cap A = g[v] \ S
        BY <1>1, <2>3, SimpleFacts
    <2>7. c[v] = Cardinality(g[v] \ S)
        BY <1>6, CutTermsInt
    <2>. QED BY <2>2, <2>5, <2>6, <2>7
<1>8. \A u \in C : h[u] = Total(e[u], S)
    <2>1. TAKE u \in C
    <2>2. PICK w : w = e[u]
        OBVIOUS
    <2>3. PICK A : A = g[u]
        OBVIOUS
    <2>4. \A v \in S : u \in g[v] <=> v \in g[u]
        BY <1>1, SimpleFacts
    <2>5. \A v \in S : w[v] = IF v \in A THEN 1 ELSE 0
        BY <1>4, <2>2, <2>3, <2>4
    <2>6. Total(w, S) = Cardinality(S \cap A)
        BY <1>2, <2>5, TotalCounts
    <2>7. S \cap A = g[u] \cap S
        BY <2>3
    <2>. QED BY <1>1, <2>2, <2>6, <2>7
<1>9. Total(c, S) = Total(h, C)
    <2>1. Tabled(S, C, f, e, c, h)
        BY <1>5, <1>7, <1>8 DEF Tabled
    <2>. QED BY <1>2, <2>1, Fubini
<1>. QED BY <1>1, <1>6, <1>9, CutIsTotal

-----------------------------------------------------------------------------
\* A graph laid out along a path.

\* The positions of the neighbours of the vertex at a position.
Along(g, o) == [j \in 1..Len(o) |-> {l \in 1..Len(o) : o[l] \in g[o[j]]}]

Completes(g, P, o) == P \in SUBSET Vertices(g) /\ IsPath(g, o) /\ ToSet(o) = Vertices(g) \ P

LEMMA AlongFacts ==
    ASSUME NEW g, IsSimple(g), NEW P, NEW o, Completes(g, P, o)
    PROVE  /\ Len(o) \in Nat /\ Row(Len(o), Along(g, o))
           /\ \A j \in 1..Len(o) :
                 /\ o[j] \in Vertices(g) \ P
                 /\ Cardinality(Along(g, o)[j]) = ResidualDegree(g, P, o[j])
                 /\ \A i \in 1..Len(o) :
                       Back(Along(g, o), j, i) = Cardinality(g[o[j]] \cap First(o, i - 1))
<1>1. /\ P \in SUBSET Vertices(g) /\ IsPath(g, o) /\ ToSet(o) = Vertices(g) \ P
      /\ Len(o) \in Nat /\ ToSet(o) = First(o, Len(o))
      /\ \A i \in 1..Len(o) : o[i] \in Vertices(g)
    BY PathFacts DEF Completes
<1>2. PICK r \in Nat : r = Len(o)
    BY <1>1
<1>3. PICK N : N = Along(g, o)
    OBVIOUS
<1>4. \A j \in 1..r : N[j] = {l \in 1..r : o[l] \in g[o[j]]}
    BY <1>2, <1>3 DEF Along
<1>5. \A j \in 1..r : o[j] \in Vertices(g) \ P
    BY <1>1, <1>2 DEF First
<1>6. Row(r, N)
    <2>1. ASSUME NEW i \in 1..r
          PROVE  N[i] \in SUBSET (1..r) /\ i \notin N[i] /\ \A j \in 1..r : j \in N[i] <=> i \in N[j]
        <3>1. o[i] \notin g[o[i]]
            BY <1>5, SimpleFacts
        <3>2. \A j \in 1..r : o[j] \in g[o[i]] <=> o[i] \in g[o[j]]
            BY <1>5, SimpleFacts
        <3>. QED BY <1>4, <3>1, <3>2
    <2>. QED BY <2>1 DEF Row
<1>7. ASSUME NEW j \in 1..r
      PROVE  Cardinality(N[j]) = ResidualDegree(g, P, o[j])
    <2>1. PICK A : A = g[o[j]]
        OBVIOUS
    <2>2. r \in 0..Len(o)
        BY <1>2
    <2>3. Cardinality({l \in 1..r : o[l] \in A}) = Cardinality(A \cap First(o, r))
        BY <1>1, <2>2, PathCount
    <2>4. A \cap First(o, r) = A \ P
        BY <1>1, <1>2, <1>5, <2>1, SimpleFacts
    <2>. QED BY <1>4, <2>1, <2>3, <2>4 DEF ResidualDegree
<1>8. ASSUME NEW j \in 1..r, NEW i \in 1..r
      PROVE  Back(N, j, i) = Cardinality(g[o[j]] \cap First(o, i - 1))
    <2>1. PICK A : A = g[o[j]]
        OBVIOUS
    <2>2. PICK m \in 0..Len(o) : m = i - 1
        BY <1>2
    <2>3. Cardinality({l \in 1..m : o[l] \in A}) = Cardinality(A \cap First(o, m))
        BY <1>1, PathCount
    <2>4. N[j] \cap (1..(i - 1)) = {l \in 1..m : o[l] \in A}
        <3>1. \A l \in 1..m : l \in 1..r
            BY <1>2, <2>2
        <3>. QED BY <1>4, <2>1, <2>2, <3>1
    <2>. QED BY <2>1, <2>2, <2>3, <2>4 DEF Back
<1>. QED BY <1>1, <1>2, <1>3, <1>5, <1>6, <1>7, <1>8

\* A cut along the path is made of the boundary edges of the vertices that follow and
\* of the edges between those and the vertices before.
LEMMA CutAlong ==
    ASSUME NEW g, IsSimple(g), NEW P, NEW o, Completes(g, P, o), NEW i \in 1..Len(o),
           NEW d, \A j \in 1..Len(o) : d[j] = BoundaryDegree(g, P, o[j])
    PROVE  Cut(g, P \cup First(o, i - 1)) = Total(d, i..Len(o)) + Crossings(Along(g, o), Len(o))[i]
<1>1. PICK r \in Nat : r = Len(o)
    BY AlongFacts
<1>2. PICK N : N = Along(g, o)
    OBVIOUS
<1>3. /\ Row(r, N) /\ i \in 1..r
      /\ \A j \in 1..r : /\ o[j] \in Vertices(g) \ P
                         /\ Back(N, j, i) = Cardinality(g[o[j]] \cap First(o, i - 1))
    BY <1>1, <1>2, AlongFacts
<1>4. /\ P \in SUBSET Vertices(g) /\ IsPath(g, o) /\ ToSet(o) = Vertices(g) \ P
    BY DEF Completes
<1>5. PICK S : S = P \cup First(o, i - 1)
    OBVIOUS
<1>6. /\ RestOf(o, i) = Vertices(g) \ S /\ S \in SUBSET Vertices(g)
      /\ First(o, i - 1) \in SUBSET (Vertices(g) \ P)
    <2>1. i - 1 \in 0..Len(o)
        BY <1>1, <1>3
    <2>2. RestOf(o, i) = ToSet(o) \ First(o, i - 1)
        BY <1>4, RestFacts
    <2>3. \A k \in 1..(i - 1) : k \in 1..r
        BY <1>3
    <2>4. First(o, i - 1) \in SUBSET (Vertices(g) \ P)
        BY <1>3, <2>3 DEF First
    <2>. QED BY <1>4, <1>5, <2>2, <2>4
<1>7. PICK b : b = [v \in Vertices(g) |-> Cardinality(g[v] \cap S)]
    OBVIOUS
<1>8. Cut(g, S) = Total(b, Vertices(g) \ S)
    <2>1. \A u \in Vertices(g) \ S : b[u] = Cardinality(g[u] \cap S)
        BY <1>7
    <2>. QED BY <1>6, <2>1, CutFromRight
<1>9. PICK h : h = [j \in 1..r |-> b[o[j]]]
    OBVIOUS
<1>10. \A v \in Vertices(g) : b[v] \in Nat
    <2>1. \A v \in Vertices(g) : g[v] \cap S \in SUBSET Vertices(g)
        BY <1>6
    <2>. QED BY <1>7, <2>1, SimpleFacts
<1>11. Total(h, i..r) = Total(b, RestOf(o, i))
    <2>1. \A x \in ToSet(o) : b[x] \in Int
        BY <1>4, <1>10
    <2>2. \A j \in 1..Len(o) : h[j] = b[o[j]]
        BY <1>1, <1>9
    <2>3. Total(h, i..Len(o)) = Total(b, RestOf(o, i))
        BY <1>4, <2>1, <2>2, RestTotal
    <2>. QED BY <1>1, <2>3
<1>12. \A j \in 1..r : /\ h[j] = d[j] + Back(N, j, i) /\ d[j] \in Nat /\ Back(N, j, i) \in Nat
    <2>1. TAKE j \in 1..r
    <2>2. PICK X, Y : X = g[o[j]] \cap P /\ Y = g[o[j]] \cap First(o, i - 1)
        OBVIOUS
    <2>3. X \in SUBSET Vertices(g) /\ Y \in SUBSET Vertices(g) /\ X \cap Y = {}
        BY <1>4, <1>6, <2>2
    <2>4. /\ IsFiniteSet(X) /\ IsFiniteSet(Y) /\ Cardinality(X) \in Nat /\ Cardinality(Y) \in Nat
          /\ Cardinality(X \cap Y) = 0
        BY <2>3, SimpleFacts, FS_EmptySet
    <2>5. Cardinality(X \cup Y) = Cardinality(X) + Cardinality(Y) - Cardinality(X \cap Y)
        BY <2>4, FS_Union
    <2>6. X \cup Y = g[o[j]] \cap S
        BY <1>5, <2>2
    <2>7. h[j] = Cardinality(X \cup Y)
        BY <1>3, <1>7, <1>9, <2>6
    <2>8. d[j] = Cardinality(X) /\ Back(N, j, i) = Cardinality(Y)
        BY <1>1, <1>3, <2>2 DEF BoundaryDegree
    <2>. QED BY <2>4, <2>5, <2>7, <2>8
<1>13. PICK k : k = [j \in 1..r |-> Back(N, j, i)]
    OBVIOUS
<1>14. IsFiniteSet(i..r) /\ IsFiniteSet(1..r) /\ \A j \in i..r : j \in 1..r
    BY <1>3, FS_Interval
<1>15. Total(h, i..r) = Total(d, i..r) + Total(k, i..r)
    <2>1. \A j \in i..r : d[j] \in Int /\ k[j] \in Int /\ h[j] = d[j] + k[j]
        BY <1>12, <1>13, <1>14
    <2>. QED BY <1>14, <2>1, TotalPlus
<1>16. PICK f : f = [j \in 1..r |-> IF i <= j THEN Back(N, j, i) ELSE 0]
    OBVIOUS
<1>17. Total(f, 1..r) = Total(k, i..r)
    <2>1. \A j \in 1..r : f[j] = IF j \in i..r THEN k[j] ELSE 0
        BY <1>3, <1>13, <1>16
    <2>2. i..r \in SUBSET (1..r) /\ \A j \in i..r : k[j] \in Int
        BY <1>12, <1>13, <1>14
    <2>. QED BY SMTT(30), <1>14, <2>1, <2>2, TotalOn
<1>18. Crossings(N, r)[i] = Total(f, 1..r)
    BY <1>3, <1>16 DEF Crossings
<1>. QED BY <1>1, <1>2, <1>5, <1>6, <1>8, <1>11, <1>15, <1>17, <1>18

\* A path that keeps k adds at most k per position.
LEMMA AreaAlong ==
    ASSUME NEW g, IsSimple(g), NEW P, NEW o, Completes(g, P, o), NEW k \in Int,
           \A i \in 0..Len(o) : Cut(g, P \cup First(o, i)) <= k
    PROVE  /\ BoundaryArea(g, P) + Total(Crossings(Along(g, o), Len(o)), 1..Len(o)) <= k * Len(o)
           /\ BoundaryArea(g, P) \in Int
<1>1. PICK r \in Nat : r = Len(o)
    BY AlongFacts
<1>2. PICK N : N = Along(g, o)
    OBVIOUS
<1>3. PICK c : c = Crossings(N, r)
    OBVIOUS
<1>4. Row(r, N) /\ \A j \in 1..r : o[j] \in Vertices(g) \ P
    BY <1>1, <1>2, AlongFacts
<1>5. PICK d : d = [j \in 1..r |-> BoundaryDegree(g, P, o[j])]
    OBVIOUS
<1>6. \A j \in 1..r : d[j] = BoundaryDegree(g, P, o[j]) /\ d[j] \in Nat
    <2>1. \A j \in 1..r : g[o[j]] \cap P \in SUBSET Vertices(g)
        BY <1>4 DEF Completes
    <2>2. \A j \in 1..r : Cardinality(g[o[j]] \cap P) \in Nat
        BY <2>1, SimpleFacts
    <2>. QED BY <1>5, <2>2 DEF BoundaryDegree
<1>7. PICK t : t = [i \in 1..r |-> Total(d, i..r)]
    OBVIOUS
<1>8. PICK w : w = [j \in 1..r |-> j * d[j]]
    OBVIOUS
<1>9. Total(t, 1..r) = Total(w, 1..r)
    <2>1. \A i \in 1..r : t[i] = Total(d, i..r)
        BY <1>7
    <2>2. \A j \in 1..r : w[j] = j * d[j]
        BY <1>8
    <2>3. \A j \in 1..r : d[j] \in Nat
        BY <1>6
    <2>. QED BY ONLY r \in Nat, <2>1, <2>2, <2>3, TailSums
<1>10. BoundaryArea(g, P) <= Total(w, 1..r) /\ BoundaryArea(g, P) \in Int
    <2>1. P \in SUBSET Vertices(g) /\ IsPath(g, o) /\ ToSet(o) = Vertices(g) \ P
        BY DEF Completes
    <2>2. \A j \in 1..Len(o) : w[j] = j * BoundaryDegree(g, P, o[j])
        BY <1>1, <1>6, <1>8
    <2>. QED BY <1>1, <2>1, <2>2, BoundaryLeast
<1>11. IsFiniteSet(1..r)
    BY FS_Interval
<1>12. \A i \in 1..r : t[i] \in Int
    <2>1. TAKE i \in 1..r
    <2>2. IsFiniteSet(i..r) /\ \A j \in i..r : j \in 1..r
        BY FS_Interval
    <2>3. \A j \in i..r : d[j] \in Int
        BY <1>6, <2>2
    <2>4. Total(d, i..r) \in Int
        BY <2>2, <2>3, TotalInt
    <2>. QED BY <1>7, <2>4
<1>13. \A i \in 1..r : c[i] \in Int
    BY <1>3, <1>4, CrossingArea
<1>14. PICK e : e = [i \in 1..r |-> t[i] + c[i]]
    OBVIOUS
<1>15. Total(e, 1..r) = Total(t, 1..r) + Total(c, 1..r)
    <2>1. \A i \in 1..r : t[i] \in Int /\ c[i] \in Int /\ e[i] = t[i] + c[i]
        BY <1>12, <1>13, <1>14
    <2>. QED BY <1>11, <2>1, TotalPlus
<1>16. PICK u : u = [i \in 1..r |-> k]
    OBVIOUS
<1>17. Total(u, 1..r) = k * r
    <2>1. \A i \in 1..r : u[i] = IF i \in 1..r THEN k ELSE 0
        BY <1>16
    <2>2. Total(u, 1..r) = k * Cardinality((1..r) \cap (1..r))
        BY <1>11, <2>1, TotalAlike
    <2>3. (1..r) \cap (1..r) = 1..r /\ Cardinality(1..r) = r
        <3>1. 1 > r => r = 0
            OBVIOUS
        <3>. QED BY <3>1, FS_Interval
    <2>. QED BY <2>2, <2>3
<1>18. Total(e, 1..r) <= Total(u, 1..r)
    <2>1. \A i \in 1..r : e[i] \in Int /\ u[i] \in Int /\ e[i] <= u[i]
        <3>1. TAKE i \in 1..r
        <3>2. i \in 1..Len(o) /\ i - 1 \in 0..Len(o)
            BY <1>1
        <3>3. \A j \in 1..Len(o) : d[j] = BoundaryDegree(g, P, o[j])
            BY <1>1, <1>6
        <3>4. Cut(g, P \cup First(o, i - 1)) = Total(d, i..Len(o)) + Crossings(Along(g, o), Len(o))[i]
            BY <3>2, <3>3, CutAlong
        <3>5. e[i] = Cut(g, P \cup First(o, i - 1))
            BY <1>1, <1>2, <1>3, <1>7, <1>14, <3>4
        <3>6. Cut(g, P \cup First(o, i - 1)) <= k
            BY <3>2
        <3>7. e[i] \in Int
            BY <1>12, <1>13, <1>14
        <3>. QED BY <1>16, <3>5, <3>6, <3>7
    <2>. QED BY <1>11, <2>1, TotalsOrdered
<1>19. /\ Total(t, 1..r) \in Int /\ Total(c, 1..r) \in Int
    BY <1>11, <1>12, <1>13, TotalInt
<1>20. PICK x, y, z \in Int : x = Total(t, 1..r) /\ y = Total(c, 1..r) /\ z = k * r
    BY <1>19
<1>21. BoundaryArea(g, P) <= x
    BY <1>9, <1>10, <1>20
<1>22. x + y <= z
    BY <1>15, <1>17, <1>18, <1>20
<1>23. BoundaryArea(g, P) + y <= z
    BY <1>10, <1>21, <1>22
<1>. QED BY <1>1, <1>2, <1>3, <1>10, <1>20, <1>23

LEMMA SumAlong ==
    ASSUME NEW g, IsSimple(g), NEW P, NEW o, Completes(g, P, o), Len(o) > 0,
           NEW b, DOMAIN b = Remaining(g, P), \A v \in Remaining(g, P) : b[v] \in Int,
           NEW h, \A j \in 1..Len(o) : h[j] = b[o[j]]
    PROVE  SumOf(b) = Total(h, 1..Len(o))
<1>1. IsPath(g, o) /\ ToSet(o) = Remaining(g, P) /\ Len(o) \in Nat
    BY PathFacts DEF Completes, Remaining
<1>2. 1 \in 1..Len(o)
    BY <1>1
<1>3. Total(h, 1..Len(o)) = Total(b, RestOf(o, 1))
    BY <1>1, <1>2, RestTotal
<1>4. RestOf(o, 1) = Remaining(g, P)
    <2>1. RestOf(o, 1) = ToSet(o) \ First(o, 1 - 1)
        BY <1>1, <1>2, RestFacts
    <2>2. First(o, 1 - 1) = {}
        BY DEF First
    <2>. QED BY <1>1, <2>1, <2>2
<1>. QED BY <1>3, <1>4, SumIs

\* Neither of the two areas is more than what the edges between the remaining vertices
\* add in any order of them.
LEMMA AreasBelow ==
    ASSUME NEW g, IsSimple(g), NEW P, NEW o, Completes(g, P, o), Len(o) > 0,
           NEW T, T = Total(Crossings(Along(g, o), Len(o)), 1..Len(o))
    PROVE  /\ T \in Nat
           /\ MinimumEdgeDistance(g, P) <= T /\ MinimumEdgeDistance(g, P) \in Int
           /\ MinimumDegreeDistance(g, P) <= T /\ MinimumDegreeDistance(g, P) \in Int
<1>1. PICK r \in Nat : r = Len(o) /\ r > 0
    BY AlongFacts
<1>2. PICK N : N = Along(g, o)
    OBVIOUS
<1>3. /\ Row(r, N) /\ T = Total(Crossings(N, r), 1..r)
      /\ \A j \in 1..r : /\ o[j] \in Remaining(g, P)
                         /\ Cardinality(N[j]) = ResidualDegree(g, P, o[j])
    BY <1>1, <1>2, AlongFacts DEF Remaining
<1>4. \A v \in Remaining(g, P) : ResidualDegree(g, P, v) \in Nat
    <2>1. \A v \in Remaining(g, P) : g[v] \ P \in SUBSET Vertices(g)
        BY SimpleFacts DEF Remaining
    <2>. QED BY <2>1, SimpleFacts DEF ResidualDegree
<1>5. MinimumDegreeDistance(g, P) <= T /\ MinimumDegreeDistance(g, P) \in Int /\ T \in Nat
    <2>1. PICK b : b = [v \in Remaining(g, P) |-> QuarterSquare(ResidualDegree(g, P, v))]
        OBVIOUS
    <2>2. PICK Q : Q = [j \in 1..r |-> b[o[j]]]
        OBVIOUS
    <2>3. \A j \in 1..r : Q[j] = QuarterSquare(Cardinality(N[j]))
        BY <1>3, <2>1, <2>2
    <2>4. /\ Total(Q, 1..r) <= 2 * Total(Crossings(N, r), 1..r)
          /\ Total(Q, 1..r) \in Nat /\ Total(Crossings(N, r), 1..r) \in Nat
        BY <1>3, <2>3, DegreeArea
    <2>5. \A n \in Nat : QuarterSquare(n) \in Int
        <3>1. \A n \in Nat : (n + 1) * (n + 1) \in Int
            OBVIOUS
        <3>2. \A x \in Int : x \div 4 \in Int
            OBVIOUS
        <3>. QED BY <3>1, <3>2 DEF QuarterSquare
    <2>6. SumOf(b) = Total(Q, 1..r)
        <3>1. DOMAIN b = Remaining(g, P) /\ \A v \in Remaining(g, P) : b[v] \in Int
            BY <1>4, <2>1, <2>5
        <3>2. \A j \in 1..Len(o) : Q[j] = b[o[j]]
            BY <1>1, <2>2
        <3>. QED BY <1>1, <3>1, <3>2, SumAlong
    <2>7. MinimumDegreeDistance(g, P) = (SumOf(b) + 1) \div 2
        BY <2>1 DEF MinimumDegreeDistance
    <2>8. PICK x, y \in Nat : x = Total(Q, 1..r) /\ y = T
        BY <1>3, <2>4
    <2>9. x <= 2 * y
        BY <1>3, <2>4, <2>8
    <2>10. (x + 1) \div 2 <= y /\ (x + 1) \div 2 \in Int
        BY ONLY <2>9, x \in Nat, y \in Nat
    <2>. QED BY <2>6, <2>7, <2>8, <2>10
<1>6. MinimumEdgeDistance(g, P) <= T /\ MinimumEdgeDistance(g, P) \in Int
    <2>1. PICK b : b = [v \in Remaining(g, P) |-> ResidualDegree(g, P, v)]
        OBVIOUS
    <2>2. PICK size : size = [j \in 1..r |-> b[o[j]]]
        OBVIOUS
    <2>3. \A j \in 1..r : size[j] = Cardinality(N[j])
        BY <1>3, <2>1, <2>2
    <2>4. PICK c : c = Reaching(N, r)
        OBVIOUS
    <2>5. /\ \A d \in 1..r : c[d] \in Nat
          /\ \A d \in 1..(r - 1) : c[d] <= c[d + 1] + (r - d)
          /\ Total(size, 1..r) = 2 * c[1]
        BY <1>1, <1>3, <2>3, <2>4, ReachStep
    <2>6. SumOf(b) = Total(size, 1..r)
        <3>1. DOMAIN b = Remaining(g, P) /\ \A v \in Remaining(g, P) : b[v] \in Int
            BY <1>4, <2>1
        <3>2. \A j \in 1..Len(o) : size[j] = b[o[j]]
            BY <1>1, <2>2
        <3>. QED BY <1>1, <3>1, <3>2, SumAlong
    <2>7. PICK m \in Nat : m = c[1]
        BY <1>1, <2>5
    <2>8. SumOf(b) \div 2 = m
        <3>1. SumOf(b) = 2 * m
            BY <2>5, <2>6, <2>7
        <3>2. (2 * m) \div 2 = m
            OBVIOUS
        <3>. QED BY <3>1, <3>2
    <2>9. Cardinality(Remaining(g, P)) = r
        BY <1>1, PathFacts DEF Completes, Remaining
    <2>10. PICK a : a = [d \in 1..(r - 1) |-> d * Min({Unfilled(r, m, d), r - d})]
        OBVIOUS
    <2>11. MinimumEdgeDistance(g, P) = SumOf(a)
        BY <2>1, <2>8, <2>9, <2>10 DEF MinimumEdgeDistance
    <2>12. SumOf(a) <= Total(c, 1..r) /\ SumOf(a) \in Int
        BY ONLY r \in Nat, m \in Nat, <2>5, <2>7, <2>10, MinimumFill
    <2>13. Total(c, 1..r) = T
        BY <1>3, <2>4, ReachArea
    <2>. QED BY <2>11, <2>12, <2>13
<1>. QED BY <1>5, <1>6

-----------------------------------------------------------------------------
\* A set of vertices each with d neighbours in it.

Core(g, C, d) == C # {} /\ \A v \in C : DegreeIn(g, C, v) >= d

LEMMA DegreeInNat ==
    ASSUME NEW g, IsSimple(g), NEW C \in SUBSET Vertices(g), NEW v \in Vertices(g)
    PROVE  /\ DegreeIn(g, C, v) \in Nat /\ IsFiniteSet(g[v] \cap C)
           /\ v \in C => DegreeIn(g, C, v) <= Cardinality(C) - 1
<1>1. g[v] \cap C \in SUBSET Vertices(g) /\ g[v] \cap C \in SUBSET (C \ {v}) /\ C \ {v} \in SUBSET Vertices(g)
    BY SimpleFacts
<1>2. IsFiniteSet(C) /\ Cardinality(C) \in Nat /\ IsFiniteSet(C \ {v}) /\ IsFiniteSet(g[v] \cap C)
      /\ Cardinality(g[v] \cap C) \in Nat
    BY <1>1, SimpleFacts
<1>3. Cardinality(g[v] \cap C) <= Cardinality(C \ {v})
    BY <1>1, <1>2, FS_Subset
<1>4. v \in C => Cardinality(C \ {v}) = Cardinality(C) - 1
    BY <1>2, FS_RemoveElement
<1>. QED BY <1>2, <1>3, <1>4 DEF DegreeIn

\* The edges between two sets, counted from the one and from the other.
LEMMA EdgesBetween ==
    ASSUME NEW g, IsSimple(g), NEW A \in SUBSET Vertices(g), NEW C \in SUBSET Vertices(g),
           NEW a, \A v \in A : a[v] = DegreeIn(g, C, v),
           NEW c, \A v \in C : c[v] = DegreeIn(g, A, v)
    PROVE  Total(a, A) = Total(c, C)
<1>2. IsFiniteSet(A) /\ IsFiniteSet(C)
    BY SimpleFacts
<1>3. PICK f : f = [v \in A |-> [u \in C |-> IF u \in g[v] THEN 1 ELSE 0]]
    OBVIOUS
<1>4. PICK e : e = [u \in C |-> [v \in A |-> IF u \in g[v] THEN 1 ELSE 0]]
    OBVIOUS
<1>5. \A v \in A, u \in C : f[v][u] \in Int /\ e[u][v] = f[v][u]
    BY <1>3, <1>4
<1>7. \A v \in A : a[v] = Total(f[v], C)
    <2>1. TAKE v \in A
    <2>2. PICK w : w = f[v]
        OBVIOUS
    <2>3. PICK X : X = g[v]
        OBVIOUS
    <2>4. \A u \in C : w[u] = IF u \in X THEN 1 ELSE 0
        BY <1>3, <2>2, <2>3
    <2>5. Total(w, C) = Cardinality(C \cap X)
        BY <1>2, <2>4, TotalCounts
    <2>6. C \cap X = g[v] \cap C
        BY <2>3
    <2>. QED BY <2>2, <2>5, <2>6 DEF DegreeIn
<1>8. \A u \in C : c[u] = Total(e[u], A)
    <2>1. TAKE u \in C
    <2>2. PICK w : w = e[u]
        OBVIOUS
    <2>3. PICK X : X = g[u]
        OBVIOUS
    <2>4. \A v \in A : u \in g[v] <=> v \in g[u]
        BY SimpleFacts
    <2>5. \A v \in A : w[v] = IF v \in X THEN 1 ELSE 0
        BY <1>4, <2>2, <2>3, <2>4
    <2>6. Total(w, A) = Cardinality(A \cap X)
        BY <1>2, <2>5, TotalCounts
    <2>7. A \cap X = g[u] \cap A
        BY <2>3
    <2>. QED BY <2>2, <2>6, <2>7 DEF DegreeIn
<1>9. Tabled(A, C, f, e, a, c)
    BY <1>5, <1>7, <1>8 DEF Tabled
<1>. QED BY <1>2, <1>9, Fubini

\* Without triangles, a set of m vertices has at most a quarter of m * m edges.
LEMMA Mantel ==
    ASSUME NEW g, IsSimple(g), IsTriangleFree(g), NEW D \in SUBSET Vertices(g), D # {},
           NEW inner, \A v \in D : inner[v] = DegreeIn(g, D, v),
           NEW m, m = Cardinality(D)
    PROVE  m \in Nat /\ Total(inner, D) <= 2 * ((m * m) \div 4)
<1>1. IsFiniteSet(D) /\ m \in Nat
    BY SimpleFacts
<1>2. \A v \in D : inner[v] \in Nat
    BY DegreeInNat
<1>3. PICK v \in D : \A u \in D : inner[u] <= inner[v]
    <2>1. PICK V : V = {inner[x] : x \in D}
        OBVIOUS
    <2>2. V \in SUBSET Int /\ V # {} /\ IsFiniteSet(V)
        <3>1. IsFiniteSet({inner[x] : x \in D})
            BY <1>1, ImageFinite
        <3>. QED BY <1>2, <2>1, <3>1
    <2>3. PICK c \in V : \A k \in V : k <= c
        BY <2>2, Extremes
    <2>. QED BY <2>1, <2>3
<1>4. PICK A, C : A = g[v] \cap D /\ C = D \ A
    OBVIOUS
<1>5. PICK d \in Nat : d = inner[v]
    BY <1>2
<1>6. /\ A \in SUBSET D /\ C = D \ A /\ C \in SUBSET D
      /\ A \in SUBSET Vertices(g) /\ C \in SUBSET Vertices(g)
    BY <1>4
<1>7. Cardinality(A) = d /\ Cardinality(C) = m - d /\ m - d \in Nat
    <2>1. Cardinality(A) = d
        BY <1>4, <1>5 DEF DegreeIn
    <2>2. Cardinality(D \ A) = Cardinality(D) - Cardinality(D \cap A)
        BY <1>1, FS_Difference
    <2>3. D \cap A = A
        BY <1>6
    <2>4. Cardinality(C) \in Nat
        BY <1>6, SimpleFacts
    <2>. QED BY <1>4, <2>1, <2>2, <2>3, <2>4
<1>8. \A u \in A : inner[u] = DegreeIn(g, C, u)
    <2>1. TAKE u \in A
    <2>2. u \in g[v] /\ v \in Vertices(g) /\ u \in D
        BY <1>4
    <2>3. g[u] \cap g[v] = {}
        BY <2>2 DEF IsTriangleFree
    <2>4. g[u] \cap D = g[u] \cap C
        BY <1>4, <2>3
    <2>. QED BY <2>2, <2>4 DEF DegreeIn
<1>9. PICK c : c = [w \in C |-> DegreeIn(g, A, w)]
    OBVIOUS
<1>10. Total(inner, A) = Total(c, C)
    <2>1. \A w \in C : c[w] = DegreeIn(g, A, w)
        BY <1>9
    <2>. QED BY <1>6, <1>8, <2>1, EdgesBetween
<1>11. \A w \in C : c[w] \in Nat /\ c[w] <= inner[w]
    <2>1. TAKE w \in C
    <2>2. w \in Vertices(g) /\ w \in D
        BY <1>6
    <2>3. g[w] \cap A \in SUBSET (g[w] \cap D) /\ IsFiniteSet(g[w] \cap D)
        BY <1>6, <2>2, DegreeInNat
    <2>4. Cardinality(g[w] \cap A) <= Cardinality(g[w] \cap D)
        BY <2>3, FS_Subset
    <2>5. DegreeIn(g, A, w) \in Nat
        BY <1>6, <2>2, DegreeInNat
    <2>. QED BY <1>9, <2>2, <2>4, <2>5 DEF DegreeIn
<1>12. PICK u : u = [w \in C |-> d]
    OBVIOUS
<1>13. IsFiniteSet(A) /\ IsFiniteSet(C)
    BY <1>6, SimpleFacts
<1>14. Total(u, C) = d * (m - d)
    <2>1. \A w \in C : u[w] = IF w \in C THEN d ELSE 0
        BY <1>12
    <2>2. Total(u, C) = d * Cardinality(C \cap C)
        <3>1. IsFiniteSet(C) /\ d \in Int
            BY <1>13
        <3>. QED BY ONLY <2>1, <3>1, TotalAlike
    <2>3. C \cap C = C
        OBVIOUS
    <2>. QED BY <1>7, <2>2, <2>3
<1>15. Total(inner, C) <= Total(u, C)
    <2>1. \A w \in C : inner[w] \in Int /\ u[w] \in Int /\ inner[w] <= u[w]
        BY <1>2, <1>3, <1>5, <1>6, <1>12
    <2>. QED BY <1>13, <2>1, TotalsOrdered
<1>16. Total(c, C) <= Total(u, C)
    <2>1. \A w \in C : c[w] \in Int /\ u[w] \in Int /\ c[w] <= u[w]
        <3>1. TAKE w \in C
        <3>2. c[w] \in Nat /\ c[w] <= inner[w] /\ inner[w] \in Nat /\ inner[w] <= d /\ u[w] = d
            BY <1>2, <1>3, <1>5, <1>6, <1>11, <1>12
        <3>. QED BY <3>2
    <2>. QED BY <1>13, <2>1, TotalsOrdered
<1>17. Total(inner, D) = Total(inner, A) + Total(inner, C)
    <2>1. \A w \in D : inner[w] \in Int
        BY <1>2
    <2>. QED BY <1>1, <1>6, <2>1, TotalSplit
<1>18. Total(inner, C) \in Int /\ Total(c, C) \in Int
    <2>1. (\A w \in C : inner[w] \in Int) /\ (\A w \in C : c[w] \in Int)
        BY <1>2, <1>6, <1>11
    <2>. QED BY <1>13, <2>1, TotalInt
<1>19. PICK p \in Int : p = d * (m - d)
    BY <1>7
<1>20. Total(inner, D) <= 2 * p
    BY <1>10, <1>14, <1>15, <1>16, <1>17, <1>18, <1>19
<1>21. 4 * p <= m * m
    <2>1. (m - 2 * d) * (m - 2 * d) = m * m - 4 * (d * (m - d))
        BY <1>1, <1>5
    <2>2. \A z \in Int : z * z >= 0
        OBVIOUS
    <2>3. m - 2 * d \in Int /\ m * m \in Int
        BY <1>1
    <2>. QED BY <1>19, <2>1, <2>2, <2>3
<1>22. PICK s \in Int : s = m * m
    BY <1>1
<1>23. p <= s \div 4
    BY <1>21, <1>22
<1>24. Total(inner, D) \in Int
    BY <1>10, <1>17, <1>18
<1>. QED BY <1>1, <1>20, <1>22, <1>23, <1>24


\* The cut of a prefix that holds the part D of a core.
LEMMA PartCut ==
    ASSUME NEW g, IsSimple(g), NEW S \in SUBSET Vertices(g), NEW C \in SUBSET Vertices(g),
           NEW d \in Nat, Core(g, C, d), NEW D, D = S \cap C,
           NEW inner, \A v \in D : inner[v] = DegreeIn(g, D, v)
    PROVE  d * Cardinality(D) - Total(inner, D) <= Cut(g, S) /\ Total(inner, D) \in Int
<1>1. /\ D \in SUBSET S /\ D \in SUBSET Vertices(g) /\ D \in SUBSET C
      /\ IsFiniteSet(S) /\ IsFiniteSet(D)
    BY SimpleFacts
<1>2. PICK c : c = CutTerms(g, S)
    OBVIOUS
<1>3. Cut(g, S) = Total(c, S) /\ \A v \in S : c[v] = Cardinality(g[v] \ S) /\ c[v] \in Nat
    BY <1>2, CutIsTotal, CutTermsInt
<1>4. Total(c, D) <= Total(c, S) /\ Total(c, D) \in Nat /\ Total(c, S) \in Nat
    BY <1>1, <1>3, TotalPart
<1>5. \A v \in D : inner[v] \in Nat /\ inner[v] + c[v] >= d
    <2>1. TAKE v \in D
    <2>2. v \in C /\ v \in S /\ v \in Vertices(g)
        BY <1>1
    <2>3. PICK X, Y : X = g[v] \cap D /\ Y = g[v] \ S
        OBVIOUS
    <2>4. g[v] \cap C \in SUBSET (X \cup Y) /\ X \cup Y \in SUBSET Vertices(g)
          /\ X \in SUBSET Vertices(g) /\ Y \in SUBSET Vertices(g) /\ X \cap Y = {}
        BY <1>1, <2>2, <2>3, SimpleFacts
    <2>5. /\ IsFiniteSet(X) /\ IsFiniteSet(Y) /\ Cardinality(X) \in Nat /\ Cardinality(Y) \in Nat
          /\ IsFiniteSet(X \cup Y) /\ Cardinality(X \cup Y) \in Nat /\ Cardinality(X \cap Y) = 0
        BY <2>4, SimpleFacts, FS_EmptySet
    <2>6. Cardinality(X \cup Y) = Cardinality(X) + Cardinality(Y) - Cardinality(X \cap Y)
        BY <2>5, FS_Union
    <2>7. Cardinality(g[v] \cap C) <= Cardinality(X \cup Y)
        BY <2>4, <2>5, FS_Subset
    <2>8. Cardinality(g[v] \cap C) >= d
        BY <2>2 DEF Core, DegreeIn
    <2>9. Cardinality(g[v] \cap C) \in Nat
        BY <2>2, DegreeInNat DEF DegreeIn
    <2>10. inner[v] = Cardinality(X) /\ c[v] = Cardinality(Y)
        BY <1>3, <2>2, <2>3 DEF DegreeIn
    <2>. QED BY <2>5, <2>6, <2>7, <2>8, <2>9, <2>10
<1>6. PICK e, u : e = [v \in D |-> inner[v] + c[v]] /\ u = [v \in D |-> d]
    OBVIOUS
<1>7. Total(e, D) = Total(inner, D) + Total(c, D)
    <2>1. \A v \in D : inner[v] \in Int /\ c[v] \in Int /\ e[v] = inner[v] + c[v]
        <3>1. TAKE v \in D
        <3>2. v \in S /\ inner[v] \in Nat
            BY <1>1, <1>5
        <3>3. c[v] \in Nat
            BY <1>3, <3>2
        <3>4. e[v] = inner[v] + c[v]
            BY <1>6
        <3>. QED BY <3>2, <3>3, <3>4
    <2>2. IsFiniteSet(D)
        BY <1>1
    <2>. QED BY ONLY <2>1, <2>2, TotalPlus
<1>8. Total(u, D) = d * Cardinality(D)
    <2>1. \A v \in D : u[v] = IF v \in D THEN d ELSE 0
        BY <1>6
    <2>2. IsFiniteSet(D) /\ d \in Int
        BY <1>1
    <2>3. Total(u, D) = d * Cardinality(D \cap D)
        BY ONLY <2>1, <2>2, TotalAlike
    <2>4. D \cap D = D
        OBVIOUS
    <2>. QED BY <2>3, <2>4
<1>9. Total(u, D) <= Total(e, D) /\ Total(u, D) \in Int
    <2>1. \A v \in D : u[v] \in Int /\ e[v] \in Int /\ u[v] <= e[v]
        <3>1. TAKE v \in D
        <3>2. u[v] = d /\ e[v] = inner[v] + c[v] /\ inner[v] \in Nat /\ c[v] \in Nat
              /\ inner[v] + c[v] >= d
            BY <1>1, <1>3, <1>5, <1>6
        <3>. QED BY <3>2
    <2>. QED BY <1>1, <2>1, TotalsOrdered, TotalInt
<1>10. Total(inner, D) \in Int
    <2>1. \A v \in D : inner[v] \in Int
        BY <1>5
    <2>. QED BY <1>1, <2>1, TotalInt
<1>11. PICK y \in Int : y = d * Cardinality(D)
    BY <1>8, <1>9
<1>. QED BY <1>3, <1>4, <1>7, <1>8, <1>9, <1>10, <1>11

\* A path places the vertices of a set one after the other.
LEMMA PartReached ==
    ASSUME NEW g, IsSimple(g), NEW o, IsPath(g, o), NEW C \in SUBSET ToSet(o),
           NEW m \in 0..Cardinality(C)
    PROVE  \E i \in 0..Len(o) : Cardinality(First(o, i) \cap C) = m
<1>1. /\ Len(o) \in Nat /\ ToSet(o) = First(o, Len(o)) /\ ToSet(o) \in SUBSET Vertices(g)
      /\ \A i \in 0..Len(o) : /\ First(o, i) \in SUBSET Vertices(g)
                              /\ i > 0 => First(o, i) = First(o, i - 1) \cup {o[i]}
      /\ First(o, 0) = {}
    BY PathFacts
<1>2. \A i \in 0..Len(o) : /\ IsFiniteSet(First(o, i) \cap C)
                           /\ Cardinality(First(o, i) \cap C) \in Nat
    <2>1. \A i \in 0..Len(o) : First(o, i) \cap C \in SUBSET Vertices(g)
        BY <1>1
    <2>. QED BY <2>1, SimpleFacts
<1>3. Cardinality(C) \in Nat
    BY <1>1, SimpleFacts
<1>. DEFINE B == {i \in 0..Len(o) : Cardinality(First(o, i) \cap C) >= m}
<1>4. PICK i \in B : \A j \in B : i <= j
    <2>1. B \in SUBSET Nat
        BY <1>1
    <2>2. Len(o) \in B
        <3>1. First(o, Len(o)) \cap C = C
            BY <1>1
        <3>2. Cardinality(C) >= m /\ Len(o) \in 0..Len(o)
            BY <1>1, <1>3
        <3>. QED BY <3>1, <3>2
    <2>. HIDE DEF B
    <2>. QED BY <2>1, <2>2, Least
<1>5. CASE i = 0
    <2>1. Cardinality(First(o, 0) \cap C) = 0
        <3>1. First(o, 0) \cap C = {}
            BY <1>1
        <3>. QED BY <3>1, FS_EmptySet
    <2>2. 0 >= m
        BY <1>4, <1>5, <2>1
    <2>3. m = 0
        BY <1>3, <2>2
    <2>4. 0 \in 0..Len(o)
        BY <1>1
    <2>. QED BY ONLY <2>1, <2>3, <2>4
<1>6. CASE i > 0
    <2>1. i - 1 \in 0..Len(o) /\ i - 1 \notin B /\ i \in 0..Len(o)
        BY <1>1, <1>4, <1>6
    <2>2. PICK X, Y, w : X = First(o, i) \cap C /\ Y = First(o, i - 1) \cap C /\ w = o[i]
        OBVIOUS
    <2>3. X = Y \/ (X = Y \cup {w} /\ w \notin Y)
        <3>1. First(o, i) = First(o, i - 1) \cup {o[i]}
            BY <1>1, <1>6, <2>1
        <3>. QED BY <2>2, <3>1
    <2>4. IsFiniteSet(Y) /\ Cardinality(Y) \in Nat /\ Cardinality(X) \in Nat
        BY <1>2, <2>1, <2>2
    <2>5. Cardinality(X) <= Cardinality(Y) + 1
        <3>1. w \notin Y => Cardinality(Y \cup {w}) = Cardinality(Y) + 1
            BY <2>4, FS_AddElement
        <3>2. CASE X = Y
            BY <2>4, <3>2
        <3>3. CASE X = Y \cup {w} /\ w \notin Y
            BY <2>4, <3>1, <3>3
        <3>. QED BY <2>3, <3>2, <3>3
    <2>6. ~(Cardinality(Y) >= m) /\ Cardinality(X) >= m
        BY <1>4, <2>1, <2>2
    <2>7. Cardinality(X) = m
        BY <1>3, <2>4, <2>5, <2>6
    <2>. QED BY ONLY <2>1, <2>2, <2>7
<1>7. i = 0 \/ i > 0
    BY <1>1, <1>4
<1>. QED BY ONLY <1>5, <1>6, <1>7

\* However a core is placed, the bound of its degree is met (degeneracy_bound).
LEMMA CoreBelow ==
    ASSUME NEW g, IsSimple(g), NEW P, NEW o, Completes(g, P, o), NEW k \in Int,
           \A i \in 0..Len(o) : Cut(g, P \cup First(o, i)) <= k,
           NEW C \in SUBSET (Vertices(g) \ P), NEW d \in Nat, d > 0, Core(g, C, d),
           NEW t \in BOOLEAN, t => IsTriangleFree(g)
    PROVE  DegeneracyBound(d, t) <= k
<1>1. /\ P \in SUBSET Vertices(g) /\ IsPath(g, o) /\ ToSet(o) = Vertices(g) \ P
      /\ C \in SUBSET Vertices(g) /\ C \in SUBSET ToSet(o) /\ C \cap P = {}
    BY DEF Completes
<1>2. Cardinality(C) \in Nat /\ Cardinality(C) >= d + 1
    <2>1. PICK v \in C : DegreeIn(g, C, v) >= d
        BY DEF Core
    <2>2. DegreeIn(g, C, v) \in Nat /\ DegreeIn(g, C, v) <= Cardinality(C) - 1
        BY <1>1, DegreeInNat
    <2>3. Cardinality(C) \in Nat
        BY <1>1, SimpleFacts
    <2>. QED BY <2>1, <2>2, <2>3
\* Of a part of m vertices with few edges between them, d * m less those twice are cut.
<1>3. ASSUME NEW m \in 0..d
      PROVE  \E D \in SUBSET Vertices(g) : \E inner :
                /\ Cardinality(D) = m /\ \A v \in D : inner[v] = DegreeIn(g, D, v)
                /\ d * m - Total(inner, D) <= k /\ Total(inner, D) \in Int
    <2>1. m \in 0..Cardinality(C)
        BY <1>2
    <2>2. PICK i \in 0..Len(o) : Cardinality(First(o, i) \cap C) = m
        BY <1>1, <2>1, PartReached
    <2>3. PICK S : S = P \cup First(o, i)
        OBVIOUS
    <2>4. PICK D : D = S \cap C
        OBVIOUS
    <2>5. First(o, i) \in SUBSET Vertices(g)
        BY <1>1, PathFacts
    <2>6. D = First(o, i) \cap C /\ S \in SUBSET Vertices(g) /\ D \in SUBSET Vertices(g)
        BY <1>1, <2>3, <2>4, <2>5
    <2>7. PICK inner : inner = [v \in D |-> DegreeIn(g, D, v)]
        OBVIOUS
    <2>8. \A v \in D : inner[v] = DegreeIn(g, D, v)
        BY <2>7
    <2>9. d * Cardinality(D) - Total(inner, D) <= Cut(g, S) /\ Total(inner, D) \in Int
        BY <1>1, <2>4, <2>6, <2>8, PartCut
    <2>10. Cut(g, S) <= k /\ Cut(g, S) \in Nat
        BY <2>3, <2>6, CutNat
    <2>11. Cardinality(D) = m
        BY <2>2, <2>6
    <2>12. PICK x, y, z \in Int : x = d * m /\ y = Total(inner, D) /\ z = Cut(g, S)
        BY <2>9, <2>10
    <2>13. d * m - Total(inner, D) <= k
        BY <2>9, <2>10, <2>11, <2>12
    <2>. QED BY <2>6, <2>8, <2>9, <2>11, <2>13
<1>4. CASE ~t
    <2>1. PICK m \in 0..d : m = (d + 1) \div 2
        OBVIOUS
    <2>0. PICK D \in SUBSET Vertices(g) : \E inner :
                /\ Cardinality(D) = m /\ \A v \in D : inner[v] = DegreeIn(g, D, v)
                /\ d * m - Total(inner, D) <= k /\ Total(inner, D) \in Int
        BY <1>3
    <2>2. PICK inner :
                /\ Cardinality(D) = m /\ \A v \in D : inner[v] = DegreeIn(g, D, v)
                /\ d * m - Total(inner, D) <= k /\ Total(inner, D) \in Int
        BY <2>0
    <2>3. PICK u : u = [v \in D |-> m - 1]
        OBVIOUS
    <2>4. IsFiniteSet(D)
        BY SimpleFacts
    <2>5. Total(u, D) = (m - 1) * m
        <3>1. PICK c \in Int : c = m - 1
            OBVIOUS
        <3>2. \A v \in D : u[v] = IF v \in D THEN c ELSE 0
            BY <2>3, <3>1
        <3>3. Total(u, D) = c * Cardinality(D \cap D)
            BY ONLY <2>4, <3>2, c \in Int, TotalAlike
        <3>4. D \cap D = D
            OBVIOUS
        <3>. QED BY <2>2, <3>1, <3>3, <3>4
    <2>6. Total(inner, D) <= Total(u, D)
        <3>1. \A v \in D : inner[v] \in Int /\ u[v] \in Int /\ inner[v] <= u[v]
            <4>1. TAKE v \in D
            <4>2. DegreeIn(g, D, v) \in Nat /\ DegreeIn(g, D, v) <= Cardinality(D) - 1
                BY DegreeInNat
            <4>. QED BY <2>2, <2>3, <4>2
        <3>. QED BY <2>4, <3>1, TotalsOrdered
    <2>7. d * m - (m - 1) * m = m * ((d + 1) - m)
        BY m \in Int
    <2>8. PICK x, y, z \in Int : x = d * m /\ y = (m - 1) * m /\ z = m * ((d + 1) - m)
        OBVIOUS
    <2>9. z <= k
        BY <2>2, <2>5, <2>6, <2>7, <2>8
    <2>10. ((d + 1) * (d + 1)) \div 4 <= z
        <3>1. d + 1 = 2 * m \/ d + 1 = 2 * m + 1
            BY <2>1
        <3>2. PICK q \in Int : q = m * m
            OBVIOUS
        <3>3. CASE d + 1 = 2 * m
            <4>1. (d + 1) * (d + 1) = 4 * q /\ z = q
                BY <2>8, <3>2, <3>3
            <4>2. (4 * q) \div 4 = q
                OBVIOUS
            <4>. QED BY <4>1, <4>2
        <3>4. CASE d + 1 = 2 * m + 1
            <4>1. (d + 1) * (d + 1) = 4 * q + 4 * m + 1 /\ z = q + m
                BY <2>8, <3>2, <3>4
            <4>2. (4 * q + 4 * m + 1) \div 4 = q + m
                OBVIOUS
            <4>. QED BY <4>1, <4>2
        <3>. QED BY <3>1, <3>3, <3>4
    <2>11. ((d + 1) * (d + 1)) \div 4 \in Int
        <3>1. (d + 1) * (d + 1) \in Int
            OBVIOUS
        <3>. QED BY <3>1
    <2>. QED BY <1>4, <2>8, <2>9, <2>10, <2>11 DEF DegeneracyBound, QuarterSquare
<1>5. CASE t
    <2>1. d \in 0..d
        OBVIOUS
    <2>0. PICK D \in SUBSET Vertices(g) : \E inner :
                /\ Cardinality(D) = d /\ \A v \in D : inner[v] = DegreeIn(g, D, v)
                /\ d * d - Total(inner, D) <= k /\ Total(inner, D) \in Int
        BY <1>3, <2>1
    <2>2. PICK inner :
                /\ Cardinality(D) = d /\ \A v \in D : inner[v] = DegreeIn(g, D, v)
                /\ d * d - Total(inner, D) <= k /\ Total(inner, D) \in Int
        BY <2>0
    <2>3. D # {}
        BY <2>2, FS_EmptySet
    <2>4. Total(inner, D) <= 2 * ((d * d) \div 4)
        BY <1>5, <2>2, <2>3, Mantel
    <2>5. PICK s \in Int : s = d * d
        OBVIOUS
    <2>6. PICK y \in Int : y = Total(inner, D)
        BY <2>2
    <2>7. s % 4 = 0 \/ s % 4 = 1
        <3>1. PICK q \in Int : q = d \div 2
            OBVIOUS
        <3>2. d = 2 * q \/ d = 2 * q + 1
            BY <3>1
        <3>3. PICK x \in Int : x = q * q
            OBVIOUS
        <3>4. s = 4 * x \/ s = 4 * x + 4 * q + 1
            <4>1. CASE d = 2 * q
                BY <2>5, <3>3, <4>1
            <4>2. CASE d = 2 * q + 1
                BY <2>5, <3>3, <4>2
            <4>. QED BY <3>2, <4>1, <4>2
        <3>. QED BY <3>4
    <2>8. (s + 1) \div 2 <= s - 2 * (s \div 4)
        BY <2>7
    <2>9. (s + 1) \div 2 <= k
        BY <2>2, <2>4, <2>5, <2>6, <2>8
    <2>. QED BY <1>5, <2>5, <2>9 DEF DegeneracyBound
<1>. QED BY <1>4, <1>5

-----------------------------------------------------------------------------
\* The vertices are taken away by degree (residual_degeneracy).

PeelAt(g, P, i, peel) ==
    IF i = 0 THEN [left |-> Remaining(g, P), d |-> 0]
    ELSE LET R == peel[i - 1].left
             v == LeastDegree(g, R)
         IN  [left |-> R \ {v}, d |-> Max({peel[i - 1].d, DegreeIn(g, R, v)})]
PeelFn(g, P) ==
    CHOOSE x : x = [i \in 0..Cardinality(Remaining(g, P)) |-> PeelAt(g, P, i, x)]

LEMMA PeelIsFn == \A g, P : ResidualDegeneracy(g, P) = PeelFn(g, P)[Cardinality(Remaining(g, P))].d
BY DEF ResidualDegeneracy, PeelFn, PeelAt

\* A vertex of least degree exists.
LEMMA LeastDegreeIs ==
    ASSUME NEW g, IsSimple(g), NEW R \in SUBSET Vertices(g), NEW v, v = LeastDegree(g, R)
    PROVE  /\ DegreeIn(g, R, v) \in Nat
           /\ R # {} => v \in R /\ Core(g, R, DegreeIn(g, R, v))
<1>1. CASE R = {}
    <2>1. g[v] \cap R = {}
        BY <1>1
    <2>. QED BY <1>1, <2>1, FS_EmptySet DEF DegreeIn
<1>2. CASE R # {}
    <2>1. PICK w : w = [u \in R |-> DegreeIn(g, R, u)]
        OBVIOUS
    <2>2. \A u \in R : w[u] \in Nat
        <3>1. \A u \in R : DegreeIn(g, R, u) \in Nat
            BY DegreeInNat
        <3>. QED BY <2>1, <3>1
    <2>3. PICK m \in R : \A u \in R : w[m] <= w[u]
        BY <1>2, <2>2, LeastRank
    <2>4. PICK B : B = {u \in R : w[u] = w[m]}
        OBVIOUS
    <2>5. B \in SUBSET Nat /\ m \in B
        BY <2>3, <2>4, SimpleFacts
    <2>6. PICK a \in B : \A u \in B : a <= u
        BY <2>5, Least
    <2>7. a \in R /\ \A u \in R : w[a] < w[u] \/ (w[a] = w[u] /\ a <= u)
        <3>1. a \in R /\ w[a] = w[m] /\ \A u \in R : w[u] = w[m] => a <= u
            BY <2>4, <2>6
        <3>2. ASSUME NEW u \in R PROVE w[a] < w[u] \/ (w[a] = w[u] /\ a <= u)
            <4>1. w[m] <= w[u] /\ w[u] \in Nat /\ w[m] \in Nat
                BY <2>2, <2>3
            <4>2. w[u] = w[m] \/ w[m] < w[u]
                BY <4>1
            <4>. QED BY <3>1, <4>2
        <3>. QED BY <3>1, <3>2
    <2>8. \A u \in R : \/ DegreeIn(g, R, a) < DegreeIn(g, R, u)
                       \/ DegreeIn(g, R, a) = DegreeIn(g, R, u) /\ a <= u
        BY <2>1, <2>7
    <2>9. \E x \in R : \A u \in R : \/ DegreeIn(g, R, x) < DegreeIn(g, R, u)
                                    \/ DegreeIn(g, R, x) = DegreeIn(g, R, u) /\ x <= u
        BY <2>7, <2>8
    <2>10. v \in R /\ \A u \in R : \/ DegreeIn(g, R, v) < DegreeIn(g, R, u)
                                   \/ DegreeIn(g, R, v) = DegreeIn(g, R, u) /\ v <= u
        BY <2>9 DEF LeastDegree
    <2>11. \A u \in R : DegreeIn(g, R, u) \in Nat
        BY DegreeInNat
    <2>12. \A u \in R : DegreeIn(g, R, u) >= DegreeIn(g, R, v)
        BY <2>10, <2>11
    <2>. QED BY <1>2, <2>10, <2>11, <2>12 DEF Core
<1>. QED BY <1>1, <1>2

\* What a step of the peeling leaves and has met.
Peeled(g, P) == [left : SUBSET Remaining(g, P), d : Nat]
Met(g, P, d) == d = 0 \/ \E C \in SUBSET Remaining(g, P) : Core(g, C, d)

LEMMA PeelStep ==
    ASSUME NEW g, IsSimple(g), NEW P, NEW i, NEW x, i # 0 => x[i - 1] \in Peeled(g, P)
    PROVE  /\ PeelAt(g, P, i, x) \in Peeled(g, P)
           /\ (i # 0 => Met(g, P, x[i - 1].d)) => Met(g, P, PeelAt(g, P, i, x).d)
<1>1. CASE i = 0
    BY <1>1 DEF PeelAt, Peeled, Met
<1>2. CASE i # 0
    <2>1. PICK R \in SUBSET Remaining(g, P) : R = x[i - 1].left
        BY <1>2 DEF Peeled
    <2>2. PICK d \in Nat : d = x[i - 1].d
        BY <1>2 DEF Peeled
    <2>3. PICK v : v = LeastDegree(g, R)
        OBVIOUS
    <2>4. R \in SUBSET Vertices(g)
        BY DEF Remaining
    <2>5. PICK e \in Nat : e = DegreeIn(g, R, v)
        BY <2>3, <2>4, LeastDegreeIs
    <2>6. R # {} => Core(g, R, e)
        BY <2>3, <2>4, <2>5, LeastDegreeIs
    <2>7. R = {} => e = 0
        <3>1. R = {} => g[v] \cap R = {}
            OBVIOUS
        <3>. QED BY <2>5, <3>1, FS_EmptySet DEF DegreeIn
    <2>8. PeelAt(g, P, i, x) = [left |-> R \ {v}, d |-> Max({d, e})]
        BY <1>2, <2>1, <2>2, <2>3, <2>5 DEF PeelAt
    <2>9. PICK m : m = Max({d, e})
        OBVIOUS
    <2>10. m \in Nat /\ m \in {d, e}
        <3>1. m \in Nat /\ d <= m /\ e <= m /\ \A k \in Int : m <= k <=> d <= k /\ e <= k
            BY <2>9, MaxTwo
        <3>. QED BY <3>1
    <2>11. PeelAt(g, P, i, x) \in Peeled(g, P) /\ PeelAt(g, P, i, x).d = m
        BY <2>8, <2>9, <2>10 DEF Peeled
    <2>12. Met(g, P, e)
        BY <2>6, <2>7 DEF Met
    <2>13. (i # 0 => Met(g, P, x[i - 1].d)) => Met(g, P, m)
        BY <1>2, <2>2, <2>10, <2>12
    <2>. QED BY <2>11, <2>13
<1>. QED BY <1>1, <1>2

\* The degree it finds is that of a core of what is left of the graph.
LEMMA DegeneracyMet ==
    ASSUME NEW g, IsSimple(g), NEW P
    PROVE  ResidualDegeneracy(g, P) \in Nat /\ Met(g, P, ResidualDegeneracy(g, P))
<1>1. PICK n \in Nat : n = Cardinality(Remaining(g, P))
    <2>1. Remaining(g, P) \in SUBSET Vertices(g)
        BY DEF Remaining
    <2>. QED BY <2>1, SimpleFacts
<1>2. PICK V : V = Peeled(g, P)
    OBVIOUS
<1>. DEFINE X == 0..n
            rank == [i \in X |-> i]
            D == [i \in X |-> [x \in [X -> V] |-> PeelAt(g, P, i, x)]]
<1>3. \A i \in X : i # 0 => i - 1 \in X
    OBVIOUS
<1>4. ASSUME NEW i \in X, NEW x \in [X -> V] PROVE PeelAt(g, P, i, x) \in V
    <2>1. i # 0 => x[i - 1] \in V
        <3>. HIDE DEF X
        <3>. QED BY <1>3
    <2>. QED BY <1>2, <2>1, PeelStep
<1>5. ASSUME NEW i \in X, NEW x \in [X -> V], NEW y \in [X -> V],
             \A j \in X : rank[j] < rank[i] => x[j] = y[j]
      PROVE  PeelAt(g, P, i, x) = PeelAt(g, P, i, y)
    <2>1. i # 0 => x[i - 1] = y[i - 1]
        BY <1>3, <1>5
    <2>. QED BY <2>1 DEF PeelAt
<1>6. Ranked(X, V, rank, n, D)
    <2>1. \A i \in X : \A x \in [X -> V] : D[i][x] \in V
        BY <1>4
    <2>2. \A i \in X : \A x, y \in [X -> V] :
              (\A j \in X : rank[j] < rank[i] => x[j] = y[j]) => D[i][x] = D[i][y]
        <3>. HIDE DEF rank, X
        <3>1. \A i \in X : \A x, y \in [X -> V] :
              (\A j \in X : rank[j] < rank[i] => x[j] = y[j]) => PeelAt(g, P, i, x) = PeelAt(g, P, i, y)
            BY <1>5
        <3>. QED BY <3>1
    <2>3. \A i \in X : rank[i] \in 0..n
        OBVIOUS
    <2>. HIDE DEF X, rank, D
    <2>. QED BY <2>1, <2>2, <2>3 DEF Ranked
<1>7. V # {}
    <2>1. [left |-> {}, d |-> 0] \in V
        BY <1>2 DEF Peeled
    <2>. QED BY <2>1
<1>8. PICK x \in [X -> V] : \A i \in X : x[i] = D[i][x]
    <2>. HIDE DEF X, rank, D
    <2>. QED BY <1>6, <1>7, RankedRecursion
<1>9. x = [i \in X |-> PeelAt(g, P, i, x)]
    BY <1>8
<1>10. PICK h : h = PeelFn(g, P)
    OBVIOUS
<1>11. h = [i \in X |-> PeelAt(g, P, i, h)]
    BY <1>1, <1>9, <1>10 DEF PeelFn
<1>12. \A i \in X : h[i] = PeelAt(g, P, i, h)
    BY <1>11
<1>. DEFINE B == {i \in X : ~(h[i] \in V /\ Met(g, P, h[i].d))}
<1>13. B = {}
    <2>. SUFFICES ASSUME B # {} PROVE FALSE
        OBVIOUS
    <2>1. PICK i \in B : \A j \in B : i <= j
        <3>1. B \in SUBSET Nat
            OBVIOUS
        <3>. HIDE DEF B
        <3>. QED BY <3>1, Least
    <2>2. i \in X /\ i \in Nat
        OBVIOUS
    <2>3. i # 0 => i - 1 \in X /\ i - 1 \notin B
        <3>1. i # 0 => i - 1 \in X /\ ~(i <= i - 1)
            BY <2>2
        <3>. HIDE DEF B, X
        <3>. QED BY <2>1, <3>1
    <2>4. i # 0 => h[i - 1] \in V /\ Met(g, P, h[i - 1].d)
        BY <2>3
    <2>5. PeelAt(g, P, i, h) \in V /\ Met(g, P, PeelAt(g, P, i, h).d)
        <3>. HIDE DEF X, B
        <3>. QED BY <1>2, <2>4, PeelStep
    <2>6. h[i] \in V /\ Met(g, P, h[i].d)
        BY <1>12, <2>2, <2>5
    <2>. QED BY <2>1, <2>6
<1>14. h[n] \in V /\ Met(g, P, h[n].d)
    <2>1. n \in X
        BY <1>1
    <2>. QED BY <1>13, <2>1
<1>15. ResidualDegeneracy(g, P) = h[n].d
    BY <1>1, <1>10, PeelIsFn
<1>. QED BY <1>2, <1>14, <1>15 DEF Peeled

\* A quotient rounded up is at most what the divisor times it covers (ceil_div).
LEMMA CeilDivAtMost ==
    ASSUME NEW x \in Int, NEW n \in Nat, n > 0, NEW k \in Int, NEW p \in Int, p = k * n, x <= p
    PROVE  CeilDiv(x, n) <= k
<1>1. PICK y \in Int : y = x + n - 1
    OBVIOUS
<1>2. y < p + n
    BY <1>1
<1>3. PICK q \in Int : q = y \div n
    BY <1>1
<1>4. q * n <= y
    BY <1>1, <1>3
<1>5. (k + 1) * n = p + n
    OBVIOUS
<1>6. q * n < (k + 1) * n /\ q * n \in Int /\ (k + 1) * n \in Int
    BY <1>1, <1>2, <1>4, <1>5
<1>7. q < k + 1
    BY ONLY <1>6, n \in Nat, n > 0, q \in Int, k \in Int
<1>8. CeilDiv(x, n) = q
    BY <1>1, <1>3 DEF CeilDiv
<1>. QED BY <1>3, <1>7, <1>8

\* A bound that says that no completion of a prefix keeps the threshold is right
\* (completion_exceeds), whether the caller's maximum degree is up to date or too small:
\* an order that keeps the threshold has at least the area the bounds add up, and cuts a
\* core of the degree the degeneracy bound found.
THEOREM CompletionExceedsSound ==
    ASSUME NEW g, IsSimple(g), NEW P \in SUBSET Vertices(g), NEW k \in Nat, NEW bounds,
           NEW degree \in 0..MaximumDegree(g, P),
           CompletionExceeds(g, P, k, bounds, degree, Cut(g, P))
    PROVE  ~Fits(g, k, P)
<1>. SUFFICES ASSUME Fits(g, k, P) PROVE FALSE
    OBVIOUS
<1>0. PICK top \in Nat : top = MaximumDegree(g, P)
    BY ResidualDegrees
<1>1. PICK o : Keeps(g, P, k, Vertices(g) \ P, o)
    <2>1. k \in Int
        OBVIOUS
    <2>2. ResidualTable(g, P)[Vertices(g) \ P] <= k
        BY <2>1, TableSound
    <2>. QED BY <2>1, <2>2, WitnessKeeps
<1>2. Completes(g, P, o) /\ \A i \in 0..Len(o) : Cut(g, P \cup First(o, i)) <= k
    BY <1>1 DEF Keeps, Completes
<1>3. PICK n \in Nat : n = Cardinality(Remaining(g, P)) /\ n = Len(o)
    BY <1>2, PathFacts DEF Completes, Remaining
<1>4. ~(DegreeBound(degree) > k) /\ ~(DegreeBound(MaximumDegree(g, P)) > k)
    <2>1. k \in Int
        OBVIOUS
    <2>2. ~(DegreeBound(top) > k)
        BY <1>0, <2>1, ResidualDegreeSound
    <2>3. degree \in Nat /\ degree <= top
        BY <1>0
    <2>4. ~(DegreeBound(degree) > k)
        BY <2>2, <2>3 DEF DegreeBound
    <2>. QED BY <1>0, <2>2, <2>4
<1>5. PICK T \in Nat : T = Total(Crossings(Along(g, o), Len(o)), 1..Len(o))
    <2>1. n > 0
        BY <1>3, <1>4 DEF CompletionExceeds
    <2>. QED BY <1>2, <1>3, <2>1, AreasBelow
<1>6. n > 0
    BY <1>3, <1>4 DEF CompletionExceeds
<1>7. PICK p \in Int : p = k * n
    OBVIOUS
<1>8. BoundaryArea(g, P) \in Int /\ BoundaryArea(g, P) + T <= p
    <2>1. k \in Int /\ Completes(g, P, o) /\ \A i \in 0..Len(o) : Cut(g, P \cup First(o, i)) <= k
        BY <1>2
    <2>2. BoundaryArea(g, P) \in Int /\ BoundaryArea(g, P) + T <= k * Len(o)
        BY <1>5, <2>1, AreaAlong
    <2>3. k * Len(o) = p
        BY <1>3, <1>7
    <2>. QED BY <2>2, <2>3
<1>9. ASSUME NEW a \in Int, a <= T PROVE ~(CeilDiv(BoundaryArea(g, P) + a, n) > k)
    <2>1. PICK y \in Int : y = BoundaryArea(g, P) + a
        BY <1>8
    <2>2. y <= p
        BY <1>8, <1>9, <2>1
    <2>3. CeilDiv(y, n) <= k
        BY <1>6, <1>7, <2>2, CeilDivAtMost
    <2>4. CeilDiv(y, n) \in Int
        BY <1>6, <2>1 DEF CeilDiv
    <2>. QED BY <2>1, <2>3, <2>4
<1>10. ~(CeilDiv(BoundaryArea(g, P) + MinimumEdgeDistance(g, P), n) > k)
    BY <1>2, <1>3, <1>5, <1>6, <1>9, AreasBelow
<1>11. ~(CeilDiv(BoundaryArea(g, P) + MinimumDegreeDistance(g, P), n) > k)
    BY <1>2, <1>3, <1>5, <1>6, <1>9, AreasBelow
<1>12. PICK d \in Nat : d = ResidualDegeneracy(g, P) /\ Met(g, P, d)
    BY DegeneracyMet
<1>13. PICK t \in BOOLEAN : t = IsTriangleFree(g)
    BY DEF IsTriangleFree
<1>14. DegeneracyBound(d, t) \in Int
    BY DEF DegeneracyBound, QuarterSquare
<1>15. ~(DegeneracyBound(d, t) > k)
    <2>1. CASE d = 0
        <3>1. DegeneracyBound(0, t) = 0
            BY DEF DegeneracyBound, QuarterSquare
        <3>. QED BY <2>1, <3>1
    <2>2. CASE d # 0
        <3>1. PICK C \in SUBSET (Vertices(g) \ P) : Core(g, C, d)
            BY <1>12, <2>2 DEF Met, Remaining
        <3>2. d > 0
            BY <2>2
        <3>3. DegeneracyBound(d, t) <= k
            BY <1>2, <1>13, <3>1, <3>2, CoreBelow
        <3>. QED BY <1>14, <3>3
    <2>. QED BY <2>1, <2>2
<1>. QED BY <1>3, <1>4, <1>10, <1>11, <1>12, <1>13, <1>15 DEF CompletionExceeds
=============================================================================
