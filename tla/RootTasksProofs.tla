--------------------------- MODULE RootTasksProofs ---------------------------
(***************************************************************************)
(* What decide_cutwidth answers is right, for every simple graph, threshold, *)
(* choice of options and number of threads: every failed prefix in the cache *)
(* cannot be completed within the threshold (CacheIsSound), a "feasible"     *)
(* comes with an ordering of that width and an "infeasible" means that there *)
(* is none (AnswersAreSound).                                                *)
(*                                                                           *)
(* Neither invariant is inductive. What CallInv adds to them: the node of a  *)
(* running dfs is what its path determines and keeps within the threshold    *)
(* (SearchOk), the candidates of a frame already passed over cannot be        *)
(* completed (GoesOn), and as long as nothing ends the call early a task that *)
(* was handed out is refuted or still held by a thread, while none is left     *)
(* when a thread leaves (Accounts). A call that all threads leave without a    *)
(* witness has refuted every root.                                            *)
(***************************************************************************)
EXTENDS RootTasks, SolverLemmas

-----------------------------------------------------------------------------
(* The call: its graph, its options and its threshold.                        *)

Known ==
    /\ graph \in Graphs
    /\ \E o \in Options[graph] : opts = Prepared(graph, o)
    /\ k \in Thresholds[graph]

OptionTypes ==
    /\ opts.threads \in Workers
    /\ opts.memo \in Nat /\ opts.probe \in Nat
    /\ opts.word64 \in BOOLEAN /\ opts.failFirst \in BOOLEAN /\ opts.incremental \in BOOLEAN

DerivedOptions ==
    /\ opts.asked = Thresholds[graph]
    /\ Dropped(graph, opts.earlier)
    /\ \A S \in SUBSET Vertices(graph) :
          /\ opts.exact[S] = Completion(graph, S)
          /\ opts.horizon[opts.memo][S] = FiniteHorizon(graph, S, opts.memo)
          /\ opts.memo > 0 => opts.horizon[opts.memo - 1][S] = FiniteHorizon(graph, S, opts.memo - 1)

BoundsSound ==
    \A S \in SUBSET Vertices(graph) : \A degree, cut :
        /\ degree = MaximumDegree(graph, S) /\ cut = Cut(graph, S)
        /\ CompletionExceeds(graph, S, k, opts.enabled[k], degree, cut)
        => ~Fits(graph, k, S)

KnownFacts ==
    /\ IsSimple(graph) /\ NoSearch \notin Vertices(graph)
    /\ k \in Nat /\ Thresholds[graph] \subseteq Nat
    /\ OptionTypes /\ DerivedOptions /\ BoundsSound

Extends(f, e, r) ==
    /\ DOMAIN r = DOMAIN f \cup DOMAIN e /\ IsRecord(r)
    /\ \A x \in DOMAIN f : r[x] = f[x]
    /\ \A x \in DOMAIN e : x \notin DOMAIN f => r[x] = e[x]

LEMMA ExtendedIs ==
    ASSUME NEW f, NEW e, NEW r, r = Extended(f, e)
    PROVE  Extends(f, e, r)
BY DEF Extended, Extends, IsRecord

LEMMA PairFinite ==
    ASSUME NEW x, NEW y
    PROVE  IsFiniteSet({x, y})
<1> PICK S : S = {x}  OBVIOUS
<1>1. IsFiniteSet(S)
  BY FS_Singleton
<1>2. IsFiniteSet(S \cup {y})
  BY <1>1, FS_AddElement
<1>3. S \cup {y} = {x, y}
  OBVIOUS
<1> QED
  BY <1>2, <1>3

LEMMA KnowsFacts ==
    ASSUME Known
    PROVE  KnownFacts
<1>1. PICK o \in Options[graph] : opts = Prepared(graph, o)
  BY DEF Known
<1>2. /\ IsSimple(graph) /\ NoSearch \notin Vertices(graph) /\ Thresholds[graph] \subseteq Nat
      /\ o \in DecisionOptions /\ k \in Thresholds[graph] /\ k \in Nat /\ graph \in Graphs
  BY <1>1, GraphsAssumption DEF Known
<1> DEFINE extra ==
         [asked   |-> Thresholds[graph],
          earlier |-> IF o.twins THEN EarlierTwins(graph) ELSE [v \in Vertices(graph) |-> {}],
          enabled |-> [t \in Thresholds[graph] |-> EnabledBounds(graph, o.bounds, t)],
          horizon |-> [d \in Max({0, o.memo - 1})..o.memo |->
                          [S \in SUBSET Vertices(graph) |-> FiniteHorizon(graph, S, d)]],
          exact   |-> [S \in SUBSET Vertices(graph) |-> Completion(graph, S)]]
<1>3. opts = Extended(o, extra)
  BY <1>1 DEF Prepared
<1>4. DOMAIN o = {"word64", "threads", "timed", "twins", "index", "failFirst", "lookahead",
                  "lookaheadRemaining", "incremental", "partialBounds", "bounds", "caching", "fixed",
                  "keepsCache", "sdp", "memo", "memoRemaining", "memoOrder", "dp", "bestNext", "probe",
                  "probeSlack", "probeChildren", "probeLimited"}
  BY <1>2 DEF DecisionOptions
<1>5. DOMAIN extra = {"asked", "earlier", "enabled", "horizon", "exact"}
  OBVIOUS
<1>6. /\ opts.asked = extra.asked /\ opts.earlier = extra.earlier /\ opts.enabled = extra.enabled
      /\ opts.horizon = extra.horizon /\ opts.exact = extra.exact
  <2>1. \A x \in {"asked", "earlier", "enabled", "horizon", "exact"} : x \in DOMAIN extra /\ x \notin DOMAIN o
    BY <1>4, <1>5
  <2> HIDE DEF extra
  <2> PICK e : e = extra  OBVIOUS
  <2>0. Extends(o, e, opts)
    BY <1>3, ExtendedIs
  <2>2. \A x \in DOMAIN e : x \notin DOMAIN o => opts[x] = e[x]
    BY <2>0 DEF Extends
  <2>3. \A x \in {"asked", "earlier", "enabled", "horizon", "exact"} : opts[x] = extra[x]
    BY <2>1, <2>2
  <2> QED
    BY <2>3
<1>7. /\ opts.threads = o.threads /\ opts.memo = o.memo /\ opts.probe = o.probe
      /\ opts.word64 = o.word64 /\ opts.failFirst = o.failFirst /\ opts.incremental = o.incremental
  <2> HIDE DEF extra
  <2> PICK e : e = extra  OBVIOUS
  <2>0. Extends(o, e, opts)
    BY <1>3, ExtendedIs
  <2>1. \A x \in DOMAIN o : opts[x] = o[x]
    BY <2>0 DEF Extends
  <2> QED
    BY <1>4, <2>1
<1>8. OptionTypes
  BY <1>2, <1>7 DEF OptionTypes, DecisionOptions
<1>9. DerivedOptions
  <2>1. Dropped(graph, opts.earlier)
    BY <1>6 DEF Dropped, EarlierTwins
  <2>2. \A S \in SUBSET Vertices(graph) : opts.exact[S] = Completion(graph, S)
    BY <1>6
  <2>3. o.memo \in Nat
    BY <1>2 DEF DecisionOptions
  <2> PICK m : m = Max({0, o.memo - 1})  OBVIOUS
  <2>4. m \in Nat /\ m <= o.memo /\ (o.memo > 0 => m = o.memo - 1)
    <3>1. CASE o.memo = 0
      <4>0. IsFiniteSet({0, o.memo - 1})
        BY PairFinite
      <4>1. {0, o.memo - 1} \in SUBSET Int /\ IsFiniteSet({0, o.memo - 1}) /\ {0, o.memo - 1} # {}
        BY <2>3, <4>0
      <4>2. m \in {0, o.memo - 1} /\ \A x \in {0, o.memo - 1} : x <= m
        BY <4>1, MaxIs
      <4> QED
        BY <3>1, <4>2
    <3>2. CASE o.memo > 0
      <4>0. IsFiniteSet({0, o.memo - 1})
        BY PairFinite
      <4>1. {0, o.memo - 1} \in SUBSET Int /\ IsFiniteSet({0, o.memo - 1}) /\ {0, o.memo - 1} # {}
        BY <2>3, <4>0
      <4>2. m \in {0, o.memo - 1} /\ \A x \in {0, o.memo - 1} : x <= m
        BY <4>1, MaxIs
      <4> QED
        BY <2>3, <3>2, <4>2
    <3> QED
      BY <2>3, <3>1, <3>2
  <2>5. \A S \in SUBSET Vertices(graph) : \A d \in m..o.memo : opts.horizon[d][S] = FiniteHorizon(graph, S, d)
    BY <1>6
  <2>6. o.memo \in m..o.memo /\ (o.memo > 0 => o.memo - 1 \in m..o.memo)
    BY <2>3, <2>4
  <2>7. opts.asked = Thresholds[graph]
    BY <1>6
  <2> QED
    BY <1>7, <2>1, <2>2, <2>5, <2>6, <2>7 DEF DerivedOptions
<1>10. BoundsSound
  <2> SUFFICES ASSUME NEW S \in SUBSET Vertices(graph), NEW degree, NEW cut,
                      degree = MaximumDegree(graph, S), cut = Cut(graph, S),
                      CompletionExceeds(graph, S, k, opts.enabled[k], degree, cut)
               PROVE  ~Fits(graph, k, S)
    BY DEF BoundsSound
  <2>1. MaximumDegree(graph, S) \in Nat
    BY <1>2, ResidualDegrees
  <2>2. degree \in 0..MaximumDegree(graph, S)
    BY <2>1
  <2> QED
    BY <1>2, <2>2, CompletionExceedsSound
<1> QED
  BY <1>2, <1>8, <1>9, <1>10 DEF KnownFacts

-----------------------------------------------------------------------------
(* The cache.                                                                 *)

Caches(g) ==
    [mode : {"cross"}, failed : UNION {[D -> Int] : D \in SUBSET (SUBSET Vertices(g))},
     hand : {0}, saturated : BOOLEAN, pages : {<< >>}]

SoundCaches(g) ==
    {c \in Caches(g) : \A key \in DOMAIN c.failed : Completion(g, key) > c.failed[key]}

LEMMA MaxPair ==
    ASSUME NEW a \in Int, NEW b \in Int
    PROVE  Max({a, b}) \in {a, b}
<1>1. IsFiniteSet({a, b})
  BY PairFinite
<1> QED
  BY <1>1, MaxIs

EmptyOf(e, n) == [mode |-> "cross", failed |-> e, hand |-> 0, saturated |-> FALSE, pages |-> n]

CacheSet(X, n) == [mode : {"cross"}, failed : X, hand : {0}, saturated : BOOLEAN, pages : {n}]

LEMMA EmptyCache ==
    ASSUME NEW X, NEW e \in X, NEW n
    PROVE  EmptyOf(e, n) \in CacheSet(X, n) /\ EmptyOf(e, n).failed = e
BY DEF EmptyOf, CacheSet

LEMMA NewCacheSound ==
    ASSUME NEW g
    PROVE  NewCache("cross") \in SoundCaches(g)
<1> PICK X : X = UNION {[D -> Int] : D \in SUBSET (SUBSET Vertices(g))}  OBVIOUS
<1>1. << >> \in X /\ DOMAIN << >> = {}
  <2>1. << >> \in [{} -> Int] /\ DOMAIN << >> = {}
    OBVIOUS
  <2> QED
    BY <2>1
<1>2. NewCache("cross") = EmptyOf(<< >>, << >>)
  BY DEF NewCache, EmptyOf
<1>3. Caches(g) = CacheSet(X, << >>)
  BY DEF Caches, CacheSet
<1>4. NewCache("cross") \in Caches(g) /\ NewCache("cross").failed = << >>
  <2> PICK n : n = << >>  OBVIOUS
  <2>1. n \in X
    BY <1>1
  <2>2. EmptyOf(n, n) \in CacheSet(X, n) /\ EmptyOf(n, n).failed = n
    BY <2>1, EmptyCache
  <2>3. NewCache("cross") = EmptyOf(n, n) /\ Caches(g) = CacheSet(X, n)
    BY <1>2, <1>3
  <2> QED
    BY <2>2, <2>3
<1> QED
  BY <1>1, <1>4 DEF SoundCaches

LEMMA StrengthenedSound ==
    ASSUME NEW g, IsSimple(g), NEW c \in SoundCaches(g), NEW key \in SUBSET Vertices(g),
           NEW t \in Int, Completion(g, key) > t
    PROVE  Strengthened(c, key, t) \in SoundCaches(g)
<1>1. c \in Caches(g) /\ \A x \in DOMAIN c.failed : Completion(g, x) > c.failed[x]
  BY DEF SoundCaches
<1>2. PICK D \in SUBSET (SUBSET Vertices(g)) : c.failed \in [D -> Int]
  BY <1>1 DEF Caches
<1>3. ASSUME NEW E \in SUBSET (SUBSET Vertices(g)), NEW f \in [E -> Int],
             \A x \in E : Completion(g, x) > f[x]
      PROVE  [c EXCEPT !.failed = f] \in SoundCaches(g)
  <2>1. f \in UNION {[D1 -> Int] : D1 \in SUBSET (SUBSET Vertices(g))}
    OBVIOUS
  <2>2. [c EXCEPT !.failed = f] \in Caches(g) /\ [c EXCEPT !.failed = f].failed = f
    BY <1>1, <2>1 DEF Caches
  <2> QED
    BY <1>3, <2>2 DEF SoundCaches
<1>4. CASE key \in DOMAIN c.failed
  <2> PICK m : m = Max({c.failed[key], t})  OBVIOUS
  <2>1. m \in Int /\ Completion(g, key) > m
    <3>1. c.failed[key] \in Int /\ Completion(g, key) > c.failed[key]
      BY <1>1, <1>2, <1>4
    <3>2. m \in {c.failed[key], t}
      BY <3>1, MaxPair
    <3> QED
      BY <3>1, <3>2
  <2> PICK f : f = [c.failed EXCEPT ![key] = m]  OBVIOUS
  <2>2. f \in [D -> Int] /\ \A x \in D : Completion(g, x) > f[x]
    BY <1>1, <1>2, <1>4, <2>1
  <2>3. [c EXCEPT !.failed = f] \in SoundCaches(g)
    BY <1>3, <2>2
  <2>4. Strengthened(c, key, t) = [c EXCEPT !.failed = f]
    BY <1>4 DEF Strengthened
  <2> QED
    BY <2>3, <2>4
<1>5. CASE key \notin DOMAIN c.failed /\ BelowLimit(c)
  <2> PICK E : E = D \cup {key}  OBVIOUS
  <2> PICK f : f = [x \in E |-> IF x = key THEN t ELSE c.failed[x]]  OBVIOUS
  <2>1. E \in SUBSET (SUBSET Vertices(g)) /\ f \in [E -> Int]
    BY <1>2
  <2>2. \A x \in E : Completion(g, x) > f[x]
    BY <1>1, <1>2
  <2>3. [c EXCEPT !.failed = f] \in SoundCaches(g)
    BY <1>3, <2>1, <2>2
  <2>4. Strengthened(c, key, t) = [c EXCEPT !.failed = f]
    BY <1>2, <1>5 DEF Strengthened
  <2> QED
    BY <2>3, <2>4
<1>6. CASE key \notin DOMAIN c.failed /\ ~BelowLimit(c)
  <2>1. Strengthened(c, key, t) = [c EXCEPT !.saturated = TRUE]
    BY <1>6 DEF Strengthened
  <2>2. [c EXCEPT !.saturated = TRUE] \in Caches(g) /\ [c EXCEPT !.saturated = TRUE].failed = c.failed
    BY <1>1 DEF Caches
  <2> QED
    BY <1>1, <2>1, <2>2 DEF SoundCaches
<1> QED
  BY <1>4, <1>5, <1>6

LEMMA RecordAtSound ==
    ASSUME NEW g, IsSimple(g), NEW c \in SoundCaches(g), NEW key \in SUBSET Vertices(g),
           NEW t \in Int, Completion(g, key) > t
    PROVE  RecordAt(c, key, t) \in SoundCaches(g)
<1>1. c.mode = "cross"
  BY DEF SoundCaches, Caches
<1>2. Recorded(c, key, t) \in SoundCaches(g)
  BY <1>1, StrengthenedSound DEF Recorded
<1> QED
  BY <1>2 DEF RecordAt

(* A bound above the threshold that some completion attains.                  *)
LEMMA RecordThroughSound ==
    ASSUME NEW g, IsSimple(g), NEW c \in SoundCaches(g), NEW key \in SUBSET Vertices(g),
           k \in Nat, NEW bound \in Nat, bound > k, bound <= Completion(g, key)
    PROVE  RecordThrough(c, key, bound) \in SoundCaches(g)
<1>0. Completion(g, key) \in Nat
  BY FitsStep
<1> PICK b : b = bound - 1  OBVIOUS
<1>1. b \in Int /\ Completion(g, key) > b /\ Completion(g, key) > k /\ k \in Int
  BY <1>0
<1> PICK d : d = RecordAt(c, key, b)  OBVIOUS
<1>2. d \in SoundCaches(g)
  BY <1>1, RecordAtSound
<1>3. RecordAt(d, key, k) \in SoundCaches(g)
  BY <1>1, <1>2, RecordAtSound
<1> QED
  BY <1>2, <1>3 DEF RecordThrough

LEMMA ProvesSound ==
    ASSUME NEW g, IsSimple(g), NEW c \in SoundCaches(g), NEW key \in SUBSET Vertices(g),
           NEW t \in Int, Proves(c, key, t)
    PROVE  ~Fits(g, t, key)
<1>1. c.mode = "cross" /\ key \in DOMAIN c.failed /\ t <= c.failed[key]
  BY DEF SoundCaches, Caches, Proves
<1>2. c.failed[key] \in Int /\ Completion(g, key) > c.failed[key]
  BY <1>1 DEF SoundCaches, Caches
<1>3. Completion(g, key) \in Nat
  BY FitsStep
<1> QED
  BY <1>1, <1>2, <1>3 DEF Fits

(* The fold over the refuted children.                                        *)
RefuteAt(q, s, x) ==
    IF s = {} THEN cache
    ELSE RecordThrough(x[s \ {Pick(s)}], Placed(q) \cup {Pick(s).vertex}, ChildBound(q, Pick(s).vertex))

RefuteFn(q, S) == CHOOSE x : x = [s \in SUBSET S |-> RefuteAt(q, s, x)]

LEMMA RefutedIs == \A q, S : ChildrenRefuted(q, S) = RefuteFn(q, S)[S]
BY DEF ChildrenRefuted, FoldSet, MapThenFoldSet, RefuteFn, RefuteAt, Pick

LEMMA ChildrenRefutedSound ==
    ASSUME NEW g, IsSimple(g), k \in Nat, cache \in SoundCaches(g), NEW q, NEW S,
           IsFiniteSet(S),
           \A c \in S : /\ Placed(q) \cup {c.vertex} \in SUBSET Vertices(g)
                        /\ ChildBound(q, c.vertex) \in Nat /\ ChildBound(q, c.vertex) > k
                        /\ ChildBound(q, c.vertex) <= Completion(g, Placed(q) \cup {c.vertex})
    PROVE  ChildrenRefuted(q, S) \in SoundCaches(g)
<1>. DEFINE X == SUBSET S
            V == SoundCaches(g)
            rank == [s \in X |-> Cardinality(s)]
            D == [s \in X |-> [x \in [X -> V] |-> RefuteAt(q, s, x)]]
<1>1. Cardinality(S) \in Nat
  BY FS_CardinalityType
<1>2. \A s \in X : rank[s] \in 0..Cardinality(S)
  <2>. SUFFICES ASSUME NEW s \in X PROVE rank[s] \in 0..Cardinality(S)
    OBVIOUS
  <2>1. IsFiniteSet(s) /\ Cardinality(s) <= Cardinality(S)
    BY FS_Subset
  <2>2. Cardinality(s) \in Nat
    BY <2>1, FS_CardinalityType
  <2>. QED BY <1>1, <2>1, <2>2
<1>3. ASSUME NEW s \in X, s # {}, NEW x, x[s \ {Pick(s)}] \in V
      PROVE  RefuteAt(q, s, x) \in V
  <2> PICK c : c = Pick(s)  OBVIOUS
  <2>1. c \in S
    BY <1>3, PickIn
  <2> PICK key : key = Placed(q) \cup {c.vertex}  OBVIOUS
  <2> PICK b : b = ChildBound(q, c.vertex)  OBVIOUS
  <2> PICK d : d = x[s \ {c}]  OBVIOUS
  <2>2. key \in SUBSET Vertices(g) /\ b \in Nat /\ b > k /\ b <= Completion(g, key) /\ d \in SoundCaches(g)
    BY <1>3, <2>1
  <2>3. RecordThrough(d, key, b) \in SoundCaches(g)
    BY <2>2, RecordThroughSound
  <2>4. RefuteAt(q, s, x) = RecordThrough(d, key, b)
    BY <1>3 DEF RefuteAt
  <2>. QED BY <2>3, <2>4
<1>4. \A s \in X, x \in [X -> V] : RefuteAt(q, s, x) \in V
  <2>. SUFFICES ASSUME NEW s \in X, NEW x \in [X -> V] PROVE RefuteAt(q, s, x) \in V
    OBVIOUS
  <2>1. CASE s = {}
    BY <2>1 DEF RefuteAt
  <2>2. CASE s # {}
    <3>1. s \ {Pick(s)} \in X
      OBVIOUS
    <3>2. x[s \ {Pick(s)}] \in V
      <4>. HIDE DEF X, V
      <4>. QED BY <3>1
    <3>. QED BY <1>3, <2>2, <3>2
  <2>. QED BY <2>1, <2>2
<1>5. ASSUME NEW s \in X, NEW x \in [X -> V], NEW y \in [X -> V],
             \A t \in X : rank[t] < rank[s] => x[t] = y[t]
      PROVE  RefuteAt(q, s, x) = RefuteAt(q, s, y)
  <2>1. CASE s = {}
    BY <2>1 DEF RefuteAt
  <2>2. CASE s # {}
    <3>1. Pick(s) \in s
      BY <2>2, PickIn
    <3>2. s \ {Pick(s)} \in X
      OBVIOUS
    <3>3. IsFiniteSet(s) /\ Cardinality(s \ {Pick(s)}) = Cardinality(s) - 1
      BY <3>1, FS_Subset, FS_RemoveElement
    <3>4. Cardinality(s) \in Nat
      BY <3>3, FS_CardinalityType
    <3>5. x[s \ {Pick(s)}] = y[s \ {Pick(s)}]
      <4>1. rank[s \ {Pick(s)}] < rank[s]
        BY <3>2, <3>3, <3>4
      <4>. HIDE DEF rank
      <4>. QED BY <1>5, <3>2, <4>1
    <3>. QED BY <2>2, <3>5 DEF RefuteAt
  <2>. QED BY <2>1, <2>2
<1>6. Ranked(X, V, rank, Cardinality(S), D)
  <2>1. \A s \in X : \A x \in [X -> V] : D[s][x] \in V
    BY <1>4
  <2>2. \A s \in X : \A x, y \in [X -> V] : (\A t \in X : rank[t] < rank[s] => x[t] = y[t]) => D[s][x] = D[s][y]
    <3>. HIDE DEF rank, V, X
    <3>1. \A s \in X : \A x, y \in [X -> V] : (\A t \in X : rank[t] < rank[s] => x[t] = y[t])
              => RefuteAt(q, s, x) = RefuteAt(q, s, y)
      BY <1>5
    <3>. QED BY <3>1
  <2>. HIDE DEF X, V, rank, D
  <2>. QED BY <1>2, <2>1, <2>2 DEF Ranked
<1>7. PICK f \in [X -> V] : \A s \in X : f[s] = D[s][f]
  <2>1. V # {}
    OBVIOUS
  <2>. HIDE DEF X, V, rank, D
  <2>. QED BY <1>1, <1>6, <2>1, RankedRecursion
<1>8. f = [s \in X |-> RefuteAt(q, s, f)]
  BY <1>7
<1>. DEFINE h == RefuteFn(q, S)
<1>9. h = [s \in X |-> RefuteAt(q, s, h)]
  BY <1>8 DEF RefuteFn
<1>. HIDE DEF h
<1>10. \A s \in X : h[s] = RefuteAt(q, s, h)
  BY <1>9
<1>11. \A s \in X : h[s] \in V
  <2>. DEFINE B == {s \in X : h[s] \notin V}
  <2>. SUFFICES ASSUME B # {} PROVE FALSE
    OBVIOUS
  <2>1. PICK s \in B : \A t \in SUBSET s : t # s => t \notin B
    <3>1. B \in SUBSET (SUBSET S)
      OBVIOUS
    <3>. HIDE DEF B
    <3>. QED BY <3>1, MinimalSet
  <2>2. s \in X /\ h[s] \notin V /\ h[s] = RefuteAt(q, s, h)
    BY <1>10, <2>1
  <2>3. CASE s = {}
    BY <2>2, <2>3 DEF RefuteAt
  <2>4. CASE s # {}
    <3>1. Pick(s) \in s
      BY <2>4, PickIn
    <3>2. h[s \ {Pick(s)}] \in V
      BY <2>1, <2>2, <3>1
    <3>. HIDE DEF V
    <3>. QED BY <1>3, <2>2, <2>4, <3>2
  <2>. QED BY <2>3, <2>4
<1>12. h[S] \in SoundCaches(g)
  BY <1>11
<1>. QED BY <1>12, RefutedIs DEF h

-----------------------------------------------------------------------------
(* The tasks.                                                                 *)

TaskOk(g, t, task) ==
    /\ Within(g, t, task.path)
    /\ task.cut = Cut(g, ToSet(task.path))

TasksOk(g, t, ts) ==
    /\ Len(ts) \in Nat /\ (ts # << >> => Len(ts) > 0) /\ (Len(ts) > 0 => ts # << >>)
    /\ \A i \in 1..Len(ts) : TaskOk(g, t, ts[i])
    /\ Fits(g, t, {}) => \E i \in 1..Len(ts) : Fits(g, t, ToSet(ts[i].path))

LEMMA NoPath ==
    ASSUME NEW g, IsSimple(g), NEW t \in Nat
    PROVE  Within(g, t, << >>) /\ ToSet(<< >>) = {} /\ Cut(g, {}) = 0
<1>2. Cut(g, {}) = 0
  BY CutEnds
<1>0. PICK e : e = << >>  OBVIOUS
<1>1. IsPath(g, e) /\ ToSet(e) = {} /\ First(e, 0) = {} /\ Len(e) = 0
  BY <1>0 DEF IsPath, First, ToSet
<1>3. \A i \in 0..Len(e) : i = 0
  BY <1>1
<1>4. \A i \in 0..Len(e) : Cut(g, First(e, i)) <= t
  <2>1. 0 <= t
    OBVIOUS
  <2> QED
    BY ONLY <1>1, <1>2, <1>3, <2>1
<1>5. Within(g, t, e)
  BY <1>1, <1>4 DEF Within
<1> QED
  BY <1>0, <1>1, <1>2, <1>5

LEMMA OnePath ==
    ASSUME NEW g, IsSimple(g), NEW t \in Nat, NEW v \in Vertices(g), Degree(g, v) <= t
    PROVE  /\ Within(g, t, <<v>>) /\ ToSet(<<v>>) = {v} /\ Cut(g, {v}) = Degree(g, v)
           /\ Cut(g, {v}) \in Nat
<1>1. {} \cup {v} = {v} /\ {} \in SUBSET Vertices(g) /\ v \in Vertices(g) \ {} /\ g[v] \cap {} = {}
  OBVIOUS
<1>2. Cut(g, {v}) = Degree(g, v) /\ Degree(g, v) \in Nat
  <2>1. /\ Cut(g, {} \cup {v}) = Cut(g, {}) + Degree(g, v) - 2 * Cardinality(g[v] \cap {})
        /\ Degree(g, v) \in Nat
    BY <1>1, CutStep
  <2>2. Cut(g, {}) = 0 /\ Cardinality(g[v] \cap {}) = 0
    BY <1>1, CutEnds, FS_EmptySet
  <2> QED
    BY <1>1, <2>1, <2>2
<1>0. PICK e : e = << >>  OBVIOUS
<1>3. Within(g, t, e) /\ ToSet(e) = {}
  BY <1>0, NoPath
<1>9. PICK r : r = Append(e, v)  OBVIOUS
<1>4. Within(g, t, r)
  <2>0. ToSet(e) = {}
    BY <1>3
  <2>1. Within(g, t, e) /\ v \in Vertices(g) \ ToSet(e) /\ ToSet(e) \cup {v} = {v}
    BY <1>3, <2>0
  <2>2. Cut(g, ToSet(e) \cup {v}) <= t
    BY <1>2, <2>1
  <2> QED
    BY <1>9, <2>1, <2>2, WithinAppend
<1>5. r = <<v>>
  BY <1>0, <1>9
<1>6. ToSet(<<v>>) = {v}
  BY DEF ToSet
<1> QED
  BY <1>2, <1>4, <1>5, <1>6

LEMMA TwoPath ==
    ASSUME NEW g, IsSimple(g), NEW t \in Nat, NEW v \in Vertices(g), Degree(g, v) <= t,
           NEW u \in Vertices(g) \ {v}, Cut(g, {v, u}) <= t
    PROVE  Within(g, t, <<v, u>>) /\ ToSet(<<v, u>>) = {v, u}
<1>0. PICK p : p = <<v>>  OBVIOUS
<1>9. PICK r : r = Append(p, u)  OBVIOUS
<1>1. Within(g, t, p) /\ ToSet(p) = {v}
  BY <1>0, OnePath
<1>2. ToSet(p) \cup {u} = {v, u} /\ u \in Vertices(g) \ ToSet(p)
  BY <1>1
<1>3. Cut(g, ToSet(p) \cup {u}) <= t
  BY <1>2
<1>4. Within(g, t, r)
  BY <1>1, <1>2, <1>3, <1>9, WithinAppend
<1>5. r = <<v, u>>
  <2>1. r = [i \in 1..2 |-> IF i = 1 THEN v ELSE u]
    BY <1>0, <1>9
  <2>2. <<v, u>> = [i \in 1..2 |-> IF i = 1 THEN v ELSE u]
    OBVIOUS
  <2> QED
    BY <2>1, <2>2
<1>6. ToSet(<<v, u>>) = {v, u}
  BY DEF ToSet
<1> QED
  BY <1>4, <1>5, <1>6

(* A root that fits: its neighbours are no more than the threshold.            *)
LEMMA RootFits ==
    ASSUME NEW g, IsSimple(g), NEW t \in Nat, NEW earlier, Dropped(g, earlier),
           Vertices(g) # {}, Fits(g, t, {})
    PROVE  \E v \in Roots(g, t, earlier) : Fits(g, t, {v})
<1>1. PICK v \in Vertices(g) \ {} : ~TwinBlocked(earlier, {}, v) /\ Fits(g, t, {} \cup {v})
  BY FreeChild
<1>2. {} \cup {v} = {v} /\ {v} \in SUBSET Vertices(g) /\ g[v] \cap {} = {}
  OBVIOUS
<1>3. Cut(g, {v}) <= t
  BY <1>1, <1>2, FitsStep
<1>4. Cut(g, {v}) = Degree(g, v)
  <2>1. /\ Cut(g, {} \cup {v}) = Cut(g, {}) + Degree(g, v) - 2 * Cardinality(g[v] \cap {})
        /\ Degree(g, v) \in Nat
    BY <1>1, CutStep
  <2>2. Cut(g, {}) = 0 /\ Cardinality(g[v] \cap {}) = 0
    BY <1>2, CutEnds, FS_EmptySet
  <2> QED
    BY <1>2, <2>1, <2>2
<1>5. v \in Roots(g, t, earlier)
  BY <1>1, <1>3, <1>4 DEF Roots, TwinBlocked
<1> QED
  BY <1>1, <1>2, <1>5

LEMMA RootTasksCover ==
    ASSUME NEW g, IsSimple(g), NEW t \in Nat, NEW o, Dropped(g, o.earlier), Vertices(g) # {}
    PROVE  TasksOk(g, t, RootTasksOf(g, t, o))
<1> DEFINE S == Roots(g, t, o.earlier)
           R == {p \in S \X S : p[1] < p[2]}
<1> PICK s : s = InOrder(R, S)  OBVIOUS
<1>1. S \subseteq Vertices(g) /\ S \subseteq Nat /\ IsFiniteSet(S) /\ \A v \in S : Degree(g, v) <= t
  <2>1. S \subseteq Vertices(g) /\ \A v \in S : Degree(g, v) <= t
    BY DEF Roots
  <2> QED
    BY <2>1, SimpleFacts
<1>2. s = InOrder(R, S)
  OBVIOUS
<1>3. s \in Seq(S) /\ Len(s) = Cardinality(S) /\ ToSet(s) = S
  <2> HIDE DEF S
  <2>1. \A x, y \in S : <<x, y>> \in R <=> x < y
    OBVIOUS
  <2> HIDE DEF R
  <2>2. \A x \in S : x \in Nat
    BY <1>1
  <2>3. StrictlyOrders(R, S)
    BY <2>1, <2>2 DEF StrictlyOrders
  <2> QED
    BY <1>1, <1>2, <2>3, OrderedSet
<1> PICK n : n = Cardinality(S)  OBVIOUS
<1>4. n \in Nat /\ \A i \in 1..n : s[i] \in S
  <2> HIDE DEF S, R
  <2>1. Len(s) \in Nat /\ \A i \in 1..Len(s) : s[i] \in S
    BY ONLY <1>3
  <2> QED
    BY <1>3, <2>1
<1> PICK ts : ts = RootTasksOf(g, t, o)  OBVIOUS
<1>5. ts = [i \in 1..n |-> [path |-> <<s[i]>>, cut |-> Degree(g, s[i])]]
  BY DEF RootTasksOf, Sorted
<1>6. Len(ts) = n /\ (n = 0 <=> ts = << >>)
  BY <1>4, <1>5
<1>7. ASSUME NEW i \in 1..n PROVE TaskOk(g, t, ts[i]) /\ ToSet(ts[i].path) = {s[i]}
  <2>1. ts[i].path = <<s[i]>> /\ ts[i].cut = Degree(g, s[i])
    BY <1>5
  <2> PICK v : v = s[i]  OBVIOUS
  <2>2. v \in Vertices(g) /\ Degree(g, v) <= t
    BY <1>1, <1>4
  <2>3. Within(g, t, <<v>>) /\ ToSet(<<v>>) = {v} /\ Cut(g, {v}) = Degree(g, v)
    BY <2>2, OnePath
  <2> QED
    BY <2>1, <2>3 DEF TaskOk
<1>8. ASSUME Fits(g, t, {}) PROVE \E i \in 1..n : Fits(g, t, ToSet(ts[i].path))
  <2>1. PICK v \in S : Fits(g, t, {v})
    BY <1>8, RootFits
  <2>2. PICK i \in 1..n : s[i] = v
    BY <1>3 DEF ToSet
  <2> QED
    BY <1>7, <2>1, <2>2
<1> QED
  BY <1>4, <1>6, <1>7, <1>8 DEF TasksOk

(* The order of the pairs.                                                    *)
PairCut(g, p) == Cut(g, {p[1], p[2]})
PairBefore(g, f, p, q) ==
    IF PairCut(g, p) # PairCut(g, q) THEN (PairCut(g, p) > PairCut(g, q)) = f
    ELSE p[1] < q[1] \/ (p[1] = q[1] /\ p[2] < q[2])
PairOrder(g, f, S) == {x \in S \X S : PairBefore(g, f, x[1], x[2])}

LEMMA PairsOrdered ==
    ASSUME NEW g, IsSimple(g), NEW f \in BOOLEAN, NEW S,
           S \subseteq Vertices(g) \X Vertices(g)
    PROVE  IsFiniteSet(S) /\ StrictlyOrders(PairOrder(g, f, S), S)
<1> PICK V : V = Vertices(g)  OBVIOUS
<1>1. IsFiniteSet(V) /\ V \subseteq Nat
  BY SimpleFacts
<1>2. IsFiniteSet(S)
  BY <1>1, FS_Product, FS_Subset
<1>3. \A p \in S : /\ p = <<p[1], p[2]>> /\ p[1] \in Nat /\ p[2] \in Nat /\ PairCut(g, p) \in Nat
  <2> SUFFICES ASSUME NEW p \in S
               PROVE  p = <<p[1], p[2]>> /\ p[1] \in Nat /\ p[2] \in Nat /\ PairCut(g, p) \in Nat
    OBVIOUS
  <2>1. p = <<p[1], p[2]>> /\ p[1] \in V /\ p[2] \in V
    OBVIOUS
  <2>2. {p[1], p[2]} \in SUBSET Vertices(g)
    BY <2>1
  <2> QED
    BY <1>1, <2>1, <2>2, CutNat DEF PairCut
<1>4. \A p, q \in S : <<p, q>> \in PairOrder(g, f, S) <=> PairBefore(g, f, p, q)
  BY DEF PairOrder
<1>5. \A p, q \in S : PairBefore(g, f, p, q) <=>
          IF PairCut(g, p) # PairCut(g, q) THEN (PairCut(g, p) > PairCut(g, q)) = f
          ELSE p[1] < q[1] \/ (p[1] = q[1] /\ p[2] < q[2])
  BY DEF PairBefore
<1>6. \A p \in S : ~PairBefore(g, f, p, p)
  BY <1>3, <1>5
<1>7. \A p, q \in S : p = q \/ PairBefore(g, f, p, q) \/ PairBefore(g, f, q, p)
  <2> SUFFICES ASSUME NEW p \in S, NEW q \in S, p # q
               PROVE  PairBefore(g, f, p, q) \/ PairBefore(g, f, q, p)
    OBVIOUS
  <2>1. p[1] # q[1] \/ p[2] # q[2]
    BY <1>3
  <2>2. /\ p[1] \in Nat /\ p[2] \in Nat /\ q[1] \in Nat /\ q[2] \in Nat
        /\ PairCut(g, p) \in Nat /\ PairCut(g, q) \in Nat
    BY <1>3
  <2> QED
    BY <1>5, <2>1, <2>2
<1>8. \A p, q, r \in S : PairBefore(g, f, p, q) /\ PairBefore(g, f, q, r) => PairBefore(g, f, p, r)
  <2> SUFFICES ASSUME NEW p \in S, NEW q \in S, NEW r \in S,
                      PairBefore(g, f, p, q), PairBefore(g, f, q, r)
               PROVE  PairBefore(g, f, p, r)
    OBVIOUS
  <2>1. /\ p[1] \in Nat /\ p[2] \in Nat /\ q[1] \in Nat /\ q[2] \in Nat /\ r[1] \in Nat /\ r[2] \in Nat
        /\ PairCut(g, p) \in Nat /\ PairCut(g, q) \in Nat /\ PairCut(g, r) \in Nat
    BY <1>3
  <2>2. CASE f
    <3>1. \A a, b \in S : PairBefore(g, f, a, b) <=>
              IF PairCut(g, a) # PairCut(g, b) THEN PairCut(g, a) > PairCut(g, b)
              ELSE a[1] < b[1] \/ (a[1] = b[1] /\ a[2] < b[2])
      BY <1>5, <2>2
    <3> QED
      BY <2>1, <3>1
  <2>3. CASE ~f
    <3>1. \A a, b \in S : PairBefore(g, f, a, b) <=>
              IF PairCut(g, a) # PairCut(g, b) THEN ~(PairCut(g, a) > PairCut(g, b))
              ELSE a[1] < b[1] \/ (a[1] = b[1] /\ a[2] < b[2])
      <4>1. \A a, b \in S : ((PairCut(g, a) > PairCut(g, b)) = f) <=> ~(PairCut(g, a) > PairCut(g, b))
        BY <1>3, <2>3
      <4> QED
        BY <1>5, <4>1
    <3> QED
      BY <2>1, <3>1
  <2> QED
    BY <2>2, <2>3
<1>9. StrictlyOrders(PairOrder(g, f, S), S)
  BY <1>4, <1>6, <1>7, <1>8 DEF StrictlyOrders
<1> QED
  BY <1>2, <1>9

(* Two vertices that fit lead to a pair that is kept, in one order or the other. *)
LEMMA PairFits ==
    ASSUME NEW g, IsSimple(g), NEW t \in Nat, NEW earlier, Dropped(g, earlier),
           Size(g) > 1, Fits(g, t, {})
    PROVE  \E p \in Pairs(g, t, earlier) : Fits(g, t, {p[1], p[2]})
<1>1. Vertices(g) # {} /\ IsFiniteSet(Vertices(g)) /\ Vertices(g) \subseteq Nat
  BY SimpleFacts, FS_EmptySet DEF Size
<1>2. PICK v \in Roots(g, t, earlier) : Fits(g, t, {v})
  BY <1>1, RootFits
<1>3. v \in Vertices(g)
  BY <1>2 DEF Roots
<1> PICK P : P = {v}  OBVIOUS
<1>4. P # Vertices(g) /\ P \in SUBSET Vertices(g) /\ Fits(g, t, P)
  <2>1. Cardinality(P) = 1
    BY FS_Singleton
  <2> QED
    BY <1>2, <1>3, <2>1 DEF Size
<1>5. PICK u \in Vertices(g) \ {v} : ~TwinBlocked(earlier, {v}, u) /\ Fits(g, t, {v} \cup {u})
  <2>1. \E u \in Vertices(g) \ P : ~TwinBlocked(earlier, P, u) /\ Fits(g, t, P \cup {u})
    BY <1>4, FreeChild
  <2> QED
    BY <2>1
<1>6. {v} \cup {u} = {v, u} /\ {v, u} = {u, v} /\ {v, u} \in SUBSET Vertices(g)
  BY <1>3
<1>7. Cut(g, {v, u}) <= t
  BY <1>5, <1>6, FitsStep
<1>8. earlier[u] \subseteq {v}
  BY <1>5 DEF TwinBlocked
<1>9. CASE ~(u < v /\ u \in Roots(g, t, earlier) /\ earlier[v] \subseteq {u})
  <2> PICK p : p = <<v, u>>  OBVIOUS
  <2>1. p[1] = v /\ p[2] = u /\ p \in Roots(g, t, earlier) \X Vertices(g)
    BY <1>2, <1>5
  <2>2. p \in Pairs(g, t, earlier)
    BY <1>5, <1>7, <1>8, <1>9, <2>1 DEF Pairs
  <2> QED
    BY <1>5, <1>6, <2>1, <2>2
<1>10. CASE u < v /\ u \in Roots(g, t, earlier) /\ earlier[v] \subseteq {u}
  <2> PICK p : p = <<u, v>>  OBVIOUS
  <2>1. p[1] = u /\ p[2] = v /\ p \in Roots(g, t, earlier) \X Vertices(g)
    BY <1>3, <1>10
  <2>2. ~(v < u)
    BY <1>1, <1>3, <1>10
  <2>3. p \in Pairs(g, t, earlier)
    BY <1>5, <1>6, <1>7, <1>10, <2>1, <2>2 DEF Pairs
  <2> QED
    BY <1>5, <1>6, <2>1, <2>3
<1> QED
  BY <1>9, <1>10

LEMMA FrontierIs ==
    \A g, t, o : FrontierTasks(g, t, o) =
        LET s == InOrder(PairOrder(g, o.failFirst, Pairs(g, t, o.earlier)), Pairs(g, t, o.earlier))
        IN  [i \in DOMAIN s |-> [path |-> s[i], cut |-> PairCut(g, s[i])]]
BY DEF FrontierTasks, Sorted, PairOrder, PairBefore, PairCut

LEMMA FrontierCover ==
    ASSUME NEW g, IsSimple(g), NEW t \in Nat, NEW o, Dropped(g, o.earlier), o.failFirst \in BOOLEAN,
           Size(g) > 1
    PROVE  TasksOk(g, t, FrontierTasks(g, t, o))
<1>0. PICK S : S = Pairs(g, t, o.earlier)  OBVIOUS
<1>1. /\ S \subseteq Vertices(g) \X Vertices(g)
      /\ \A p \in S : /\ p[1] \in Vertices(g) /\ p[2] \in Vertices(g) \ {p[1]} /\ p = <<p[1], p[2]>>
                      /\ Degree(g, p[1]) <= t /\ Cut(g, {p[1], p[2]}) <= t
  BY <1>0 DEF Pairs, Roots
<1>2. PICK s : s = InOrder(PairOrder(g, o.failFirst, S), S)  OBVIOUS
<1>3. s \in Seq(S) /\ Len(s) = Cardinality(S) /\ ToSet(s) = S
  BY <1>1, <1>2, PairsOrdered, OrderedSet
<1> PICK n : n = Len(s)  OBVIOUS
<1>4. n \in Nat /\ DOMAIN s = 1..n /\ \A i \in 1..n : s[i] \in S
  BY <1>3
<1>5. PICK ts : ts = FrontierTasks(g, t, o)  OBVIOUS
<1>6. ts = [i \in 1..n |-> [path |-> s[i], cut |-> PairCut(g, s[i])]]
  BY <1>0, <1>2, <1>4, <1>5, FrontierIs
<1>7. Len(ts) = n /\ (n = 0 <=> ts = << >>)
  BY <1>4, <1>6
<1>8. ASSUME NEW i \in 1..n PROVE TaskOk(g, t, ts[i]) /\ ToSet(ts[i].path) = {s[i][1], s[i][2]}
  <2> PICK p : p = s[i]  OBVIOUS
  <2>1. ts[i].path = p /\ ts[i].cut = Cut(g, {p[1], p[2]})
    BY <1>6 DEF PairCut
  <2>2. p \in S
    BY <1>4
  <2>3. PICK v \in Vertices(g), u \in Vertices(g) :
            u # v /\ p = <<v, u>> /\ p[1] = v /\ p[2] = u /\ Degree(g, v) <= t /\ Cut(g, {v, u}) <= t
    BY <1>1, <2>2
  <2>4. Within(g, t, <<v, u>>) /\ ToSet(<<v, u>>) = {v, u}
    BY <2>3, TwoPath
  <2> QED
    BY <2>1, <2>3, <2>4 DEF TaskOk
<1>9. ASSUME Fits(g, t, {}) PROVE \E i \in 1..n : Fits(g, t, ToSet(ts[i].path))
  <2>1. PICK p \in S : Fits(g, t, {p[1], p[2]})
    BY <1>0, <1>9, PairFits
  <2>2. PICK i \in 1..n : s[i] = p
    BY <1>3, <1>4 DEF ToSet
  <2> QED
    BY <1>8, <2>1, <2>2
<1>10. TasksOk(g, t, ts)
  BY <1>4, <1>7, <1>8, <1>9 DEF TasksOk
<1> QED
  BY <1>5, <1>10

LEMMA TasksCover ==
    ASSUME NEW g, IsSimple(g), NEW t \in Nat, NEW o, Dropped(g, o.earlier), o.failFirst \in BOOLEAN,
           Vertices(g) # {}
    PROVE  TasksOk(g, t, TasksOf(g, t, o))
<1>1. CASE o.threads = 1
  <2>0. PICK e : e = << >>  OBVIOUS
  <2>1. PICK task : task = [path |-> e, cut |-> 0]  OBVIOUS
  <2>2. PICK ts : ts = <<task>>  OBVIOUS
  <2>3. TasksOf(g, t, o) = ts
    BY <1>1, <2>0, <2>1, <2>2 DEF TasksOf
  <2>4. TaskOk(g, t, task) /\ ToSet(task.path) = {}
    BY <2>0, <2>1, NoPath DEF TaskOk
  <2>5. Len(ts) = 1 /\ ts[1] = task /\ ts # << >>
    BY <2>2
  <2>6. \A i \in 1..Len(ts) : ts[i] = task
    BY <2>5
  <2>7. TasksOk(g, t, ts)
    <3>1. 1 \in 1..Len(ts) /\ Len(ts) \in Nat /\ Len(ts) > 0
      BY <2>5
    <3>2. \A i \in 1..Len(ts) : TaskOk(g, t, ts[i])
      BY <2>4, <2>6
    <3>3. ToSet(ts[1].path) = {}
      BY <2>4, <2>5
    <3> QED
      BY ONLY <2>5, <3>1, <3>2, <3>3 DEF TasksOk
  <2> QED
    BY <2>3, <2>7
<1>2. CASE o.threads # 1 /\ (o.word64 \/ ~(Size(g) > 1))
  <2>1. TasksOf(g, t, o) = RootTasksOf(g, t, o)
    BY <1>2 DEF TasksOf, Size
  <2> QED
    BY <2>1, RootTasksCover
<1>3. CASE o.threads # 1 /\ ~o.word64 /\ Size(g) > 1
  <2>1. TasksOf(g, t, o) = FrontierTasks(g, t, o)
    BY <1>3 DEF TasksOf, Size
  <2> QED
    BY <1>3, <2>1, FrontierCover
<1> QED
  BY <1>1, <1>2, <1>3

-----------------------------------------------------------------------------
(* The frames of a search below its task.                                     *)

FrameSet(g) ==
    [cut : Nat, incoming : Vertices(g) \cup {NoSearch}, entered : BOOLEAN, next : Nat \ {0},
     cands : Seq([vertex : Vertices(g), cut : Nat])]

(* The set a frame has placed.                                                *)
Span(p, fs, i) == First(p, Len(p) - Len(fs) + i)

FrameOk(g, t, tw, f, P) ==
    /\ f.cut = Cut(g, P)
    /\ ~f.entered => f.next = 1
    /\ f.entered => /\ f.cands \in Seq(ChildSet(g, P, tw, t))
                    /\ f.next <= Len(f.cands) + 1

OpenChild(g, t, f, P) == \E j \in f.next..Len(f.cands) : Fits(g, t, P \cup {f.cands[j].vertex})

Covers(g, t, f, P) == f.entered /\ Fits(g, t, P) => OpenChild(g, t, f, P)

(* A prefix that fits has a child that does, among those that are left or the   *)
(* one that is being searched.                                                *)
Follows(g, t, p, fs, i) ==
    /\ fs[i].entered
    /\ Fits(g, t, Span(p, fs, i)) =>
          OpenChild(g, t, fs[i], Span(p, fs, i)) \/ Fits(g, t, Span(p, fs, i + 1))

Stacked(g, t, tw, p, fs) ==
    /\ Within(g, t, p)
    /\ fs \in Seq(FrameSet(g)) /\ Len(fs) \in 1..(Len(p) + 1)
    /\ \A i \in 1..Len(fs) : FrameOk(g, t, tw, fs[i], Span(p, fs, i))
    /\ fs[1].incoming = NoSearch
    /\ \A i \in 2..Len(fs) : fs[i].incoming = p[Len(p) - Len(fs) + i]
    /\ \A i \in 1..(Len(fs) - 1) : Follows(g, t, p, fs, i)
    /\ Covers(g, t, fs[Len(fs)], ToSet(p))

StackFacts(g, p, fs) ==
    /\ IsPath(g, p) /\ Len(p) \in Nat /\ Len(fs) \in Nat
    /\ Len(fs) >= 1 /\ Len(fs) <= Len(p) + 1
    /\ DOMAIN fs = 1..Len(fs) /\ \A i \in 1..Len(fs) : fs[i] \in FrameSet(g)
    /\ Span(p, fs, Len(fs)) = ToSet(p) /\ ToSet(p) \in SUBSET Vertices(g)
    /\ \A i \in 1..Len(fs) : Len(p) - Len(fs) + i \in 0..Len(p)

LEMMA StackIs ==
    ASSUME NEW g, IsSimple(g), NEW t, NEW tw, NEW p, NEW fs, Stacked(g, t, tw, p, fs)
    PROVE  StackFacts(g, p, fs)
<1>1. /\ IsPath(g, p) /\ fs \in Seq(FrameSet(g)) /\ Len(fs) \in 1..(Len(p) + 1)
  BY DEF Stacked, Within
<1>2. Len(p) \in Nat /\ ToSet(p) = First(p, Len(p)) /\ ToSet(p) \in SUBSET Vertices(g)
  BY <1>1, PathFacts
<1>3. Len(fs) \in Nat /\ DOMAIN fs = 1..Len(fs) /\ \A i \in 1..Len(fs) : fs[i] \in FrameSet(g)
  BY <1>1
<1>4. Len(p) - Len(fs) + Len(fs) = Len(p)
  BY <1>2, <1>3
<1>5. \A i \in 1..Len(fs) : Len(p) - Len(fs) + i \in 0..Len(p)
  BY <1>1, <1>2, <1>3
<1> QED
  BY <1>1, <1>2, <1>3, <1>4, <1>5 DEF StackFacts, Span

Popped(g, t, tw, p, fs, r, rs) ==
    /\ Stacked(g, t, tw, r, rs) /\ Len(rs) = Len(fs) - 1 /\ Len(r) = Len(p) - 1
    /\ Span(r, rs, 1) = Span(p, fs, 1)

LEMMA StackPop ==
    ASSUME NEW g, IsSimple(g), NEW t \in Int, NEW tw, NEW p, NEW fs, Stacked(g, t, tw, p, fs),
           Len(fs) > 1, ~Fits(g, t, ToSet(p)), NEW r, r = Front(p), NEW rs, rs = Front(fs)
    PROVE  Popped(g, t, tw, p, fs, r, rs)
<1>1. StackFacts(g, p, fs) /\ Within(g, t, p)
  BY StackIs DEF Stacked
<1> PICK n : n = Len(fs)  OBVIOUS
<1> PICK m : m = Len(p)  OBVIOUS
<1>2. n \in Nat /\ m \in Nat /\ n > 1 /\ n <= m + 1
  BY <1>1 DEF StackFacts
<1>3. rs \in Seq(FrameSet(g)) /\ Len(rs) = n - 1 /\ \A i \in 1..(n - 1) : rs[i] = fs[i]
  <2>1. fs \in Seq(FrameSet(g))
    BY DEF Stacked
  <2>2. rs = SubSeq(fs, 1, n - 1)
    BY DEF Front
  <2> QED
    BY <1>2, <2>1, <2>2
<1>4. Shortened(g, p, r) /\ Within(g, t, r)
  BY <1>1, <1>2, PathFront, WithinFront DEF StackFacts
<1>5. /\ Len(r) = m - 1 /\ \A i \in 0..(m - 1) : First(r, i) = First(p, i)
      /\ \A i \in 1..(m - 1) : r[i] = p[i]
      /\ IsPath(g, r)
  BY <1>4 DEF Shortened
<1>6. \A i \in 1..(n - 1) : Span(r, rs, i) = Span(p, fs, i)
  <2> SUFFICES ASSUME NEW i \in 1..(n - 1) PROVE Span(r, rs, i) = Span(p, fs, i)
    OBVIOUS
  <2> PICK j : j = m - n + i  OBVIOUS
  <2>1. j \in 0..(m - 1) /\ Len(r) - Len(rs) + i = j /\ Len(p) - Len(fs) + i = j
    BY <1>2, <1>3, <1>5
  <2> QED
    BY <1>5, <2>1 DEF Span
<1>7. \A i \in 1..(n - 1) : FrameOk(g, t, tw, rs[i], Span(r, rs, i))
  <2>1. \A i \in 1..(n - 1) : i \in 1..Len(fs)
    BY <1>2
  <2> QED
    BY <1>3, <1>6, <2>1 DEF Stacked
<1>8. rs[1].incoming = NoSearch
  BY <1>2, <1>3 DEF Stacked
<1>9. \A i \in 2..(n - 1) : rs[i].incoming = r[Len(r) - Len(rs) + i]
  <2> SUFFICES ASSUME NEW i \in 2..(n - 1) PROVE rs[i].incoming = r[Len(r) - Len(rs) + i]
    OBVIOUS
  <2> PICK j : j = m - n + i  OBVIOUS
  <2>1. j \in 1..(m - 1) /\ Len(r) - Len(rs) + i = j /\ Len(p) - Len(fs) + i = j
    BY <1>2, <1>3, <1>5
  <2>2. i \in 2..Len(fs) /\ i \in 1..(n - 1)
    BY <1>2
  <2>3. fs[i].incoming = p[j]
    BY <2>1, <2>2 DEF Stacked
  <2> QED
    BY <1>3, <1>5, <2>1, <2>2, <2>3
<1>10. \A i \in 1..(n - 1) : Follows(g, t, p, fs, i)
  BY <1>2 DEF Stacked
<1>11. \A i \in 1..(Len(rs) - 1) : Follows(g, t, r, rs, i)
  <2> SUFFICES ASSUME NEW i \in 1..(Len(rs) - 1) PROVE Follows(g, t, r, rs, i)
    OBVIOUS
  <2>1. i \in 1..(n - 1) /\ i + 1 \in 1..(n - 1)
    BY <1>2, <1>3
  <2>2. rs[i] = fs[i] /\ Span(r, rs, i) = Span(p, fs, i) /\ Span(r, rs, i + 1) = Span(p, fs, i + 1)
    BY <1>3, <1>6, <2>1
  <2> QED
    BY <1>10, <2>1, <2>2 DEF Follows
<1>12. Covers(g, t, rs[Len(rs)], ToSet(r))
  <2> PICK i : i = n - 1  OBVIOUS
  <2>1. i \in 1..(n - 1) /\ Len(rs) = i /\ i + 1 = Len(fs)
    BY <1>2, <1>3
  <2>2. Span(p, fs, i + 1) = ToSet(p)
    BY <1>1, <2>1 DEF StackFacts
  <2>3. Fits(g, t, Span(p, fs, i)) => OpenChild(g, t, fs[i], Span(p, fs, i))
    BY <1>10, <2>1, <2>2 DEF Follows
  <2>4. Span(r, rs, i) = ToSet(r)
    <3>1. ToSet(r) = First(r, Len(r))
      BY <1>5, PathFacts
    <3>2. Len(r) - Len(rs) + i = Len(r)
      BY <1>2, <1>5, <2>1
    <3> QED
      BY <3>1, <3>2 DEF Span
  <2> QED
    BY <1>3, <1>6, <2>1, <2>3, <2>4 DEF Covers
<1>13. Len(rs) \in 1..(Len(r) + 1)
  BY <1>2, <1>3, <1>5
<1>14. Stacked(g, t, tw, r, rs)
  <2>1. \A i \in 1..Len(rs) : FrameOk(g, t, tw, rs[i], Span(r, rs, i))
    BY <1>3, <1>7
  <2>2. \A i \in 2..Len(rs) : rs[i].incoming = r[Len(r) - Len(rs) + i]
    BY <1>3, <1>9
  <2> QED
    BY <1>3, <1>4, <1>8, <1>11, <1>12, <1>13, <2>1, <2>2 DEF Stacked
<1> QED
  BY <1>2, <1>3, <1>5, <1>6, <1>14 DEF Popped

LEMMA NewFrame ==
    ASSUME NEW g, NEW c \in Nat, NEW v \in Vertices(g) \cup {NoSearch}, NEW f, f = Frame(c, v)
    PROVE  f \in FrameSet(g) /\ f.cut = c /\ f.incoming = v /\ ~f.entered /\ f.next = 1
<1>1. PICK e : e = << >>  OBVIOUS
<1>2. e \in Seq([vertex : Vertices(g), cut : Nat])
  BY <1>1
<1>3. f = [cut |-> c, incoming |-> v, entered |-> FALSE, next |-> 1, cands |-> e]
  BY <1>1 DEF Frame
<1> QED
  BY ONLY <1>2, <1>3, c \in Nat, v \in Vertices(g) \cup {NoSearch} DEF FrameSet

LEMMA SeqReplace ==
    ASSUME NEW S, NEW s \in Seq(S), NEW x \in S, NEW n, n = Len(s), n >= 1,
           NEW r, r = [s EXCEPT ![n] = x]
    PROVE  r \in Seq(S) /\ Len(r) = n /\ r[n] = x /\ \A i \in 1..(n - 1) : r[i] = s[i]
<1>1. n \in Nat /\ \A i \in 1..(n - 1) : i # n /\ i \in 1..n
  OBVIOUS
<1> QED
  BY <1>1

LEMMA SeqAppend ==
    ASSUME NEW S, NEW s \in Seq(S), NEW x \in S, NEW n, n = Len(s), NEW r, r = Append(s, x)
    PROVE  r \in Seq(S) /\ Len(r) = n + 1 /\ r[n + 1] = x /\ \A i \in 1..n : r[i] = s[i]
OBVIOUS

(* The top frame changed, the vertex it came by kept.                          *)
Retopped(g, t, tw, p, fs, f, rs) ==
    /\ Stacked(g, t, tw, p, rs) /\ Len(rs) = Len(fs)
    /\ Span(p, rs, 1) = Span(p, fs, 1)

LEMMA StackRetop ==
    ASSUME NEW g, IsSimple(g), NEW t \in Int, NEW tw, NEW p, NEW fs, Stacked(g, t, tw, p, fs),
           NEW f \in FrameSet(g), f.incoming = fs[Len(fs)].incoming,
           FrameOk(g, t, tw, f, ToSet(p)), Covers(g, t, f, ToSet(p)),
           NEW rs, rs = [fs EXCEPT ![Len(fs)] = f]
    PROVE  Retopped(g, t, tw, p, fs, f, rs)
<1>1. StackFacts(g, p, fs)
  BY StackIs
<1> PICK n : n = Len(fs)  OBVIOUS
<1>2. n \in Nat /\ n >= 1 /\ Len(p) \in Nat /\ fs \in Seq(FrameSet(g)) /\ DOMAIN fs = 1..n
  BY <1>1 DEF StackFacts, Stacked
<1>3. rs \in Seq(FrameSet(g)) /\ Len(rs) = n /\ rs[n] = f /\ \A i \in 1..(n - 1) : rs[i] = fs[i]
  BY <1>2, SeqReplace
<1>4. \A i : Span(p, rs, i) = Span(p, fs, i)
  BY <1>3 DEF Span
<1>5. Span(p, fs, n) = ToSet(p)
  BY <1>1 DEF StackFacts
<1>6. \A i \in 1..n : i = n \/ i \in 1..(n - 1)
  BY <1>2
<1>7. \A i \in 1..n : FrameOk(g, t, tw, rs[i], Span(p, rs, i))
  <2>1. \A i \in 1..n : FrameOk(g, t, tw, fs[i], Span(p, fs, i))
    BY DEF Stacked
  <2> QED
    BY <1>3, <1>4, <1>5, <1>6, <2>1
<1>8. rs[1].incoming = NoSearch
  <2>1. fs[1].incoming = NoSearch
    BY DEF Stacked
  <2>2. 1 = n \/ 1 \in 1..(n - 1)
    BY <1>2
  <2> QED
    BY <1>3, <2>1, <2>2
<1>9. \A i \in 2..n : rs[i].incoming = p[Len(p) - n + i]
  <2>1. \A i \in 2..n : fs[i].incoming = p[Len(p) - n + i]
    BY DEF Stacked
  <2>2. \A i \in 2..n : i = n \/ i \in 1..(n - 1)
    BY <1>2
  <2> QED
    BY <1>3, <2>1, <2>2
<1>10. \A i \in 1..(n - 1) : Follows(g, t, p, rs, i)
  <2>1. \A i \in 1..(n - 1) : Follows(g, t, p, fs, i)
    BY DEF Stacked
  <2> QED
    BY <1>3, <1>4, <2>1 DEF Follows
<1>11. Covers(g, t, rs[Len(rs)], ToSet(p))
  BY <1>3
<1>12. Len(rs) \in 1..(Len(p) + 1)
  BY <1>3 DEF Stacked
<1>13. Within(g, t, p)
  BY DEF Stacked
<1>14. Stacked(g, t, tw, p, rs)
  BY <1>3, <1>7, <1>8, <1>9, <1>10, <1>11, <1>12, <1>13 DEF Stacked
<1> QED
  BY <1>3, <1>4, <1>14 DEF Retopped

Pushed(g, t, tw, p, fs, r, rs) ==
    /\ Stacked(g, t, tw, r, rs) /\ Len(rs) = Len(fs) + 1 /\ Len(r) = Len(p) + 1
    /\ Span(r, rs, 1) = Span(p, fs, 1)

(* The search goes on to a child: fs is the stack with the top frame changed,   *)
(* whose remaining children and v are all that can fit.                        *)
LEMMA StackPush ==
    ASSUME NEW g, IsSimple(g), NEW t \in Int, NEW tw, NEW p, NEW fs, Stacked(g, t, tw, p, fs),
           NEW f \in FrameSet(g), f.incoming = fs[Len(fs)].incoming, f.entered,
           FrameOk(g, t, tw, f, ToSet(p)),
           NEW v \in Vertices(g) \ ToSet(p), Cut(g, ToSet(p) \cup {v}) <= t,
           Fits(g, t, ToSet(p)) => OpenChild(g, t, f, ToSet(p)) \/ Fits(g, t, ToSet(p) \cup {v}),
           NEW r, r = Append(p, v),
           NEW new, new = Frame(Cut(g, ToSet(p) \cup {v}), v),
           NEW rs, rs = Append([fs EXCEPT ![Len(fs)] = f], new)
    PROVE  Pushed(g, t, tw, p, fs, r, rs)
<1>1. StackFacts(g, p, fs) /\ Within(g, t, p)
  BY StackIs DEF Stacked
<1> PICK n : n = Len(fs)  OBVIOUS
<1> PICK m : m = Len(p)  OBVIOUS
<1>2. n \in Nat /\ n >= 1 /\ m \in Nat /\ n <= m + 1 /\ fs \in Seq(FrameSet(g)) /\ DOMAIN fs = 1..n
  BY <1>1 DEF StackFacts, Stacked
<1>3. new \in FrameSet(g) /\ new.cut = Cut(g, ToSet(p) \cup {v}) /\ ~new.entered /\ new.next = 1
      /\ new.incoming = v
  <2> PICK c : c = Cut(g, ToSet(p) \cup {v})  OBVIOUS
  <2>2. c \in Nat
    <3>1. ToSet(p) \cup {v} \in SUBSET Vertices(g)
      BY <1>1 DEF StackFacts
    <3> QED
      BY <3>1, CutNat
  <2> QED
    BY <2>2, NewFrame
<1>4. /\ rs \in Seq(FrameSet(g)) /\ Len(rs) = n + 1 /\ rs[n] = f /\ rs[n + 1] = new
      /\ \A i \in 1..(n - 1) : rs[i] = fs[i]
  <2>0. PICK gs : gs = [fs EXCEPT ![n] = f]  OBVIOUS
  <2>1. gs \in Seq(FrameSet(g)) /\ Len(gs) = n /\ gs[n] = f /\ \A i \in 1..(n - 1) : gs[i] = fs[i]
    BY <1>2, <2>0, SeqReplace
  <2>2. rs = Append(gs, new)
    BY <2>0
  <2>3. rs \in Seq(FrameSet(g)) /\ Len(rs) = n + 1 /\ rs[n + 1] = new /\ \A i \in 1..n : rs[i] = gs[i]
    <3>1. gs \in Seq(FrameSet(g)) /\ Len(gs) = n /\ new \in FrameSet(g) /\ rs = Append(gs, new)
      BY <1>3, <2>1, <2>2
    <3> QED
      BY ONLY <3>1, SeqAppend
  <2>4. n \in 1..n /\ \A i \in 1..(n - 1) : i \in 1..n
    BY ONLY <1>2
  <2> QED
    BY ONLY <2>1, <2>3, <2>4
<1>5. Appended(g, p, v, r) /\ Within(g, t, r)
  BY <1>1, PathAppend, WithinAppend DEF StackFacts
<1>6. /\ Len(r) = m + 1 /\ \A i \in 0..m : First(r, i) = First(p, i)
      /\ \A i \in 1..m : r[i] = p[i]
      /\ r[m + 1] = v /\ IsPath(g, r) /\ ToSet(r) = ToSet(p) \cup {v}
  BY <1>5 DEF Appended
<1>7. \A i \in 1..n : Span(r, rs, i) = Span(p, fs, i)
  <2> SUFFICES ASSUME NEW i \in 1..n PROVE Span(r, rs, i) = Span(p, fs, i)
    OBVIOUS
  <2> PICK j : j = m - n + i  OBVIOUS
  <2>1. j \in 0..m /\ Len(r) - Len(rs) + i = j /\ Len(p) - Len(fs) + i = j
    BY <1>2, <1>4, <1>6
  <2> QED
    BY <1>6, <2>1 DEF Span
<1>8. Span(r, rs, n + 1) = ToSet(r) /\ Span(p, fs, n) = ToSet(p)
  <2>1. ToSet(r) = First(r, Len(r))
    BY ZenonT(60), <1>6, PathFacts
  <2>2. Len(r) - Len(rs) + (n + 1) = Len(r)
    BY <1>2, <1>4, <1>6
  <2> QED
    BY <1>1, <2>1, <2>2 DEF StackFacts, Span
<1>9. \A i \in 1..(n + 1) : FrameOk(g, t, tw, rs[i], Span(r, rs, i))
  <2> SUFFICES ASSUME NEW i \in 1..(n + 1) PROVE FrameOk(g, t, tw, rs[i], Span(r, rs, i))
    OBVIOUS
  <2>1. CASE i = n + 1
    BY ONLY <1>3, <1>4, <1>6, <1>8, <2>1 DEF FrameOk
  <2>2. CASE i = n
    <3>1. i \in 1..n
      BY <1>2, <2>2
    <3> QED
      BY <1>4, <1>7, <1>8, <2>2, <3>1
  <2>3. CASE i \in 1..(n - 1)
    <3>1. i \in 1..n
      BY <1>2, <2>3
    <3>2. FrameOk(g, t, tw, fs[i], Span(p, fs, i))
      BY <3>1 DEF Stacked
    <3> QED
      BY <1>4, <1>7, <2>3, <3>1, <3>2
  <2> QED
    BY <1>2, <2>1, <2>2, <2>3
<1>10. rs[1].incoming = NoSearch
  <2>1. fs[1].incoming = NoSearch
    BY DEF Stacked
  <2>2. 1 = n \/ 1 \in 1..(n - 1)
    BY <1>2
  <2> QED
    BY <1>4, <2>1, <2>2
<1>11. \A i \in 2..(n + 1) : rs[i].incoming = r[Len(r) - Len(rs) + i]
  <2> SUFFICES ASSUME NEW i \in 2..(n + 1) PROVE rs[i].incoming = r[Len(r) - Len(rs) + i]
    OBVIOUS
  <2>1. CASE i = n + 1
    <3>1. Len(r) - Len(rs) + i = m + 1
      BY <1>2, <1>4, <1>6, <2>1
    <3> QED
      BY <1>3, <1>4, <1>6, <2>1, <3>1
  <2>2. CASE i # n + 1
    <3> PICK j : j = m - n + i  OBVIOUS
    <3>1. j \in 1..m /\ Len(r) - Len(rs) + i = j /\ Len(p) - Len(fs) + i = j /\ i \in 2..Len(fs)
      BY <1>2, <1>4, <1>6, <2>2
    <3>2. fs[i].incoming = p[j]
      BY <3>1 DEF Stacked
    <3>3. rs[i].incoming = fs[i].incoming
      <4>1. i = n \/ i \in 1..(n - 1)
        BY <1>2, <2>2
      <4> QED
        BY <1>4, <4>1
    <3> QED
      BY <1>6, <3>1, <3>2, <3>3
  <2> QED
    BY <2>1, <2>2
<1>12. \A i \in 1..n : Follows(g, t, r, rs, i)
  <2> SUFFICES ASSUME NEW i \in 1..n PROVE Follows(g, t, r, rs, i)
    OBVIOUS
  <2>1. CASE i = n
    <3>1. Span(r, rs, n) = ToSet(p) /\ Span(r, rs, n + 1) = ToSet(p) \cup {v}
      BY <1>6, <1>7, <1>8, <2>1
    <3> QED
      BY <1>4, <2>1, <3>1 DEF Follows
  <2>2. CASE i # n
    <3>1. i \in 1..(n - 1) /\ i + 1 \in 1..n
      BY <1>2, <2>2
    <3>2. Follows(g, t, p, fs, i)
      BY <3>1 DEF Stacked
    <3>3. Span(r, rs, i) = Span(p, fs, i) /\ Span(r, rs, i + 1) = Span(p, fs, i + 1) /\ rs[i] = fs[i]
      BY <1>4, <1>7, <3>1
    <3> QED
      BY <3>2, <3>3 DEF Follows
  <2> QED
    BY <2>1, <2>2
<1>13. Covers(g, t, rs[Len(rs)], ToSet(r))
  BY <1>3, <1>4 DEF Covers
<1>14. Len(rs) \in 1..(Len(r) + 1) /\ Len(rs) - 1 = n
  BY <1>2, <1>4, <1>6
<1>15. Stacked(g, t, tw, r, rs)
  BY <1>4, <1>5, <1>9, <1>10, <1>11, <1>12, <1>13, <1>14 DEF Stacked
<1>16. 1 \in 1..n /\ Len(rs) = Len(fs) + 1 /\ Len(r) = Len(p) + 1
  BY <1>2, <1>4, <1>6
<1> QED
  BY ONLY <1>7, <1>15, <1>16 DEF Pushed

(* A search of a task starts with one frame.                                  *)
LEMMA StackNew ==
    ASSUME NEW g, IsSimple(g), NEW t \in Int, NEW tw, NEW p, Within(g, t, p),
           NEW f, f = Frame(Cut(g, ToSet(p)), NoSearch), NEW fs, fs = <<f>>
    PROVE  Stacked(g, t, tw, p, fs) /\ Span(p, fs, 1) = ToSet(p) /\ Len(fs) = 1
<1>1. IsPath(g, p)
  BY DEF Within
<1>2. Len(p) \in Nat /\ ToSet(p) = First(p, Len(p)) /\ ToSet(p) \in SUBSET Vertices(g)
  BY <1>1, PathFacts
<1>3. f \in FrameSet(g) /\ f.cut = Cut(g, ToSet(p)) /\ f.incoming = NoSearch /\ ~f.entered /\ f.next = 1
  <2> PICK c : c = Cut(g, ToSet(p))  OBVIOUS
  <2>1. c \in Nat
    BY <1>2, CutNat
  <2> QED
    BY <2>1, NewFrame
<1>4. fs \in Seq(FrameSet(g)) /\ Len(fs) = 1 /\ fs[1] = f
  BY <1>3
<1>5. Span(p, fs, 1) = ToSet(p)
  <2>1. Len(p) - Len(fs) + 1 = Len(p)
    BY <1>2, <1>4
  <2> QED
    BY <1>2, <2>1 DEF Span
<1>6. \A i \in 1..Len(fs) : i = 1
  BY <1>4
<1>7. \A i \in 1..Len(fs) : FrameOk(g, t, tw, fs[i], Span(p, fs, i))
  BY <1>3, <1>4, <1>5, <1>6 DEF FrameOk
<1>8. Covers(g, t, fs[Len(fs)], ToSet(p))
  BY <1>3, <1>4 DEF Covers
<1>9. Len(fs) \in 1..(Len(p) + 1)
  BY <1>2, <1>4
<1>10. /\ \A i \in 2..Len(fs) : fs[i].incoming = p[Len(p) - Len(fs) + i]
       /\ \A i \in 1..(Len(fs) - 1) : Follows(g, t, p, fs, i)
  <2>1. (\A i \in 2..Len(fs) : FALSE) /\ (\A i \in 1..(Len(fs) - 1) : FALSE)
    BY <1>4
  <2> QED
    BY <2>1
<1>11. Stacked(g, t, tw, p, fs)
  BY <1>3, <1>4, <1>7, <1>8, <1>9, <1>10 DEF Stacked
<1> QED
  BY <1>4, <1>5, <1>11

-----------------------------------------------------------------------------
(* A search: its node and its frames.                                         *)

SearchOk(g, t, tw, q) ==
    /\ NodeOk(g, Len(q.path) - Len(q.frames) + 1, TRUE, q)
    /\ "frames" \in DOMAIN q
    /\ Stacked(g, t, tw, q.path, q.frames)

(* The task it searches below.                                                *)
Below(q) == Span(q.path, q.frames, 1)

SearchFacts(g, t, tw, q) ==
    /\ StackFacts(g, q.path, q.frames)
    /\ Placed(q) \in SUBSET Vertices(g) /\ Placed(q) = ToSet(q.path)
    /\ Current(g, q)
    /\ Within(g, t, q.path)
    /\ Top(q) = q.frames[Len(q.frames)] /\ Top(q) \in FrameSet(g)
    /\ FrameOk(g, t, tw, Top(q), Placed(q)) /\ Covers(g, t, Top(q), Placed(q))
    /\ Len(q.frames) = 1 => Below(q) = Placed(q)

LEMMA SearchIs ==
    ASSUME NEW g, IsSimple(g), NEW t, NEW tw, NEW q, SearchOk(g, t, tw, q)
    PROVE  SearchFacts(g, t, tw, q)
<1>1. Stacked(g, t, tw, q.path, q.frames) /\ StackFacts(g, q.path, q.frames)
  BY StackIs DEF SearchOk
<1>2. Current(g, q)
  BY NodeCurrent DEF SearchOk
<1>3. Placed(q) = ToSet(q.path)
  BY DEF Placed
<1>4. Top(q) = q.frames[Len(q.frames)]
  BY DEF Top, Last
<1>5. Len(q.frames) \in 1..Len(q.frames) /\ Span(q.path, q.frames, Len(q.frames)) = ToSet(q.path)
  BY <1>1 DEF StackFacts
<1>6. FrameOk(g, t, tw, Top(q), Placed(q)) /\ Covers(g, t, Top(q), Placed(q))
  BY <1>1, <1>3, <1>4, <1>5 DEF Stacked
<1>7. Top(q) \in FrameSet(g)
  BY <1>1, <1>4, <1>5 DEF StackFacts
<1>8. Len(q.frames) = 1 => Below(q) = Placed(q)
  BY <1>3, <1>5 DEF Below
<1>9. Within(g, t, q.path)
  BY <1>1 DEF Stacked
<1>10. Placed(q) \in SUBSET Vertices(g)
  BY <1>1, <1>3 DEF StackFacts
<1> QED
  BY <1>1, <1>2, <1>3, <1>4, <1>6, <1>7, <1>8, <1>9, <1>10 DEF SearchFacts

(* The search goes on under the same task.                                    *)
GoesOn(g, t, tw, q, r) == SearchOk(g, t, tw, r) /\ Below(r) = Below(q) /\ Len(r.frames) > 0

LEMMA PopLast ==
    ASSUME NEW t, NEW tw, NEW q, IsSimple(graph), SearchOk(graph, t, tw, q), Len(q.frames) = 1
    PROVE  PopFrame(q).frames = << >>
<1>1. SearchFacts(graph, t, tw, q) /\ Stacked(graph, t, tw, q.path, q.frames)
  BY SearchIs DEF SearchOk
<1>2. Top(q).incoming = NoSearch /\ q.frames \in Seq(FrameSet(graph)) /\ "frames" \in DOMAIN q
  BY <1>1 DEF SearchFacts, Stacked, SearchOk
<1>3. PopFrame(q) = [q EXCEPT !.frames = Front(@)]
  BY <1>2 DEF PopFrame
<1>4. Front(q.frames) = << >>
  <2>1. Front(q.frames) = SubSeq(q.frames, 1, 0)
    BY DEF Front
  <2> QED
    BY <1>2, <2>1
<1> QED
  BY <1>2, <1>3, <1>4

LEMMA PopGoesOn ==
    ASSUME NEW t \in Int, NEW tw, NEW q, IsSimple(graph), NoSearch \notin Vertices(graph),
           SearchOk(graph, t, tw, q), Len(q.frames) # 1, ~Fits(graph, t, Placed(q)),
           NEW r, r = PopFrame(q)
    PROVE  GoesOn(graph, t, tw, q, r)
<1>0. PICK g : g = graph  OBVIOUS
<1> PICK p : p = q.path  OBVIOUS
<1> PICK fs : fs = q.frames  OBVIOUS
<1> PICK b : b = Len(p) - Len(fs) + 1  OBVIOUS
<1>1. /\ IsSimple(g) /\ StackFacts(g, p, fs) /\ Stacked(g, t, tw, p, fs) /\ ~Fits(g, t, ToSet(p))
      /\ NodeOk(g, b, TRUE, q) /\ "frames" \in DOMAIN q
  BY <1>0, SearchIs DEF SearchOk, SearchFacts
<1>2. Len(p) \in Nat /\ Len(fs) \in Nat /\ Len(fs) > 1 /\ Len(fs) <= Len(p) + 1 /\ b \in Nat /\ b < Len(p)
  <2>1. Len(p) \in Nat /\ Len(fs) \in Nat /\ Len(fs) >= 1 /\ Len(fs) <= Len(p) + 1 /\ Len(fs) # 1
    BY <1>1 DEF StackFacts
  <2>2. b = Len(p) - Len(fs) + 1
    OBVIOUS
  <2>3. \A x, y \in Nat : \A z : y >= 1 /\ y <= x + 1 /\ y # 1 /\ z = x - y + 1 => y > 1 /\ z \in Nat /\ z < x
    OBVIOUS
  <2> QED
    BY ONLY <2>1, <2>2, <2>3
<1> PICK v : v = p[Len(p)]  OBVIOUS
<1>3. Top(q).incoming = v /\ v # NoSearch
  <2>1. Len(fs) \in 2..Len(fs) /\ Len(p) - Len(fs) + Len(fs) = Len(p)
    BY <1>2
  <2>2. fs[Len(fs)].incoming = v
    BY <1>1, <2>1 DEF Stacked
  <2>3. v \in Vertices(g)
    <3>1. IsPath(g, p) /\ Len(p) \in 1..Len(p)
      BY <1>1, <1>2 DEF StackFacts
    <3> QED
      BY <1>1, <3>1, PathFacts
  <2> QED
    BY <1>0, <2>2, <2>3 DEF Top, Last
<1>4. PICK u : u = Undo(g, q, v)  OBVIOUS
<1>5. Leads(g, b, TRUE, q, u, Front(p))
  BY <1>1, <1>2, <1>4, UndoOk
<1>6. r = [u EXCEPT !.frames = Front(@)]
  BY <1>0, <1>3, <1>4 DEF PopFrame, Pop
<1>7. NodeOk(g, b, TRUE, u) /\ u.path = Front(p) /\ "frames" \in DOMAIN u /\ u.frames = fs /\ IsRecord(u)
      /\ NodeFields \subseteq DOMAIN u
  <2>1. "frames" \in DOMAIN q \ NodeFields
    BY <1>1 DEF NodeFields
  <2> QED
    BY <1>1, <1>5, <2>1 DEF Leads, NodeOk
<1>8. r.frames = Front(fs) /\ "frames" \in DOMAIN r /\ IsRecord(r) /\ DOMAIN r = DOMAIN u
      /\ \A x \in NodeFields : r[x] = u[x]
  BY <1>6, <1>7 DEF NodeFields, IsRecord
<1>9. NodeOk(g, b, TRUE, r) /\ r.path = Front(p)
  <2>1. NodeOk(g, b, TRUE, r)
    BY <1>7, <1>8, NodeSame
  <2>2. "path" \in NodeFields
    BY DEF NodeFields
  <2> QED
    BY <1>7, <1>8, <2>1, <2>2
<1>10. Popped(g, t, tw, p, fs, r.path, r.frames)
  <2> PICK rp : rp = Front(p)  OBVIOUS
  <2> PICK rf : rf = Front(fs)  OBVIOUS
  <2>1. Popped(g, t, tw, p, fs, rp, rf)
    BY <1>1, <1>2, StackPop
  <2> QED
    BY <1>8, <1>9, <2>1
<1>11. Len(r.path) - Len(r.frames) + 1 = b /\ Len(r.frames) > 0
  <2>1. Len(r.frames) = Len(fs) - 1 /\ Len(r.path) = Len(p) - 1
    BY <1>10 DEF Popped
  <2> QED
    BY <1>2, <2>1
<1>12. SearchOk(g, t, tw, r)
  BY <1>8, <1>9, <1>10, <1>11 DEF SearchOk, Popped
<1>13. Below(r) = Below(q)
  BY <1>10 DEF Popped, Below
<1> QED
  BY <1>0, <1>11, <1>12, <1>13 DEF GoesOn

LEMMA ListGoesOn ==
    ASSUME NEW g, IsSimple(g), NEW t \in Int, NEW tw, NEW q, SearchOk(g, t, tw, q), ~Top(q).entered,
           NEW cands \in Seq(ChildSet(g, Placed(q), tw, t)),
           Fits(g, t, Placed(q)) =>
               \E j \in 1..Len(cands) : Fits(g, t, Placed(q) \cup {cands[j].vertex}),
           NEW r, r = Listed(q, cands)
    PROVE  GoesOn(g, t, tw, q, r)
<1> PICK p : p = q.path  OBVIOUS
<1> PICK fs : fs = q.frames  OBVIOUS
<1> PICK n : n = Len(fs)  OBVIOUS
<1> PICK b : b = Len(p) - Len(fs) + 1  OBVIOUS
<1> PICK P : P = ToSet(p)  OBVIOUS
<1> PICK e : e = Top(q)  OBVIOUS
<1>1. /\ StackFacts(g, p, fs) /\ Stacked(g, t, tw, p, fs) /\ NodeOk(g, b, TRUE, q) /\ "frames" \in DOMAIN q
      /\ Placed(q) = P /\ e = fs[n] /\ e \in FrameSet(g) /\ FrameOk(g, t, tw, e, P) /\ P \in SUBSET Vertices(g)
  BY SearchIs DEF SearchOk, SearchFacts
<1>2. n \in Nat /\ n >= 1 /\ Len(p) \in Nat
  BY <1>1 DEF StackFacts
<1>3. PICK f : f = [e EXCEPT !.entered = TRUE, !.cands = cands]  OBVIOUS
<1>4. f.entered /\ f.cands = cands /\ f.next = e.next /\ f.incoming = e.incoming /\ f.cut = e.cut
  BY <1>1, <1>3 DEF FrameSet
<1>5. f \in FrameSet(g)
  <2>1. cands \in Seq([vertex : Vertices(g), cut : Nat])
    <3>1. ChildSet(g, P, tw, t) \subseteq [vertex : Vertices(g), cut : Nat]
      <4> SUFFICES ASSUME NEW c \in ChildSet(g, P, tw, t) PROVE c \in [vertex : Vertices(g), cut : Nat]
        OBVIOUS
      <4>1. c = [vertex |-> c.vertex, cut |-> c.cut] /\ c.vertex \in Vertices(g) \ P /\ c.cut \in Nat
        BY ONLY <1>1, ChildrenFinite, IsSimple(g), c \in ChildSet(g, P, tw, t)
      <4> QED
        BY <4>1
    <3> PICK A : A = ChildSet(g, P, tw, t)  OBVIOUS
    <3> PICK B : B = [vertex : Vertices(g), cut : Nat]  OBVIOUS
    <3>2. cands \in Seq(A) /\ A \subseteq B
      BY <1>1, <3>1
    <3>3. cands \in Seq(B)
      BY ONLY <3>2
    <3> QED
      BY <3>3
  <2> QED
    BY <1>1, <1>3, <2>1 DEF FrameSet
<1>6. e.next = 1
  BY <1>1 DEF FrameOk
<1>7. FrameOk(g, t, tw, f, P)
  <2>1. 1 <= Len(cands) + 1
    OBVIOUS
  <2> QED
    BY <1>1, <1>4, <1>6, <2>1 DEF FrameOk
<1>8. Covers(g, t, f, P)
  BY <1>1, <1>4, <1>6 DEF Covers, OpenChild
<1>9. PICK gs : gs = [fs EXCEPT ![Len(fs)] = f]  OBVIOUS
<1>10. Retopped(g, t, tw, p, fs, f, gs)
  BY <1>1, <1>4, <1>5, <1>7, <1>8, <1>9, StackRetop
<1>11. r.frames = gs /\ IsRecord(r) /\ DOMAIN r = DOMAIN q /\ \A x \in NodeFields : r[x] = q[x]
  <2>1. q.frames[Len(q.frames)] = e /\ IsRecord(q) /\ NodeFields \subseteq DOMAIN q /\ DOMAIN fs = 1..n
    BY <1>1 DEF NodeOk, StackFacts
  <2>2. r = [q EXCEPT !.frames = gs]
    BY <1>1, <1>2, <1>3, <1>9, <2>1 DEF Listed
  <2> QED
    BY <1>1, <2>1, <2>2 DEF NodeFields, IsRecord
<1>12. NodeOk(g, b, TRUE, r) /\ r.path = p
  <2>1. NodeFields \subseteq DOMAIN r /\ "path" \in NodeFields
    BY <1>1, <1>11 DEF NodeOk, NodeFields
  <2>2. NodeOk(g, b, TRUE, r)
    BY <1>1, <1>11, <2>1, NodeSame
  <2> QED
    BY <1>11, <2>1, <2>2
<1>13. SearchOk(g, t, tw, r) /\ Below(r) = Below(q) /\ Len(r.frames) > 0
  <2>1. Stacked(g, t, tw, p, gs) /\ Len(gs) = Len(fs) /\ Span(p, gs, 1) = Span(p, fs, 1)
    BY <1>10 DEF Retopped
  <2>2. r.frames = gs /\ r.path = p /\ "frames" \in DOMAIN r /\ b = Len(p) - Len(fs) + 1 /\ Len(fs) > 0
    BY <1>1, <1>2, <1>11, <1>12
  <2>3. SearchOk(g, t, tw, r)
    BY ONLY <1>12, <2>1, <2>2 DEF SearchOk
  <2>4. Below(r) = Span(p, fs, 1) /\ Below(q) = Span(p, fs, 1) /\ Len(r.frames) > 0
    BY <2>1, <2>2 DEF Below
  <2> QED
    BY ONLY <2>3, <2>4
<1> QED
  BY <1>13 DEF GoesOn


(* The search goes down to a child; those it skips cannot fit.                 *)
LEMMA DescendGoesOn ==
    ASSUME NEW t \in Int, NEW tw, NEW q, IsSimple(graph), SearchOk(graph, t, tw, q), Top(q).entered,
           NEW j \in Top(q).next..Len(Top(q).cands),
           \A i \in Top(q).next..(j - 1) : ~Fits(graph, t, Placed(q) \cup {Top(q).cands[i].vertex}),
           NEW r, r = Descended(q, j)
    PROVE  GoesOn(graph, t, tw, q, r)
<1>0. PICK g : g = graph  OBVIOUS
<1> PICK p : p = q.path  OBVIOUS
<1> PICK fs : fs = q.frames  OBVIOUS
<1> PICK n : n = Len(fs)  OBVIOUS
<1> PICK b : b = Len(p) - Len(fs) + 1  OBVIOUS
<1> PICK P : P = ToSet(p)  OBVIOUS
<1> PICK e : e = Top(q)  OBVIOUS
<1>1. /\ IsSimple(g) /\ StackFacts(g, p, fs) /\ Stacked(g, t, tw, p, fs)
      /\ NodeOk(g, b, TRUE, q) /\ "frames" \in DOMAIN q
      /\ Placed(q) = P /\ e = fs[n] /\ e \in FrameSet(g) /\ FrameOk(g, t, tw, e, P)
      /\ Covers(g, t, e, P) /\ P \in SUBSET Vertices(g)
  BY <1>0, SearchIs DEF SearchOk, SearchFacts
<1>2. n \in Nat /\ n >= 1 /\ Len(p) \in Nat /\ b \in Nat /\ b <= Len(p)
  <2>1. Len(p) \in Nat /\ n \in Nat /\ n >= 1 /\ n <= Len(p) + 1
    BY <1>1 DEF StackFacts
  <2>2. b = Len(p) - n + 1
    OBVIOUS
  <2>3. \A x, y \in Nat : \A z : y >= 1 /\ y <= x + 1 /\ z = x - y + 1 => z \in Nat /\ z <= x
    OBVIOUS
  <2> QED
    BY ONLY <2>1, <2>2, <2>3
<1>3. e.entered /\ e.next \in Nat \ {0} /\ Len(e.cands) \in Nat /\ e.cands \in Seq(ChildSet(g, P, tw, t))
  <2>1. e.cands \in Seq(ChildSet(g, P, tw, t))
    BY <1>1 DEF FrameOk
  <2>2. Len(e.cands) \in Nat
    BY <2>1
  <2> QED
    BY <1>1, <2>1, <2>2 DEF FrameSet
<1>4. j \in Nat /\ e.next <= j /\ j <= Len(e.cands) /\ 1 <= j
  BY <1>3
<1> PICK c : c = e.cands[j]  OBVIOUS
<1> PICK v : v = c.vertex  OBVIOUS
<1>5. v \in Vertices(g) \ P /\ c.cut = Cut(g, P \cup {v}) /\ c.cut \in Nat /\ c.cut <= t
  <2>1. c \in ChildSet(g, P, tw, t)
    BY <1>3, <1>4
  <2> QED
    BY ONLY SMTT(30), <1>1, <2>1, ChildrenFinite, v = c.vertex, t \in Int
<1>6. PICK f : f = [e EXCEPT !.next = j + 1]  OBVIOUS
<1>7. f.entered /\ f.cands = e.cands /\ f.next = j + 1 /\ f.incoming = e.incoming /\ f.cut = e.cut
      /\ f \in FrameSet(g)
  <2>1. j + 1 \in Nat \ {0}
    BY <1>4
  <2> QED
    BY <1>1, <1>3, <1>6, <2>1 DEF FrameSet
<1>8. FrameOk(g, t, tw, f, P)
  <2>1. j + 1 <= Len(e.cands) + 1
    BY <1>3, <1>4
  <2> QED
    BY <1>1, <1>3, <1>7, <2>1 DEF FrameOk
<1>9. Fits(g, t, P) => OpenChild(g, t, f, P) \/ Fits(g, t, P \cup {v})
  <2> SUFFICES ASSUME Fits(g, t, P)  PROVE  OpenChild(g, t, f, P) \/ Fits(g, t, P \cup {v})
    OBVIOUS
  <2>1. PICK i \in e.next..Len(e.cands) : Fits(g, t, P \cup {e.cands[i].vertex})
    BY <1>1, <1>3 DEF Covers, OpenChild
  <2>2. i >= j
    <3>1. i \notin e.next..(j - 1)
      BY <1>0, <1>1, <2>1
    <3>2. i \in Int /\ e.next <= i /\ j \in Int /\ e.next \in Int
      BY <1>3, <1>4
    <3> QED
      BY ONLY <3>1, <3>2
  <2>3. CASE i = j
    BY <2>1, <2>3
  <2>4. CASE i # j
    <3>1. i \in (j + 1)..Len(e.cands)
      BY <1>3, <1>4, <2>2, <2>4
    <3> QED
      BY <1>7, <2>1, <3>1 DEF OpenChild
  <2> QED
    BY <2>3, <2>4
<1>10. PICK gs : gs = [fs EXCEPT ![Len(fs)] = f]  OBVIOUS
<1>11. PICK q1 : q1 = [q EXCEPT !.frames = gs]  OBVIOUS
<1>12. q1.frames = gs /\ IsRecord(q1) /\ DOMAIN q1 = DOMAIN q /\ \A x \in NodeFields : q1[x] = q[x]
  <2>1. IsRecord(q)
    BY <1>1 DEF NodeOk
  <2> QED
    BY <1>1, <1>11, <2>1 DEF NodeFields, IsRecord
<1>13. NodeOk(g, b, TRUE, q1) /\ q1.path = p /\ Placed(q1) = P /\ "frames" \in DOMAIN q1
  <2>1. NodeFields \subseteq DOMAIN q1 /\ "path" \in NodeFields
    BY <1>1, <1>12 DEF NodeOk, NodeFields
  <2>2. NodeOk(g, b, TRUE, q1)
    BY <1>1, <1>12, <2>1, NodeSame
  <2>3. q1.path = p
    BY <1>12, <2>1
  <2> QED
    BY <1>1, <1>12, <2>2, <2>3 DEF Placed
<1>14. PICK u : u = Apply(g, q1, v)  OBVIOUS
<1>15. Leads(g, b, TRUE, q1, u, Append(p, v))
  <2>1. ~Overflows(g, q1, v)
    BY <1>1, <1>5, <1>13, NoOverflow
  <2> QED
    BY <1>1, <1>2, <1>5, <1>13, <1>14, <2>1, ApplyOk
<1>16. PICK new : new = Frame(Cut(g, P \cup {v}), v)  OBVIOUS
<1>17. r = [u EXCEPT !.frames = Append(@, new)]
  <2>1. q1 = [q EXCEPT !.frames[Len(q.frames)].next = j + 1]
    <3>1. DOMAIN fs = 1..n /\ n \in 1..n /\ fs[n] = e
      BY <1>1, <1>2 DEF StackFacts
    <3>2. gs = [fs EXCEPT ![n].next = j + 1]
      BY <1>6, <1>10, <3>1
    <3> QED
      BY <1>1, <1>11, <3>2
  <2> QED
    BY <1>0, <1>5, <1>14, <1>16, <2>1 DEF Descended, Push
<1>18. NodeOk(g, b, TRUE, u) /\ u.path = Append(p, v) /\ "frames" \in DOMAIN u /\ u.frames = gs /\ IsRecord(u)
       /\ NodeFields \subseteq DOMAIN u
  <2>1. "frames" \in DOMAIN q1 \ NodeFields
    BY <1>13 DEF NodeFields
  <2> QED
    BY <1>12, <1>15, <2>1 DEF Leads, NodeOk
<1>19. r.frames = Append(gs, new) /\ "frames" \in DOMAIN r /\ IsRecord(r) /\ DOMAIN r = DOMAIN u
       /\ \A x \in NodeFields : r[x] = u[x]
  BY <1>17, <1>18 DEF NodeFields, IsRecord
<1>20. NodeOk(g, b, TRUE, r) /\ r.path = Append(p, v)
  <2>1. NodeOk(g, b, TRUE, r)
    BY ZenonT(60), <1>18, <1>19, NodeSame
  <2>2. "path" \in NodeFields
    BY DEF NodeFields
  <2> QED
    BY <1>18, <1>19, <2>1, <2>2
<1>21. Pushed(g, t, tw, p, fs, r.path, r.frames)
  <2> PICK rp : rp = Append(p, v)  OBVIOUS
  <2> PICK rf : rf = Append([fs EXCEPT ![Len(fs)] = f], new)  OBVIOUS
  <2>1. f.incoming = fs[Len(fs)].incoming
    BY <1>1, <1>7
  <2>2. Cut(g, P \cup {v}) <= t
    BY <1>5
  <2>3. Pushed(g, t, tw, p, fs, rp, rf)
    BY ZenonT(60), <1>1, <1>5, <1>7, <1>8, <1>9, <1>16, <2>1, <2>2, StackPush
  <2> QED
    BY <1>10, <1>19, <1>20, <2>3
<1>22. Len(r.path) - Len(r.frames) + 1 = b /\ Len(r.frames) > 0
  <2>1. Len(r.frames) = n + 1 /\ Len(r.path) = Len(p) + 1
    BY <1>21 DEF Pushed
  <2>2. b = Len(p) - n + 1
    OBVIOUS
  <2> QED
    BY ONLY <1>2, <2>1, <2>2
<1>23. SearchOk(g, t, tw, r)
  BY <1>19, <1>20, <1>21, <1>22 DEF SearchOk, Pushed
<1>24. Below(r) = Below(q)
  BY <1>21 DEF Pushed, Below
<1> QED
  BY <1>0, <1>22, <1>23, <1>24 DEF GoesOn

(* A search starts at its task.                                               *)
Starts(g, t, tw, task, q) == SearchOk(g, t, tw, q) /\ Below(q) = ToSet(task.path)

LEMMA NewSearchOk ==
    ASSUME NEW t \in Int, NEW tw, IsSimple(graph), opts.incremental \in BOOLEAN,
           NEW task, TaskOk(graph, t, task), NEW q, q = NewSearch(task)
    PROVE  Starts(graph, t, tw, task, q)
<1>0. PICK g : g = graph  OBVIOUS
<1> PICK p : p = task.path  OBVIOUS
<1> PICK f : f = Frame(task.cut, NoSearch)  OBVIOUS
<1> PICK fs : fs = <<f>>  OBVIOUS
<1>1. IsSimple(g) /\ Within(g, t, p) /\ task.cut = Cut(g, ToSet(p)) /\ IsPath(g, p)
  BY <1>0 DEF TaskOk, Within
<1>2. Len(p) \in Nat
  BY <1>1, PathFacts
<1>3. PICK tr : tr = IF opts.word64 THEN opts.incremental ELSE FALSE  OBVIOUS
<1>4. PICK m : m = NodeAt(g, p, tr)  OBVIOUS
<1>5. q = Extended(m, [frames |-> fs])
  BY <1>0, <1>3, <1>4 DEF NewSearch, ReversibleNode, DynamicNode
<1>6. NodeOk(g, Len(p), TRUE, m) /\ DOMAIN m = NodeFields /\ m.path = p
  <2>1. tr \in BOOLEAN
    BY <1>3
  <2> PICK n : n = Len(p)  OBVIOUS
  <2>2. n \in Nat /\ n >= Len(p)
    BY <1>2
  <2>3. NodeOk(g, n, TRUE, NodeAt(g, p, tr)) /\ DOMAIN NodeAt(g, p, tr) = NodeFields
        /\ NodeAt(g, p, tr).path = p
    BY ONLY <1>1, <2>1, <2>2, NodeAtOk
  <2> QED
    BY <1>4, <2>3
<1>7. PICK x : x = [frames |-> fs]  OBVIOUS
<1>8. Extends(m, x, q)
  BY <1>5, <1>7, ExtendedIs
<1>9. DOMAIN q = NodeFields \cup {"frames"} /\ IsRecord(q) /\ \A y \in NodeFields : q[y] = m[y]
  BY <1>6, <1>7, <1>8 DEF Extends
<1>10. q.frames = fs
  <2>1. "frames" \in DOMAIN x /\ "frames" \notin DOMAIN m /\ x.frames = fs
    BY <1>6, <1>7 DEF NodeFields
  <2> QED
    BY <1>8, <2>1 DEF Extends
<1>11. NodeOk(g, Len(p), TRUE, q) /\ q.path = p
  <2>1. "path" \in NodeFields
    BY DEF NodeFields
  <2> QED
    BY <1>6, <1>9, <2>1, NodeSame
<1>12. Stacked(g, t, tw, p, fs) /\ Span(p, fs, 1) = ToSet(p) /\ Len(fs) = 1
  BY <1>1, StackNew
<1>13. NodeOk(g, Len(q.path) - Len(q.frames) + 1, TRUE, q)
  <2>1. Len(q.path) - Len(q.frames) + 1 = Len(p)
    BY <1>2, <1>10, <1>11, <1>12
  <2> QED
    BY <1>11, <2>1
<1>14. SearchOk(g, t, tw, q) /\ Below(q) = ToSet(p)
  BY <1>9, <1>10, <1>11, <1>12, <1>13 DEF SearchOk, Below
<1> QED
  BY <1>0, <1>14 DEF Starts

-----------------------------------------------------------------------------
(* What a search concludes at a node.                                         *)

At(q) == Known /\ SearchOk(graph, k, opts.earlier, q)

AtFacts(q) ==
    /\ IsSimple(graph) /\ k \in Nat /\ Dropped(graph, opts.earlier)
    /\ Placed(q) \in SUBSET Vertices(graph) /\ Placed(q) = ToSet(q.path)
    /\ Cardinality(Placed(q)) = Len(q.path) /\ Len(q.path) \in Nat
    /\ Current(graph, q) /\ Within(graph, k, q.path)
    /\ Top(q).cut = Cut(graph, Placed(q))

LEMMA AtIs ==
    ASSUME NEW q, At(q)
    PROVE  AtFacts(q)
<1>1. KnownFacts
  BY KnowsFacts DEF At
<1>2. IsSimple(graph) /\ k \in Nat /\ Dropped(graph, opts.earlier)
  BY <1>1 DEF KnownFacts, DerivedOptions
<1>3. SearchFacts(graph, k, opts.earlier, q)
  BY <1>2, SearchIs DEF At
<1>4. IsPath(graph, q.path)
  BY <1>3 DEF SearchFacts, StackFacts
<1>5. Cardinality(ToSet(q.path)) = Len(q.path) /\ Len(q.path) \in Nat
  BY <1>2, <1>4, PathFacts
<1> QED
  BY <1>2, <1>3, <1>5 DEF AtFacts, SearchFacts, FrameOk

LEMMA HitRefutes ==
    ASSUME NEW q, At(q), cache \in SoundCaches(graph), CacheHit(q)
    PROVE  ~Fits(graph, k, Placed(q))
<1>1. AtFacts(q)
  BY AtIs
<1>2. IsSimple(graph) /\ k \in Int /\ Placed(q) \in SUBSET Vertices(graph)
  BY <1>1 DEF AtFacts
<1>3. Proves(cache, Placed(q), k)
  BY DEF CacheHit
<1> QED
  BY <1>2, <1>3, ProvesSound

Refutes(q, bound) ==
    bound \in Nat /\ bound <= Completion(graph, Placed(q)) /\ ~Fits(graph, k, Placed(q))

LEMMA MemoRefutes ==
    ASSUME NEW q, At(q), NEW bound, bound = MemoBound(q), bound > k
    PROVE  Refutes(q, bound)
<1>1. AtFacts(q) /\ KnownFacts
  BY AtIs, KnowsFacts DEF At
<1>2. IsSimple(graph) /\ k \in Int /\ Placed(q) \in SUBSET Vertices(graph)
  BY <1>1 DEF AtFacts
<1>3. bound = FiniteHorizon(graph, Placed(q), opts.memo)
  BY <1>1, <1>2 DEF KnownFacts, DerivedOptions, MemoBound
<1>4. bound \in Nat /\ bound <= Completion(graph, Placed(q))
  BY <1>2, <1>3, HorizonBelow
<1>5. Completion(graph, Placed(q)) \in Nat
  BY <1>2, FitsStep
<1>6. ~Fits(graph, k, Placed(q))
  BY <1>2, <1>4, <1>5 DEF Fits
<1> QED
  BY <1>4, <1>6 DEF Refutes

LEMMA SdpRefutes ==
    ASSUME NEW q, At(q), opts.exact[Placed(q)] > k
    PROVE  ~Fits(graph, k, Placed(q))
<1>1. AtFacts(q) /\ KnownFacts
  BY AtIs, KnowsFacts DEF At
<1>2. IsSimple(graph) /\ k \in Int /\ Placed(q) \in SUBSET Vertices(graph)
  BY <1>1 DEF AtFacts
<1>3. opts.exact[Placed(q)] = Completion(graph, Placed(q))
  BY <1>1, <1>2 DEF KnownFacts, DerivedOptions
<1>4. Completion(graph, Placed(q)) \in Nat
  BY <1>2, FitsStep
<1> QED
  BY <1>2, <1>3, <1>4 DEF Fits

LEMMA BoundRefutes ==
    ASSUME NEW q, At(q), BoundExceeds(q)
    PROVE  ~Fits(graph, k, Placed(q))
<1>1. AtFacts(q) /\ KnownFacts
  BY AtIs, KnowsFacts DEF At
<1>2. IsSimple(graph) /\ k \in Nat /\ Placed(q) \in SUBSET Vertices(graph) /\ Top(q).cut = Cut(graph, Placed(q))
  BY <1>1 DEF AtFacts
<1>3. CASE q.tracked /\ OnlyResidualDegree
  <2>1. DegreeBound(q.top) > k /\ q.tracked
    BY <1>3 DEF BoundExceeds
  <2> PICK b : b = Len(q.path) - Len(q.frames) + 1  OBVIOUS
  <2>2. NodeOk(graph, b, TRUE, q)
    BY DEF At, SearchOk
  <2> QED
    BY <1>2, <2>1, <2>2, HistogramSound
<1>4. CASE ~(q.tracked /\ OnlyResidualDegree)
  <2>1. CompletionExceeds(graph, Placed(q), k, opts.enabled[k], MaximumDegree(graph, Placed(q)), Top(q).cut)
    BY <1>4 DEF BoundExceeds
  <2> PICK degree : degree = MaximumDegree(graph, Placed(q))  OBVIOUS
  <2> PICK cut : cut = Top(q).cut  OBVIOUS
  <2>2. CompletionExceeds(graph, Placed(q), k, opts.enabled[k], degree, cut)
    BY <2>1
  <2>3. BoundsSound
    BY <1>1 DEF KnownFacts
  <2> QED
    BY <1>2, <2>2, <2>3 DEF BoundsSound
<1> QED
  BY <1>3, <1>4

LEMMA DpRefutes ==
    ASSUME NEW q, At(q), DpResult(q) > k
    PROVE  ~Fits(graph, k, Placed(q))
<1>1. AtFacts(q)
  BY AtIs
<1>2. IsSimple(graph) /\ k \in Int /\ Placed(q) \in SUBSET Vertices(graph)
  BY <1>1 DEF AtFacts
<1>3. DpResult(q) = ResidualTable(graph, Placed(q))[Vertices(graph) \ Placed(q)]
  BY DEF DpResult, All
<1>4. DpResult(q) \in Nat
  <2>1. \A S \in SUBSET (Vertices(graph) \ Placed(q)) : TableFn(graph, Placed(q))[S] \in Nat
    BY <1>2, TableEquation
  <2> QED
    BY <1>3, <2>1, TableIsFn
<1>5. ASSUME Fits(graph, k, Placed(q))  PROVE  FALSE
  <2>1. DpResult(q) <= k
    BY <1>2, <1>3, <1>5, TableSound
  <2> QED
    BY <1>2, <1>4, <2>1
<1> QED
  BY <1>5

LEMMA DpWitness ==
    ASSUME NEW q, At(q), DpResult(q) <= k
    PROVE  Orders(graph, k, q.path \o ReconstructWitness(graph, Placed(q)))
<1>1. AtFacts(q)
  BY AtIs
<1>2. IsSimple(graph) /\ k \in Int /\ Placed(q) \in SUBSET Vertices(graph) /\ Within(graph, k, q.path)
      /\ Placed(q) = ToSet(q.path)
  BY <1>1 DEF AtFacts
<1>3. ResidualTable(graph, Placed(q))[Vertices(graph) \ Placed(q)] <= k
  BY DEF DpResult, All
<1> PICK o : o = ReconstructWitness(graph, Placed(q))  OBVIOUS
<1>4. Keeps(graph, Placed(q), k, Vertices(graph) \ Placed(q), o)
  BY <1>2, <1>3, WitnessKeeps
<1>5. Orders(graph, k, q.path \o o)
  BY <1>2, <1>4, WithinJoin
<1> QED
  BY <1>5

LEMMA LeafWitness ==
    ASSUME NEW q, At(q), AtLeaf(q)
    PROVE  Orders(graph, k, q.path)
<1>1. AtFacts(q)
  BY AtIs
<1> QED
  BY <1>1 DEF AtFacts, AtLeaf, All, Orders, Size

LEMMA NextRefutes ==
    ASSUME NEW q, At(q), NextExceeds(q)
    PROVE  ~Fits(graph, k, Placed(q))
<1>1. AtFacts(q)
  BY AtIs
<1>2. IsSimple(graph) /\ k \in Int /\ Placed(q) \in SUBSET Vertices(graph) /\ Current(graph, q)
      /\ Top(q).cut = Cut(graph, Placed(q))
  BY <1>1 DEF AtFacts
<1>3. BestNextExceeds(q, k, Cut(graph, Placed(q)))
  BY <1>2 DEF NextExceeds
<1> QED
  BY <1>2, <1>3, BestNextSound

LEMMA ProbeRefutes ==
    ASSUME NEW q, At(q), NEW cands, Probed(q, cands)
    PROVE  ~Fits(graph, k, Placed(q))
<1>1. AtFacts(q) /\ KnownFacts
  BY AtIs, KnowsFacts DEF At
<1>2. IsSimple(graph) /\ k \in Int /\ Placed(q) \in SUBSET Vertices(graph) /\ Dropped(graph, opts.earlier)
  BY <1>1 DEF AtFacts
<1>3. opts.probe \in Nat
  BY <1>1 DEF KnownFacts, OptionTypes
<1>4. ~ContinuationExists(graph, q, opts.earlier, k, opts.probe)
  BY DEF Probed, Twins
<1> QED
  BY <1>2, <1>3, <1>4, ContinuationSound

(* The children of a node that are tried, and those that are not.              *)
TopFacts(q) ==
    /\ Top(q).next \in Nat \ {0} /\ Len(Top(q).cands) \in Nat
    /\ \A j \in Top(q).next..Len(Top(q).cands) :
          LET c == Top(q).cands[j]
          IN  c.vertex \in Vertices(graph) \ Placed(q) /\ c.cut = Cut(graph, Placed(q) \cup {c.vertex})

LEMMA TopIs ==
    ASSUME NEW q, At(q), Top(q).entered
    PROVE  TopFacts(q) /\ Covers(graph, k, Top(q), Placed(q))
<1> PICK e : e = Top(q)  OBVIOUS
<1> PICK P : P = Placed(q)  OBVIOUS
<1> PICK g : g = graph  OBVIOUS
<1> PICK tw : tw = opts.earlier  OBVIOUS
<1>1. IsSimple(g) /\ k \in Nat /\ P \in SUBSET Vertices(g)
  BY AtIs DEF AtFacts
<1>2. e \in FrameSet(g) /\ FrameOk(g, k, tw, e, P) /\ Covers(g, k, e, P)
  BY <1>1, SearchIs DEF SearchFacts, At
<1>3. e.next \in Nat \ {0} /\ e.cands \in Seq(ChildSet(g, P, tw, k))
  BY <1>2 DEF FrameSet, FrameOk
<1>4. Len(e.cands) \in Nat
  BY <1>3
<1>5. ASSUME NEW j \in e.next..Len(e.cands)
      PROVE  e.cands[j].vertex \in Vertices(g) \ P /\ e.cands[j].cut = Cut(g, P \cup {e.cands[j].vertex})
  <2>1. j \in 1..Len(e.cands)
    BY <1>3, <1>4
  <2> PICK c : c = e.cands[j]  OBVIOUS
  <2>2. c \in ChildSet(g, P, tw, k)
    BY <1>3, <2>1
  <2>3. c.vertex \in Vertices(g) \ P /\ c.cut = Cut(g, P \cup {c.vertex})
    BY ONLY <1>1, <2>2, ChildrenFinite
  <2> QED
    BY <2>3
<1> QED
  BY <1>2, <1>3, <1>4, <1>5 DEF TopFacts

LEMMA SkippedRefuted ==
    ASSUME NEW q, At(q), Top(q).entered, NEW j \in Top(q).next..Len(Top(q).cands), j \notin Followed(q)
    PROVE  ~Fits(graph, k, Placed(q) \cup {Top(q).cands[j].vertex})
<1> PICK c : c = Top(q).cands[j]  OBVIOUS
<1> PICK v : v = c.vertex  OBVIOUS
<1>1. AtFacts(q) /\ TopFacts(q)
  BY AtIs, TopIs
<1>2. /\ IsSimple(graph) /\ k \in Int /\ Dropped(graph, opts.earlier)
      /\ Placed(q) \in SUBSET Vertices(graph) /\ Current(graph, q)
      /\ Cardinality(Placed(q)) = Len(q.path) /\ Len(q.path) \in Nat
  BY <1>1 DEF AtFacts
<1>3. v \in Vertices(graph) \ Placed(q) /\ c.cut = Cut(graph, Placed(q) \cup {v})
  BY <1>1 DEF TopFacts
<1>4. LookaheadGate(q) /\ ~LegalSecond(graph, q, opts.earlier, k, v, Cut(graph, Placed(q) \cup {v}))
  BY <1>3 DEF Followed, Twins
<1>5. Placed(q) \cup {v} # Vertices(graph)
  <2>1. Cardinality(Vertices(graph)) - Len(q.path) > 1
    BY <1>4 DEF LookaheadGate, Remains, All
  <2>2. IsFiniteSet(Placed(q))
    BY <1>2, SimpleFacts
  <2>3. Cardinality(Placed(q) \cup {v}) = Len(q.path) + 1
    BY <1>2, <1>3, <2>2, FS_AddElement
  <2>4. ASSUME Placed(q) \cup {v} = Vertices(graph)  PROVE  FALSE
    <3> PICK l : l = Len(q.path)  OBVIOUS
    <3> PICK m : m = Cardinality(Vertices(graph))  OBVIOUS
    <3>1. m = l + 1 /\ m - l > 1 /\ l \in Nat
      BY <1>2, <2>1, <2>3, <2>4
    <3> QED
      BY ONLY <3>1
  <2> QED
    BY <2>4
<1>6. ~Fits(graph, k, Placed(q) \cup {v})
  BY <1>2, <1>3, <1>4, <1>5, LegalSecondSound
<1> QED
  BY <1>6

LEMMA ExhaustedRefutes ==
    ASSUME NEW q, At(q), Top(q).entered, Followed(q) = {}
    PROVE  ~Fits(graph, k, Placed(q))
<1>1. Covers(graph, k, Top(q), Placed(q))
  BY TopIs
<1>2. \A j \in Top(q).next..Len(Top(q).cands) : ~Fits(graph, k, Placed(q) \cup {Top(q).cands[j].vertex})
  BY SkippedRefuted
<1> QED
  BY <1>1, <1>2 DEF Covers, OpenChild

Chosen(q, j) ==
    /\ j \in Top(q).next..Len(Top(q).cands)
    /\ \A i \in Top(q).next..(j - 1) : ~Fits(graph, k, Placed(q) \cup {Top(q).cands[i].vertex})

LEMMA FollowedChosen ==
    ASSUME NEW q, At(q), Top(q).entered, Followed(q) # {}, NEW j, j = Min(Followed(q))
    PROVE  Chosen(q, j)
<1> PICK F : F = Followed(q)  OBVIOUS
<1> PICK a : a = Top(q).next  OBVIOUS
<1> PICK z : z = Len(Top(q).cands)  OBVIOUS
<1>1. a \in Nat /\ z \in Nat
  BY TopIs DEF TopFacts
<1>2. F \subseteq a..z
  BY DEF Followed
<1>3. F \in SUBSET Int /\ IsFiniteSet(F)
  <2>1. a..z \subseteq Int /\ a \in Int /\ z \in Int
    BY <1>1
  <2>2. IsFiniteSet(a..z)
    BY ONLY <2>1, FS_Interval
  <2> QED
    BY <1>2, <2>1, <2>2, FS_Subset
<1>4. j \in F /\ \A i \in F : j <= i
  BY <1>3, MinIs
<1>5. \A i \in a..(j - 1) : i \in a..z /\ i \notin F
  BY <1>1, <1>2, <1>4
<1>6. \A i \in a..(j - 1) : ~Fits(graph, k, Placed(q) \cup {Top(q).cands[i].vertex})
  BY <1>5, SkippedRefuted
<1> QED
  BY <1>2, <1>4, <1>6 DEF Chosen
-----------------------------------------------------------------------------
(* The lists of children.                                                     *)

ListOk(q, cands) ==
    /\ cands \in Seq(ChildSet(graph, Placed(q), opts.earlier, k))
    /\ Fits(graph, k, Placed(q)) =>
          \E j \in 1..Len(cands) : Fits(graph, k, Placed(q) \cup {cands[j].vertex})

LEMMA InList ==
    ASSUME NEW S, NEW s \in Seq(S), NEW c \in ToSet(s)
    PROVE  \E j \in 1..Len(s) : s[j] = c
BY DEF ToSet

LEMMA ByCutIs ==
    ASSUME NEW q, At(q)
    PROVE  /\ ByCut(q) \in Seq(ChildSet(graph, Placed(q), opts.earlier, k))
           /\ ToSet(ByCut(q)) = ChildSet(graph, Placed(q), opts.earlier, k)
<1>1. AtFacts(q) /\ KnownFacts
  BY AtIs, KnowsFacts DEF At
<1>2. IsSimple(graph) /\ k \in Int /\ Placed(q) \in SUBSET Vertices(graph) /\ Current(graph, q)
      /\ Top(q).cut = Cut(graph, Placed(q)) /\ opts.failFirst \in BOOLEAN
  BY <1>1 DEF AtFacts, KnownFacts, OptionTypes
<1> PICK u : u = IF opts.word64 THEN q.tracked ELSE opts.index  OBVIOUS
<1>3. ByCut(q) = Candidates(graph, q, opts.earlier, k, Cut(graph, Placed(q)), u, opts.failFirst)
  BY <1>2 DEF ByCut, Twins
<1> QED
  BY <1>2, <1>3, CandidatesAre

NotAll(q) == Placed(q) # Vertices(graph)

LEMMA NotLeaf ==
    ASSUME NEW q, At(q), ~AtLeaf(q)
    PROVE  NotAll(q)
BY AtIs DEF AtFacts, AtLeaf, All, NotAll

LEMMA ByCutOk ==
    ASSUME NEW q, At(q), ~AtLeaf(q)
    PROVE  ListOk(q, ByCut(q))
<1>1. AtFacts(q) /\ NotAll(q)
  BY AtIs, NotLeaf
<1>2. /\ IsSimple(graph) /\ k \in Int /\ Dropped(graph, opts.earlier)
      /\ Placed(q) \in SUBSET Vertices(graph) /\ Placed(q) # Vertices(graph)
  BY <1>1 DEF AtFacts, NotAll
<1> PICK S : S = ChildSet(graph, Placed(q), opts.earlier, k)  OBVIOUS
<1> PICK s : s = ByCut(q)  OBVIOUS
<1>3. s \in Seq(S) /\ ToSet(s) = S
  BY ByCutIs
<1>4. ASSUME Fits(graph, k, Placed(q))
      PROVE  \E j \in 1..Len(s) : Fits(graph, k, Placed(q) \cup {s[j].vertex})
  <2>1. PICK c \in S : Fits(graph, k, Placed(q) \cup {c.vertex})
    BY <1>2, <1>4, ChildrenCover
  <2>2. PICK j \in 1..Len(s) : s[j] = c
    BY <1>3, <2>1, InList
  <2> QED
    BY <2>1, <2>2
<1> QED
  BY <1>3, <1>4 DEF ListOk

MemoBefore(q, a, b) ==
    \/ ChildBound(q, a.vertex) > ChildBound(q, b.vertex)
    \/ /\ ChildBound(q, a.vertex) = ChildBound(q, b.vertex)
       /\ a.cut > b.cut \/ (a.cut = b.cut /\ a.vertex < b.vertex)
MemoOrder(q, S) == {x \in S \X S : MemoBefore(q, x[1], x[2])}
Unrefuted(q, R) == ToSet(ByCut(q)) \ R

LEMMA ByMemoIs ==
    \A q, R : ByMemo(q, R) = InOrder(MemoOrder(q, Unrefuted(q, R)), Unrefuted(q, R))
BY DEF ByMemo, Sorted, MemoOrder, MemoBefore, Unrefuted

ChildFacts(q, c) ==
    /\ c = [vertex |-> c.vertex, cut |-> c.cut] /\ c.vertex \in Nat /\ c.cut \in Nat
    /\ Placed(q) \cup {c.vertex} \in SUBSET Vertices(graph)
    /\ ChildBound(q, c.vertex) \in Nat
    /\ ChildBound(q, c.vertex) <= Completion(graph, Placed(q) \cup {c.vertex})
    /\ Completion(graph, Placed(q) \cup {c.vertex}) \in Nat

LEMMA ChildIs ==
    ASSUME NEW q, At(q), MemoGate(q), NEW c \in ChildSet(graph, Placed(q), opts.earlier, k)
    PROVE  ChildFacts(q, c)
<1>1. AtFacts(q) /\ KnownFacts
  BY AtIs, KnowsFacts DEF At
<1>2. IsSimple(graph) /\ Placed(q) \in SUBSET Vertices(graph)
  BY <1>1 DEF AtFacts
<1>3. c = [vertex |-> c.vertex, cut |-> c.cut] /\ c.vertex \in Vertices(graph) \ Placed(q)
      /\ c.vertex \in Nat /\ c.cut \in Nat
  BY <1>2, ChildrenFinite
<1> PICK T : T = Placed(q) \cup {c.vertex}  OBVIOUS
<1>4. T \in SUBSET Vertices(graph)
  BY <1>2, <1>3
<1>5. opts.memo > 0
  BY DEF MemoGate
<1>6. ChildBound(q, c.vertex) = FiniteHorizon(graph, T, opts.memo - 1)
  BY <1>1, <1>4, <1>5 DEF KnownFacts, DerivedOptions, ChildBound
<1>7. ChildBound(q, c.vertex) \in Nat /\ ChildBound(q, c.vertex) <= Completion(graph, T)
  BY <1>2, <1>4, <1>6, HorizonBelow
<1>8. Completion(graph, T) \in Nat
  BY <1>2, <1>4, FitsStep
<1> QED
  BY <1>3, <1>4, <1>7, <1>8 DEF ChildFacts

LEMMA MemoOrdersStrictly ==
    ASSUME NEW q, NEW S, \A c \in S : ChildFacts(q, c)
    PROVE  StrictlyOrders(MemoOrder(q, S), S)
<1>1. \A a, b \in S : <<a, b>> \in MemoOrder(q, S) <=> MemoBefore(q, a, b)
  BY DEF MemoOrder
<1>2. \A c \in S : /\ c = [vertex |-> c.vertex, cut |-> c.cut] /\ c.vertex \in Nat /\ c.cut \in Nat
                   /\ ChildBound(q, c.vertex) \in Nat
  BY DEF ChildFacts
<1>3. \A a, b \in S : MemoBefore(q, a, b) <=>
          \/ ChildBound(q, a.vertex) > ChildBound(q, b.vertex)
          \/ /\ ChildBound(q, a.vertex) = ChildBound(q, b.vertex)
             /\ a.cut > b.cut \/ (a.cut = b.cut /\ a.vertex < b.vertex)
  BY DEF MemoBefore
<1>4. \A a \in S : ~MemoBefore(q, a, a)
  BY <1>2, <1>3
<1>5. \A a, b \in S : a = b \/ MemoBefore(q, a, b) \/ MemoBefore(q, b, a)
  <2> SUFFICES ASSUME NEW a \in S, NEW b \in S, a # b
               PROVE  MemoBefore(q, a, b) \/ MemoBefore(q, b, a)
    OBVIOUS
  <2>1. a.vertex # b.vertex \/ a.cut # b.cut
    BY <1>2
  <2>2. /\ a.vertex \in Nat /\ b.vertex \in Nat /\ a.cut \in Nat /\ b.cut \in Nat
        /\ ChildBound(q, a.vertex) \in Nat /\ ChildBound(q, b.vertex) \in Nat
    BY <1>2
  <2> QED
    BY <1>3, <2>1, <2>2
<1>6. \A a, b, c \in S : MemoBefore(q, a, b) /\ MemoBefore(q, b, c) => MemoBefore(q, a, c)
  <2> SUFFICES ASSUME NEW a \in S, NEW b \in S, NEW c \in S, MemoBefore(q, a, b), MemoBefore(q, b, c)
               PROVE  MemoBefore(q, a, c)
    OBVIOUS
  <2>2. /\ a.vertex \in Nat /\ b.vertex \in Nat /\ a.cut \in Nat /\ b.cut \in Nat
        /\ c.vertex \in Nat /\ c.cut \in Nat /\ ChildBound(q, c.vertex) \in Nat
        /\ ChildBound(q, a.vertex) \in Nat /\ ChildBound(q, b.vertex) \in Nat
    BY <1>2
  <2> QED
    BY <1>3, <2>2
<1> QED
  BY <1>1, <1>4, <1>5, <1>6 DEF StrictlyOrders

LEMMA ByMemoOk ==
    ASSUME NEW q, At(q), ~AtLeaf(q), MemoGate(q), NEW R \in SUBSET Refutable(q)
    PROVE  ListOk(q, ByMemo(q, R))
<1>1. AtFacts(q) /\ NotAll(q)
  BY AtIs, NotLeaf
<1>2. /\ IsSimple(graph) /\ k \in Int /\ Dropped(graph, opts.earlier)
      /\ Placed(q) \in SUBSET Vertices(graph) /\ Placed(q) # Vertices(graph)
  BY <1>1 DEF AtFacts, NotAll
<1> PICK S : S = ChildSet(graph, Placed(q), opts.earlier, k)  OBVIOUS
<1> PICK K : K = Unrefuted(q, R)  OBVIOUS
<1>3. K \subseteq S
  BY ByCutIs DEF Unrefuted
<1>4. \A c \in S : ChildFacts(q, c)
  BY ChildIs
<1>5. IsFiniteSet(K)
  <2>1. IsFiniteSet(S)
    BY <1>2, ChildrenFinite
  <2> QED
    BY <1>3, <2>1, FS_Subset
<1> PICK s : s = ByMemo(q, R)  OBVIOUS
<1>6. s \in Seq(K) /\ ToSet(s) = K
  <2> PICK M : M = MemoOrder(q, K)  OBVIOUS
  <2>1. StrictlyOrders(M, K)
    BY <1>3, <1>4, MemoOrdersStrictly
  <2>2. InOrder(M, K) \in Seq(K) /\ ToSet(InOrder(M, K)) = K
    BY <1>5, <2>1, OrderedSet
  <2>3. s = InOrder(M, K)
    BY ByMemoIs
  <2> QED
    BY <2>2, <2>3
<1>7. s \in Seq(S)
  BY <1>3, <1>6
<1>8. ASSUME Fits(graph, k, Placed(q))
      PROVE  \E j \in 1..Len(s) : Fits(graph, k, Placed(q) \cup {s[j].vertex})
  <2>1. PICK c \in S : Fits(graph, k, Placed(q) \cup {c.vertex})
    BY <1>2, <1>8, ChildrenCover
  <2>2. c \in K
    <3>1. ChildFacts(q, c)
      BY <1>4, <2>1
    <3>2. ChildBound(q, c.vertex) <= k
      BY <1>2, <2>1, <3>1 DEF ChildFacts, Fits
    <3>3. c \notin R
      <4>1. ChildBound(q, c.vertex) \in Nat /\ k \in Int
        BY <1>2, <3>1 DEF ChildFacts
      <4> QED
        BY <3>2, <4>1 DEF Refutable
    <3> QED
      BY <2>1, <3>3, ByCutIs DEF Unrefuted
  <2>3. PICK j \in 1..Len(s) : s[j] = c
    BY <1>6, <2>2, InList
  <2> QED
    BY <2>1, <2>3
<1> QED
  BY <1>7, <1>8 DEF ListOk

LEMMA RefutedChildren ==
    ASSUME NEW q, At(q), MemoGate(q), cache \in SoundCaches(graph), NEW S \in SUBSET Refutable(q)
    PROVE  ChildrenRefuted(q, S) \in SoundCaches(graph)
<1>1. IsSimple(graph) /\ k \in Nat /\ Placed(q) \in SUBSET Vertices(graph)
  BY AtIs DEF AtFacts
<1> PICK C : C = ChildSet(graph, Placed(q), opts.earlier, k)  OBVIOUS
<1>2. S \subseteq C /\ \A c \in S : ChildBound(q, c.vertex) > k
  BY ByCutIs DEF Refutable
<1>3. IsFiniteSet(S)
  <2>1. IsFiniteSet(C)
    BY <1>1, ChildrenFinite
  <2> QED
    BY <1>2, <2>1, FS_Subset
<1>4. \A c \in S : ChildFacts(q, c)
  BY <1>2, ChildIs
<1>5. \A c \in S : /\ Placed(q) \cup {c.vertex} \in SUBSET Vertices(graph)
                   /\ ChildBound(q, c.vertex) \in Nat /\ ChildBound(q, c.vertex) > k
                   /\ ChildBound(q, c.vertex) <= Completion(graph, Placed(q) \cup {c.vertex})
  BY <1>2, <1>4 DEF ChildFacts
<1> PICK g : g = graph  OBVIOUS
<1> QED
  BY <1>1, <1>3, <1>5, ChildrenRefutedSound


-----------------------------------------------------------------------------
(* The inductive invariant.                                                   *)

Phases == {"loop", "search", "found", "expired", "stop", "left"}

Table(f) == f = [w \in Workers |-> f[w]]

Shape ==
    /\ pc \in [Workers -> Phases] /\ Table(search) /\ Table(found)
    /\ next \in Nat \ {0} /\ throws \in Nat
    /\ DOMAIN answers \subseteq Thresholds[graph]

ThreadOk(w) ==
    /\ pc[w] = "search" => SearchOk(graph, k, opts.earlier, search[w])
    /\ pc[w] = "found" => Orders(graph, k, found[w])
    /\ pc[w] = "stop" => witness # << >>
    /\ pc[w] = "expired" => stop \/ late
    /\ pc[w] # "left" => Pending

Threads == \A w \in Workers : ThreadOk(w)

Outcome ==
    /\ witness # << >> => Orders(graph, k, witness)
    /\ stop => failure \/ witness # << >> \/ timedOut
    /\ failure => throws > 0
    /\ timedOut => late
    /\ late => opts.timed

Tasked == Pending => Vertices(graph) # {} /\ tasks # << >> /\ TasksOk(graph, k, tasks)

Clean == ~failure /\ witness = << >> /\ ~timedOut

(* A thread that is at work on a task, or has ended it without refuting it.     *)
Holds(w, S) == (pc[w] = "search" /\ Below(search[w]) = S) \/ pc[w] \in {"found", "expired"}

Handled(i) ==
    \/ ~Fits(graph, k, ToSet(tasks[i].path))
    \/ \E w \in Workers : Holds(w, ToSet(tasks[i].path))

(* As long as nothing ends the call early, every task that was taken is refuted *)
(* or held, and the first thread leaves once all have been taken.              *)
Accounts ==
    Pending /\ Clean =>
        /\ \A i \in 1..Len(tasks) : i < next => Handled(i)
        /\ pc[1] = "left" => next > Len(tasks)

CallInv ==
    /\ Known /\ Shape /\ cache \in SoundCaches(graph)
    /\ Threads /\ Outcome /\ Tasked /\ AnswerSound /\ Accounts

LEMMA FirstWorker ==
    ASSUME Known
    PROVE  1 \in Workers /\ opts.threads \in Nat /\ opts.threads >= 1
<1>1. opts.threads \in Workers
  BY KnowsFacts DEF KnownFacts, OptionTypes
<1> PICK n : n = Cardinality(Workers)  OBVIOUS
<1>2. Workers = 1..n /\ n \in Nat
  BY WorkersAssumption, FS_CardinalityType
<1> PICK m : m = opts.threads  OBVIOUS
<1>3. m \in 1..n /\ n \in Nat
  BY <1>1, <1>2
<1>4. m \in Nat /\ m >= 1 /\ 1 \in 1..n
  BY ONLY <1>3
<1> QED
  BY <1>2, <1>4

(* What a step of a search may leave to its thread.                            *)
Result(w, x, s, f) ==
    \/ x = "search" /\ GoesOn(graph, k, opts.earlier, search[w], s)
    \/ x = "loop" /\ ~Fits(graph, k, Below(search[w]))
    \/ x = "found" /\ Orders(graph, k, f)
    \/ x = "expired" /\ (stop \/ late)

Becomes(w, x, s, f) ==
    /\ pc' = [pc EXCEPT ![w] = x]
    /\ search' = [search EXCEPT ![w] = s]
    /\ found' = [found EXCEPT ![w] = f]

Others(w, x, s, f) ==
    /\ pc'[w] = x /\ search'[w] = s /\ found'[w] = f
    /\ \A u \in Workers \ {w} : pc'[u] = pc[u] /\ search'[u] = search[u] /\ found'[u] = found[u]
    /\ pc' \in [Workers -> Phases] /\ Table(search)' /\ Table(found)'

LEMMA BecomesOthers ==
    ASSUME Shape, NEW w \in Workers, NEW x \in Phases, NEW s, NEW f, Becomes(w, x, s, f)
    PROVE  Others(w, x, s, f)
<1>1. pc \in [Workers -> Phases] /\ search = [u \in Workers |-> search[u]] /\ found = [u \in Workers |-> found[u]]
  BY DEF Shape, Table
<1>2. pc' = [pc EXCEPT ![w] = x] /\ search' = [search EXCEPT ![w] = s] /\ found' = [found EXCEPT ![w] = f]
  BY DEF Becomes
<1>3. pc' \in [Workers -> Phases] /\ pc'[w] = x /\ \A u \in Workers \ {w} : pc'[u] = pc[u]
  BY <1>1, <1>2
<1>4. DOMAIN search = Workers /\ DOMAIN found = Workers
  BY <1>1
<1>5. search'[w] = s /\ \A u \in Workers \ {w} : search'[u] = search[u]
  BY <1>2, <1>4
<1>6. found'[w] = f /\ \A u \in Workers \ {w} : found'[u] = found[u]
  BY <1>2, <1>4
<1>7. Table(search)'
  BY <1>2, <1>4 DEF Table
<1>8. Table(found)'
  BY <1>2, <1>4 DEF Table
<1> QED
  BY <1>3, <1>5, <1>6, <1>7, <1>8 DEF Others

LEMMA SearchInv ==
    ASSUME CallInv, NEW w \in Workers, pc[w] = "search", NEW x, NEW s, NEW f, Result(w, x, s, f),
           Becomes(w, x, s, f), UNCHANGED <<fixed, shared>>, cache' \in SoundCaches(graph)
    PROVE  CallInv'
<1>1. /\ graph' = graph /\ opts' = opts /\ k' = k /\ tasks' = tasks
      /\ stop' = stop /\ timedOut' = timedOut /\ late' = late /\ witness' = witness
      /\ failure' = failure /\ throws' = throws /\ answers' = answers /\ next' = next
  BY DEF fixed, shared
<1>2. x \in Phases
  BY DEF Result, Phases
<1>3. Others(w, x, s, f)
  BY <1>2, BecomesOthers DEF CallInv
<1>4. Pending /\ Pending' /\ ThreadOk(w)
  BY <1>1 DEF CallInv, Threads, ThreadOk, Pending
<1>5. Known'
  BY <1>1 DEF CallInv, Known
<1>6. Shape'
  BY <1>1, <1>3 DEF CallInv, Shape, Others
<1>7. (cache \in SoundCaches(graph))'
  BY <1>1
<1>8. Outcome'
  BY <1>1 DEF CallInv, Outcome
<1>9. Tasked'
  BY <1>1 DEF CallInv, Tasked, Pending
<1>10. AnswerSound'
  BY <1>1 DEF CallInv, AnswerSound
<1>11. Threads'
  <2> SUFFICES ASSUME NEW u \in Workers  PROVE ThreadOk(u)'
    BY DEF Threads
  <2>1. CASE u # w
    <3>1. pc'[u] = pc[u] /\ search'[u] = search[u] /\ found'[u] = found[u]
      BY <1>3, <2>1 DEF Others
    <3>2. ThreadOk(u)
      BY DEF CallInv, Threads
    <3> QED
      BY <1>1, <1>4, <3>1, <3>2 DEF ThreadOk
  <2>2. CASE u = w
    <3>1. pc'[u] = x /\ search'[u] = s /\ found'[u] = f
      BY <1>3, <2>2 DEF Others
    <3>2. /\ x = "search" => SearchOk(graph, k, opts.earlier, s)
          /\ x = "found" => Orders(graph, k, f)
          /\ x = "expired" => stop \/ late
          /\ x # "stop"
      BY DEF Result, GoesOn
    <3> QED
      BY <1>1, <1>4, <3>1, <3>2 DEF ThreadOk
  <2> QED
    BY <2>1, <2>2
<1>12. Accounts'
  <2> SUFFICES ASSUME Clean'
               PROVE  /\ \A i \in 1..Len(tasks) : i < next => Handled(i)'
                      /\ pc'[1] = "left" => next > Len(tasks)
    BY <1>1 DEF Accounts
  <2>1. Clean
    BY <1>1 DEF Clean
  <2>2. (\A i \in 1..Len(tasks) : i < next => Handled(i)) /\ (pc[1] = "left" => next > Len(tasks))
    BY <1>4, <2>1 DEF CallInv, Accounts
  <2>3. ASSUME NEW S, Holds(w, S)  PROVE Holds(w, S)' \/ ~Fits(graph, k, S)
    <3>1. Below(search[w]) = S
      BY <2>3 DEF Holds
    <3>2. CASE x = "search"
      <4>1. Below(s) = Below(search[w])
        BY <3>2 DEF Result, GoesOn
      <4> QED
        BY <1>3, <3>1, <3>2, <4>1 DEF Holds, Others
    <3>3. CASE x = "loop"
      BY <3>1, <3>3 DEF Result
    <3>4. CASE x \in {"found", "expired"}
      BY <1>3, <3>4 DEF Holds, Others
    <3> QED
      BY <3>2, <3>3, <3>4 DEF Result
  <2>4. ASSUME NEW i \in 1..Len(tasks), i < next  PROVE Handled(i)'
    <3> PICK S : S = ToSet(tasks[i].path)  OBVIOUS
    <3>1. Handled(i) /\ ToSet(tasks'[i].path) = S
      BY <1>1, <2>2, <2>4
    <3>2. CASE ~Fits(graph, k, S)
      BY <1>1, <3>1, <3>2 DEF Handled
    <3>3. ASSUME NEW u \in Workers, Holds(u, S)  PROVE Holds(u, S)' \/ ~Fits(graph, k, S)
      <4>1. CASE u = w
        BY <2>3, <3>3, <4>1
      <4>2. CASE u # w
        BY <1>3, <3>3, <4>2 DEF Others, Holds
      <4> QED
        BY <4>1, <4>2
    <3> QED
      BY <1>1, <3>1, <3>2, <3>3 DEF Handled
  <2>5. pc'[1] = "left" => pc[1] = "left"
    <3>1. 1 \in Workers
      BY FirstWorker DEF CallInv
    <3>2. x # "left"
      BY DEF Result
    <3> QED
      BY <1>3, <3>1, <3>2 DEF Others
  <2> QED
    BY <2>2, <2>4, <2>5
<1> QED
  BY <1>5, <1>6, <1>7, <1>8, <1>9, <1>10, <1>11, <1>12 DEF CallInv

-----------------------------------------------------------------------------
(* The steps of a search.                                                     *)

Active(w) == CallInv /\ pc[w] = "search"

LEMMA ActiveIs ==
    ASSUME NEW w \in Workers, Active(w)
    PROVE  At(search[w]) /\ cache \in SoundCaches(graph)
BY DEF Active, CallInv, Threads, ThreadOk, At

LEMMA SameTables ==
    ASSUME Shape, NEW w \in Workers
    PROVE  /\ pc = [pc EXCEPT ![w] = pc[w]] /\ search = [search EXCEPT ![w] = search[w]]
           /\ found = [found EXCEPT ![w] = found[w]]
<1>1. pc \in [Workers -> Phases] /\ search = [u \in Workers |-> search[u]] /\ found = [u \in Workers |-> found[u]]
  BY DEF Shape, Table
<1>2. pc = [pc EXCEPT ![w] = pc[w]]
  BY <1>1
<1>3. search = [search EXCEPT ![w] = search[w]]
  BY <1>1
<1>4. found = [found EXCEPT ![w] = found[w]]
  BY <1>1
<1> QED
  BY <1>2, <1>3, <1>4

LEMMA ReturnInv ==
    ASSUME NEW w \in Workers, Active(w), ~Fits(graph, k, Placed(search[w])),
           Returns(w), UNCHANGED <<fixed, shared, found>>, cache' \in SoundCaches(graph)
    PROVE  CallInv'
<1> PICK q : q = search[w]  OBVIOUS
<1> PICK r : r = PopFrame(q)  OBVIOUS
<1>1. At(q) /\ Shape /\ CallInv /\ pc[w] = "search"
  BY ActiveIs DEF Active, CallInv
<1>2. KnownFacts /\ SearchOk(graph, k, opts.earlier, q)
  BY <1>1, KnowsFacts DEF At
<1>3. IsSimple(graph) /\ NoSearch \notin Vertices(graph) /\ k \in Int
  BY <1>2 DEF KnownFacts
<1>4. /\ search' = [search EXCEPT ![w] = IF r.frames = << >> THEN NoSearch ELSE r]
      /\ pc' = [pc EXCEPT ![w] = IF r.frames = << >> THEN "loop" ELSE pc[w]]
      /\ found' = found /\ UNCHANGED <<fixed, shared>>
  BY DEF Returns
<1>5. CASE Len(q.frames) = 1
  <2>1. r.frames = << >>
    BY <1>2, <1>3, <1>5, PopLast
  <2>2. Becomes(w, "loop", NoSearch, found[w])
    BY <1>1, <1>4, <2>1, SameTables DEF Becomes
  <2>3. Below(q) = Placed(q)
    BY <1>2, <1>3, <1>5, SearchIs DEF SearchFacts
  <2>4. Result(w, "loop", NoSearch, found[w])
    BY <2>3 DEF Result
  <2> QED
    BY <1>1, <1>4, <2>2, <2>4, SearchInv
<1>6. CASE Len(q.frames) # 1
  <2>1. GoesOn(graph, k, opts.earlier, q, r)
    BY <1>2, <1>3, <1>6, PopGoesOn
  <2>2. r.frames # << >>
    BY <2>1 DEF GoesOn
  <2>3. Becomes(w, "search", r, found[w])
    BY <1>1, <1>4, <2>2, SameTables DEF Becomes
  <2>4. Result(w, "search", r, found[w])
    BY <2>1 DEF Result
  <2> QED
    BY <1>1, <1>4, <2>3, <2>4, SearchInv
<1> QED
  BY <1>5, <1>6

LEMMA FailInv ==
    ASSUME NEW w \in Workers, Active(w), ~Fits(graph, k, Placed(search[w])), Fails(w)
    PROVE  CallInv'
<1> PICK P : P = Placed(search[w])  OBVIOUS
<1>1. AtFacts(search[w]) /\ cache \in SoundCaches(graph)
  BY ActiveIs, AtIs
<1>2. IsSimple(graph) /\ k \in Int /\ P \in SUBSET Vertices(graph)
  BY <1>1 DEF AtFacts
<1>3. Completion(graph, P) > k
  BY <1>2, FitsStep DEF Fits
<1>4. RecordAt(cache, P, k) \in SoundCaches(graph)
  BY <1>1, <1>2, <1>3, RecordAtSound
<1>5. cache' \in SoundCaches(graph)
  BY <1>1, <1>4 DEF Fails, Record
<1> QED
  BY <1>5, ReturnInv DEF Fails

LEMMA FindInv ==
    ASSUME NEW w \in Workers, Active(w), NEW o, Orders(graph, k, o), Finds(w, o),
           UNCHANGED <<fixed, shared, cache>>
    PROVE  CallInv'
<1>1. CallInv /\ pc[w] = "search" /\ cache' \in SoundCaches(graph)
  BY ActiveIs DEF Active
<1>2. Becomes(w, "found", NoSearch, o)
  BY DEF Finds, Becomes
<1>3. Result(w, "found", NoSearch, o)
  BY DEF Result
<1> QED
  BY <1>1, <1>2, <1>3, SearchInv

LEMMA MoveInv ==
    ASSUME NEW w \in Workers, Active(w), NEW r, GoesOn(graph, k, opts.earlier, search[w], r),
           search' = [search EXCEPT ![w] = r], UNCHANGED <<fixed, shared, pc, found>>,
           cache' \in SoundCaches(graph)
    PROVE  CallInv'
<1>1. CallInv /\ pc[w] = "search" /\ Shape
  BY DEF Active, CallInv
<1>2. Becomes(w, "search", r, found[w])
  BY <1>1, SameTables DEF Becomes
<1>3. Result(w, "search", r, found[w])
  BY DEF Result
<1> QED
  BY <1>1, <1>2, <1>3, SearchInv

LEMMA ListInv ==
    ASSUME NEW w \in Workers, Active(w), ~Top(search[w]).entered, NEW cands, ListOk(search[w], cands),
           ListsBy(w, cands), UNCHANGED <<fixed, shared, pc, found>>, cache' \in SoundCaches(graph)
    PROVE  CallInv'
<1> PICK q : q = search[w]  OBVIOUS
<1> PICK r : r = Listed(q, cands)  OBVIOUS
<1>1. At(q) /\ AtFacts(q)
  BY ActiveIs, AtIs
<1>2. IsSimple(graph) /\ k \in Int /\ SearchOk(graph, k, opts.earlier, q)
  BY <1>1 DEF AtFacts, At
<1>3. /\ cands \in Seq(ChildSet(graph, Placed(q), opts.earlier, k))
      /\ Fits(graph, k, Placed(q)) =>
            \E j \in 1..Len(cands) : Fits(graph, k, Placed(q) \cup {cands[j].vertex})
  BY DEF ListOk
<1> PICK g : g = graph  OBVIOUS
<1> PICK t : t = k  OBVIOUS
<1> PICK tw : tw = opts.earlier  OBVIOUS
<1>4. GoesOn(g, t, tw, q, r)
  BY <1>2, <1>3, ListGoesOn
<1>5. search' = [search EXCEPT ![w] = r]
  BY DEF ListsBy
<1> QED
  BY <1>4, <1>5, MoveInv

LEMMA ListsInv ==
    ASSUME NEW w \in Workers, Active(w), Lists(w)
    PROVE  CallInv'
<1> PICK q : q = search[w]  OBVIOUS
<1>1. At(q) /\ cache \in SoundCaches(graph)
  BY ActiveIs
<1>2. ~Top(q).entered /\ ~AtLeaf(q)
  BY DEF Lists, Unpruned, Unproved, Misses, AtNode
<1>3. ListOk(q, ByCut(q))
  BY <1>1, <1>2, ByCutOk
<1>4. UNCHANGED <<fixed, shared, pc, found>>
  BY DEF Lists
<1>5. \/ ListsBy(w, ByCut(q)) /\ UNCHANGED cache
      \/ MemoOrdered(q) /\ \E R \in SUBSET Refutable(q) :
            ListsBy(w, ByMemo(q, R)) /\ cache' = ChildrenRefuted(q, R)
  BY DEF Lists
<1>6. CASE ListsBy(w, ByCut(q)) /\ UNCHANGED cache
  <2>1. cache' \in SoundCaches(graph)
    BY <1>1, <1>6
  <2> PICK cands : cands = ByCut(q)  OBVIOUS
  <2> QED
    BY <1>2, <1>3, <1>4, <1>6, <2>1, ListInv
<1>7. ASSUME MemoOrdered(q), NEW R \in SUBSET Refutable(q),
             ListsBy(w, ByMemo(q, R)), cache' = ChildrenRefuted(q, R)
      PROVE  CallInv'
  <2>1. MemoGate(q)
    BY <1>7 DEF MemoOrdered
  <2>2. cache' \in SoundCaches(graph)
    BY <1>1, <1>7, <2>1, RefutedChildren
  <2> PICK cands : cands = ByMemo(q, R)  OBVIOUS
  <2>3. ListOk(q, cands)
    BY <1>1, <1>2, <2>1, ByMemoOk
  <2> QED
    BY <1>2, <1>4, <1>7, <2>2, <2>3, ListInv
<1> QED
  BY <1>5, <1>6, <1>7

LEMMA DescendsInv ==
    ASSUME NEW w \in Workers, Active(w), Descends(w)
    PROVE  CallInv'
<1> PICK q : q = search[w]  OBVIOUS
<1> PICK j : j = Min(Followed(q))  OBVIOUS
<1> PICK r : r = Descended(q, j)  OBVIOUS
<1>1. At(q) /\ AtFacts(q) /\ cache \in SoundCaches(graph)
  BY ActiveIs, AtIs
<1>2. IsSimple(graph) /\ k \in Int /\ SearchOk(graph, k, opts.earlier, q)
  BY <1>1 DEF AtFacts, At
<1>3. Top(q).entered /\ Followed(q) # {} /\ UNCHANGED <<fixed, shared, pc, found, cache>>
  BY DEF Descends
<1>4. Chosen(q, j)
  BY <1>1, <1>3, FollowedChosen
<1>5. /\ j \in Top(q).next..Len(Top(q).cands)
      /\ \A i \in Top(q).next..(j - 1) : ~Fits(graph, k, Placed(q) \cup {Top(q).cands[i].vertex})
  BY <1>4 DEF Chosen
<1> PICK t : t = k  OBVIOUS
<1> PICK tw : tw = opts.earlier  OBVIOUS
<1>6. GoesOn(graph, t, tw, q, r)
  BY <1>2, <1>3, <1>5, DescendGoesOn
<1>7. search' = [search EXCEPT ![w] = r]
  <2>1. search' = [search EXCEPT ![w] = Descended(search[w], Min(Followed(search[w])))]
    BY DEF Descends
  <2> QED
    BY <2>1
<1>8. cache' \in SoundCaches(graph)
  BY <1>1, <1>3
<1> QED
  BY <1>3, <1>6, <1>7, <1>8, MoveInv

LEMMA MemoInv ==
    ASSUME NEW w \in Workers, Active(w), MemoPrunes(w)
    PROVE  CallInv'
<1> PICK q : q = search[w]  OBVIOUS
<1> PICK bound : bound = MemoBound(q)  OBVIOUS
<1>1. At(q) /\ AtFacts(q) /\ cache \in SoundCaches(graph)
  BY ActiveIs, AtIs
<1>2. IsSimple(graph) /\ k \in Nat /\ Placed(q) \in SUBSET Vertices(graph)
  BY <1>1 DEF AtFacts
<1>3. bound > k /\ Returns(w) /\ cache' = RecordThrough(cache, Placed(q), bound)
      /\ UNCHANGED <<fixed, shared, found>>
  BY DEF MemoPrunes, MemoProves
<1>4. Refutes(q, bound)
  BY <1>1, <1>3, MemoRefutes
<1>5. bound \in Nat /\ bound <= Completion(graph, Placed(q)) /\ ~Fits(graph, k, Placed(q))
  BY <1>4 DEF Refutes
<1> PICK g : g = graph  OBVIOUS
<1> PICK P : P = Placed(q)  OBVIOUS
<1> PICK c : c = cache  OBVIOUS
<1>6. RecordThrough(c, P, bound) \in SoundCaches(g)
  BY <1>1, <1>2, <1>3, <1>5, RecordThroughSound
<1> QED
  BY <1>3, <1>5, <1>6, ReturnInv

LEMMA ExpiresInv ==
    ASSUME NEW w \in Workers, Active(w), Expires(w)
    PROVE  CallInv'
<1>1. CallInv /\ pc[w] = "search" /\ cache' \in SoundCaches(graph) /\ Shape
  BY ActiveIs DEF Active, Expires, CallInv
<1>2. Becomes(w, "expired", NoSearch, found[w])
  BY <1>1, SameTables DEF Expires, Becomes
<1>3. Result(w, "expired", NoSearch, found[w])
  BY DEF Result, Expires, Interrupted
<1> QED
  BY <1>1, <1>2, <1>3, SearchInv DEF Expires

LEMMA SearchStepInv ==
    ASSUME CallInv, NEW w \in Workers, SearchStep(w)
    PROVE  CallInv'
<1> PICK q : q = search[w]  OBVIOUS
<1>1. Active(w)
  BY DEF SearchStep, Leaf, Hits, MemoPrunes, SdpPrunes, BoundPrunes, DpPrunes, DpFinds, DpApplies,
         NextPrunes, Lists, Descends, Exhausts, Expires, Unpruned, Unproved, Misses, AtNode,
         Searching, Active
<1>2. At(q) /\ cache \in SoundCaches(graph)
  BY <1>1, ActiveIs
<1>3. CASE Leaf(w)
  <2>1. Orders(graph, k, q.path)
    BY <1>2, <1>3, LeafWitness DEF Leaf
  <2> QED
    BY <1>1, <1>3, <2>1, FindInv DEF Leaf
<1>4. CASE Hits(w)
  <2>1. ~Fits(graph, k, Placed(q))
    BY <1>2, <1>4, HitRefutes DEF Hits
  <2> QED
    BY <1>1, <1>2, <1>4, <2>1, ReturnInv DEF Hits
<1>5. CASE MemoPrunes(w)
  BY <1>1, <1>5, MemoInv
<1>6. CASE SdpPrunes(w)
  BY <1>1, <1>2, <1>6, SdpRefutes, FailInv DEF SdpPrunes
<1>7. CASE BoundPrunes(w)
  BY <1>1, <1>2, <1>7, BoundRefutes, FailInv DEF BoundPrunes
<1>8. CASE DpPrunes(w)
  BY <1>1, <1>2, <1>8, DpRefutes, FailInv DEF DpPrunes
<1>9. CASE DpFinds(w)
  <2>1. Orders(graph, k, q.path \o ReconstructWitness(graph, Placed(q)))
    BY <1>2, <1>9, DpWitness DEF DpFinds
  <2> QED
    BY <1>1, <1>9, <2>1, FindInv DEF DpFinds
<1>10. CASE NextPrunes(w)
  <2>1. ~Fits(graph, k, Placed(q))
    BY <1>2, <1>10, NextRefutes, ProbeRefutes DEF NextPrunes
  <2> QED
    BY <1>1, <1>10, <2>1, FailInv DEF NextPrunes
<1>11. CASE Lists(w)
  BY <1>1, <1>11, ListsInv
<1>12. CASE Descends(w)
  BY <1>1, <1>12, DescendsInv
<1>13. CASE Exhausts(w)
  BY <1>1, <1>2, <1>13, ExhaustedRefutes, FailInv DEF Exhausts
<1>14. CASE Expires(w)
  BY <1>1, <1>14, ExpiresInv
<1> QED
  BY <1>3, <1>4, <1>5, <1>6, <1>7, <1>8, <1>9, <1>10, <1>11, <1>12, <1>13, <1>14 DEF SearchStep


-----------------------------------------------------------------------------
(* The steps of a thread outside of a search.                                  *)

Kept ==
    /\ graph' = graph /\ opts' = opts /\ k' = k /\ tasks' = tasks
    /\ cache' = cache /\ answers' = answers

LEMMA ThreadInv ==
    ASSUME CallInv, Kept, throws' \in Nat, throws' >= throws, late => late', Shape', Threads',
           Outcome', Accounts'
    PROVE  CallInv'
<1>1. graph' = graph /\ opts' = opts /\ k' = k /\ tasks' = tasks /\ cache' = cache /\ answers' = answers
  BY DEF Kept
<1>2. Known'
  BY <1>1 DEF CallInv, Known
<1>3. Tasked'
  BY <1>1 DEF CallInv, Tasked, Pending
<1>4. (cache \in SoundCaches(graph))'
  BY <1>1 DEF CallInv
<1>5. AnswerSound'
  <2>1. throws \in Nat /\ AnswerSound
    BY DEF CallInv, Shape
  <2>2. throws > 0 => throws' > 0
    BY <2>1
  <2> QED
    BY <1>1, <2>1, <2>2 DEF AnswerSound
<1> QED
  BY <1>2, <1>3, <1>4, <1>5 DEF CallInv

(* The other threads are where they were.                                     *)
LEMMA OthersOk ==
    ASSUME Shape, Threads, NEW w \in Workers, NEW x \in Phases, NEW s, NEW f, Becomes(w, x, s, f), Kept,
           stop => stop', late => late', witness # << >> => witness' # << >>, ThreadOk(w)'
    PROVE  Threads'
<1>1. Others(w, x, s, f)
  BY BecomesOthers
<1> SUFFICES ASSUME NEW u \in Workers, u # w  PROVE ThreadOk(u)'
  BY DEF Threads
<1>2. pc'[u] = pc[u] /\ search'[u] = search[u] /\ found'[u] = found[u]
  BY <1>1 DEF Others
<1>3. ThreadOk(u)
  BY DEF Threads
<1> QED
  BY <1>2, <1>3 DEF ThreadOk, Kept, Pending

LEMMA ShapeStays ==
    ASSUME Shape, NEW w \in Workers, NEW x \in Phases, NEW s, NEW f, Becomes(w, x, s, f), Kept,
           next' \in Nat \ {0}, throws' \in Nat
    PROVE  Shape'
BY BecomesOthers DEF Shape, Others, Kept

(* What is handled stays handled when a thread that holds nothing moves.       *)
LEMMA HandledStays ==
    ASSUME Shape, NEW w \in Workers, NEW x \in Phases, NEW s, NEW f, Becomes(w, x, s, f), Kept,
           pc[w] = "loop", NEW i, Handled(i)
    PROVE  Handled(i)'
<1>1. Others(w, x, s, f)
  BY BecomesOthers
<1> PICK S : S = ToSet(tasks[i].path)  OBVIOUS
<1>2. ToSet(tasks'[i].path) = S /\ graph' = graph /\ k' = k
  BY DEF Kept
<1>3. CASE ~Fits(graph, k, S)
  BY <1>2, <1>3 DEF Handled
<1>4. ASSUME NEW u \in Workers, Holds(u, S)  PROVE Handled(i)'
  <2>1. u # w
    BY <1>4 DEF Holds
  <2>2. pc'[u] = pc[u] /\ search'[u] = search[u]
    BY <1>1, <2>1 DEF Others
  <2>3. Holds(u, S)'
    BY <1>4, <2>2 DEF Holds
  <2> QED
    BY <1>2, <2>3 DEF Handled
<1> QED
  BY <1>3, <1>4 DEF Handled

LEMMA LeavesInv ==
    ASSUME CallInv, NEW w \in Workers, Leaves(w)
    PROVE  CallInv'
<1>1. Shape /\ Threads /\ Outcome /\ Accounts /\ Known
  BY DEF CallInv
<1>2. /\ Kept /\ stop' = stop /\ timedOut' = timedOut /\ late' = late /\ witness' = witness
      /\ failure' = failure /\ throws' = throws /\ next' = next
      /\ pc[w] = "loop" /\ (stop \/ next > Len(tasks))
  BY DEF Leaves, Kept, fixed, shared
<1>3. Becomes(w, "left", search[w], found[w]) /\ "left" \in Phases
  BY <1>1, SameTables DEF Leaves, Becomes, Phases
<1>4. Others(w, "left", search[w], found[w])
  BY <1>1, <1>3, BecomesOthers
<1>5. Shape'
  BY <1>1, <1>2, <1>3, ShapeStays DEF Shape
<1>6. Threads'
  <2>1. ThreadOk(w)'
    BY <1>4 DEF Others, ThreadOk
  <2> QED
    BY <1>1, <1>2, <1>3, <2>1, OthersOk
<1>7. Outcome'
  BY <1>1, <1>2 DEF Outcome, Kept
<1>8. Accounts'
  <2> SUFFICES ASSUME Pending', Clean'
               PROVE  /\ \A i \in 1..Len(tasks) : i < next => Handled(i)'
                      /\ pc'[1] = "left" => next > Len(tasks)
    BY <1>2 DEF Accounts, Kept
  <2>1. Pending /\ Clean
    BY <1>2 DEF Clean, Pending, Kept
  <2>2. (\A i \in 1..Len(tasks) : i < next => Handled(i)) /\ (pc[1] = "left" => next > Len(tasks))
    BY <1>1, <2>1 DEF Accounts
  <2>3. ~stop
    BY <1>1, <2>1 DEF Outcome, Clean
  <2>4. \A i \in 1..Len(tasks) : i < next => Handled(i)'
    BY <1>1, <1>2, <1>3, <2>2, HandledStays
  <2> QED
    BY <1>2, <2>3, <2>4
<1> QED
  BY <1>2, <1>5, <1>6, <1>7, <1>8, ThreadInv DEF CallInv, Shape

LEMMA TakesInv ==
    ASSUME CallInv, NEW w \in Workers, Takes(w)
    PROVE  CallInv'
<1>1. Shape /\ Threads /\ Outcome /\ Accounts /\ Known /\ Tasked
  BY DEF CallInv
<1>2. /\ Kept /\ late' = late /\ witness' = witness /\ failure' = failure /\ throws' = throws
      /\ next' = next + 1 /\ pc[w] = "loop" /\ ~stop /\ next <= Len(tasks) /\ found' = found
  BY DEF Takes, Kept, fixed
<1>3. Pending /\ TasksOk(graph, k, tasks) /\ next \in Nat \ {0} /\ throws \in Nat /\ Len(tasks) \in Nat
  BY <1>1, <1>2 DEF Threads, ThreadOk, Tasked, Shape, TasksOk
<1>4. next' \in Nat \ {0}
  BY <1>2, <1>3
<1>5. CASE late
  <2>1. timedOut' = TRUE /\ stop' = TRUE /\ pc' = [pc EXCEPT ![w] = "left"] /\ search' = search
    BY <1>5 DEF Takes
  <2>2. Becomes(w, "left", search[w], found[w]) /\ "left" \in Phases
    BY <1>1, <1>2, <2>1, SameTables DEF Becomes, Phases
  <2>3. Others(w, "left", search[w], found[w])
    BY <1>1, <2>2, BecomesOthers
  <2>4. Shape'
    BY <1>1, <1>2, <1>3, <1>4, <2>2, ShapeStays
  <2>5. ThreadOk(w)'
    BY <2>3 DEF Others, ThreadOk
  <2>6. Threads'
    BY <1>1, <1>2, <2>1, <2>2, <2>5, OthersOk
  <2>7. Outcome'
    BY <1>1, <1>2, <1>5, <2>1 DEF Outcome, Kept
  <2>8. Accounts'
    BY <2>1 DEF Accounts, Clean
  <2> QED
    BY <1>2, <1>3, <2>4, <2>6, <2>7, <2>8, ThreadInv
<1>6. CASE ~late
  <2> PICK task : task = tasks[next]  OBVIOUS
  <2> PICK q : q = NewSearch(task)  OBVIOUS
  <2>1. timedOut' = timedOut /\ stop' = stop /\ pc' = [pc EXCEPT ![w] = "search"]
        /\ search' = [search EXCEPT ![w] = q]
    BY <1>6 DEF Takes
  <2>2. Becomes(w, "search", q, found[w]) /\ "search" \in Phases
    BY <1>1, <1>2, <2>1, SameTables DEF Becomes, Phases
  <2>3. Others(w, "search", q, found[w])
    BY <1>1, <2>2, BecomesOthers
  <2>4. Shape'
    BY <1>1, <1>2, <1>3, <1>4, <2>2, ShapeStays
  <2>5. Starts(graph, k, opts.earlier, task, q)
    <3>1. KnownFacts
      BY <1>1, KnowsFacts
    <3>2. IsSimple(graph) /\ k \in Int /\ opts.incremental \in BOOLEAN
      BY <3>1 DEF KnownFacts, OptionTypes
    <3>3. TaskOk(graph, k, task)
      BY <1>2, <1>3 DEF TasksOk
    <3> PICK t : t = k  OBVIOUS
    <3> PICK tw : tw = opts.earlier  OBVIOUS
    <3>4. Starts(graph, t, tw, task, q)
      BY <3>2, <3>3, NewSearchOk
    <3> QED
      BY <3>4
  <2>6. SearchOk(graph, k, opts.earlier, q) /\ Below(q) = ToSet(task.path)
    BY <2>5 DEF Starts
  <2>7. ThreadOk(w)'
    BY <1>2, <1>3, <2>3, <2>6 DEF Others, ThreadOk, Kept, Pending
  <2>8. Threads'
    BY <1>1, <1>2, <2>1, <2>2, <2>7, OthersOk
  <2>9. Outcome'
    BY <1>1, <1>2, <2>1 DEF Outcome, Kept
  <2>10. Accounts'
    <3> SUFFICES ASSUME Clean'
                 PROVE  /\ \A i \in 1..Len(tasks) : i < next + 1 => Handled(i)'
                        /\ pc'[1] = "left" => next + 1 > Len(tasks)
      BY <1>2 DEF Accounts, Kept
    <3>1. Clean
      BY <1>2, <2>1 DEF Clean
    <3>2. (\A i \in 1..Len(tasks) : i < next => Handled(i)) /\ (pc[1] = "left" => next > Len(tasks))
      BY <1>1, <1>3, <3>1 DEF Accounts
    <3>3. ASSUME NEW i \in 1..Len(tasks), i < next + 1  PROVE Handled(i)'
      <4>1. CASE i < next
        BY <1>1, <1>2, <2>2, <3>2, <4>1, HandledStays
      <4>2. CASE i = next
        <5>1. Holds(w, ToSet(task.path))'
          BY <2>3, <2>6 DEF Holds, Others
        <5>2. ToSet(tasks'[i].path) = ToSet(task.path)
          BY <1>2, <4>2 DEF Kept
        <5> QED
          BY <5>1, <5>2 DEF Handled
      <4>3. i < next \/ i = next
        BY <1>3, <3>3
      <4> QED
        BY <4>1, <4>2, <4>3
    <3>4. pc'[1] # "left"
      <4>1. 1 \in Workers
        BY <1>1, FirstWorker
      <4>2. pc[1] # "left"
        BY <1>2, <1>3, <3>2
      <4> QED
        BY <2>3, <4>1, <4>2 DEF Others
    <3> QED
      BY <3>3, <3>4
  <2> QED
    BY <1>2, <1>3, <2>4, <2>8, <2>9, <2>10, ThreadInv
<1> QED
  BY <1>5, <1>6

LEMMA PublishesInv ==
    ASSUME CallInv, NEW w \in Workers, Publishes(w)
    PROVE  CallInv'
<1>1. Shape /\ Threads /\ Outcome /\ Known /\ Tasked
  BY DEF CallInv
<1>2. /\ Kept /\ late' = late /\ failure' = failure /\ throws' = throws /\ stop' = stop
      /\ timedOut' = timedOut /\ next' = next /\ pc[w] = "found" /\ search' = search
      /\ pc' = [pc EXCEPT ![w] = "stop"] /\ found' = [found EXCEPT ![w] = << >>]
      /\ witness' = found[w] \/ (witness # << >> /\ witness' = witness)
  BY DEF Publishes, Kept, fixed
<1>3. Orders(graph, k, found[w]) /\ Pending
  BY <1>1, <1>2 DEF Threads, ThreadOk
<1>4. found[w] # << >>
  <2>1. IsFiniteSet(Vertices(graph)) /\ Vertices(graph) # {}
    <3>1. IsSimple(graph)
      BY <1>1, KnowsFacts DEF KnownFacts
    <3> QED
      BY <1>1, <1>3, <3>1, SimpleFacts DEF Tasked
  <2>2. Size(graph) # 0
    BY <2>1, FS_EmptySet DEF Size
  <2>3. Len(found[w]) = Size(graph)
    BY <1>3 DEF Orders
  <2>4. Len(<< >>) = 0
    OBVIOUS
  <2> QED
    BY <2>2, <2>3, <2>4
<1>5. witness' # << >> /\ Orders(graph, k, witness')
  BY <1>1, <1>2, <1>3, <1>4 DEF Outcome
<1>6. PICK e : e = << >>  OBVIOUS
<1>7. Becomes(w, "stop", search[w], e) /\ "stop" \in Phases
  BY <1>1, <1>2, <1>6, SameTables DEF Becomes, Phases
<1>8. Others(w, "stop", search[w], e)
  BY <1>1, <1>7, BecomesOthers
<1>9. Shape'
  BY <1>1, <1>2, <1>7, ShapeStays DEF Shape
<1>10. ThreadOk(w)'
  BY <1>2, <1>3, <1>5, <1>8 DEF ThreadOk, Others, Kept, Pending
<1>11. Threads'
  BY <1>1, <1>2, <1>5, <1>7, <1>10, OthersOk
<1>12. Outcome'
  BY <1>1, <1>2, <1>5 DEF Outcome, Kept
<1>13. Accounts'
  BY <1>5 DEF Accounts, Clean
<1> QED
  BY <1>1, <1>2, <1>9, <1>11, <1>12, <1>13, ThreadInv DEF Shape

LEMMA StopsInv ==
    ASSUME CallInv, NEW w \in Workers, Stops(w)
    PROVE  CallInv'
<1>1. Shape /\ Threads /\ Outcome
  BY DEF CallInv
<1>2. /\ Kept /\ late' = late /\ failure' = failure /\ throws' = throws /\ stop' = TRUE
      /\ timedOut' = timedOut /\ next' = next /\ pc[w] = "stop" /\ search' = search
      /\ pc' = [pc EXCEPT ![w] = "loop"] /\ found' = found /\ witness' = witness
  BY DEF Stops, Kept, fixed
<1>3. witness # << >> /\ Pending
  BY <1>1, <1>2 DEF Threads, ThreadOk
<1>4. Becomes(w, "loop", search[w], found[w]) /\ "loop" \in Phases
  BY <1>1, <1>2, SameTables DEF Becomes, Phases
<1>5. Others(w, "loop", search[w], found[w])
  BY <1>1, <1>4, BecomesOthers
<1>6. Shape'
  BY <1>1, <1>2, <1>4, ShapeStays DEF Shape
<1>7. ThreadOk(w)'
  BY <1>2, <1>3, <1>5 DEF ThreadOk, Others, Kept, Pending
<1>8. Threads'
  BY <1>1, <1>2, <1>4, <1>7, OthersOk
<1>9. Outcome'
  BY <1>1, <1>2, <1>3 DEF Outcome, Kept
<1>10. Accounts'
  BY <1>2, <1>3 DEF Accounts, Clean
<1> QED
  BY <1>1, <1>2, <1>6, <1>8, <1>9, <1>10, ThreadInv DEF Shape

LEMMA TimesOutInv ==
    ASSUME CallInv, NEW w \in Workers, TimesOut(w)
    PROVE  CallInv'
<1>1. Shape /\ Threads /\ Outcome
  BY DEF CallInv
<1>2. /\ Kept /\ late' = late /\ failure' = failure /\ throws' = throws /\ stop' = TRUE
      /\ timedOut' = (timedOut \/ ~stop) /\ next' = next /\ pc[w] = "expired" /\ search' = search
      /\ pc' = [pc EXCEPT ![w] = "loop"] /\ found' = found /\ witness' = witness
  BY DEF TimesOut, Kept, fixed
<1>3. (stop \/ late) /\ Pending
  BY <1>1, <1>2 DEF Threads, ThreadOk
<1>4. Becomes(w, "loop", search[w], found[w]) /\ "loop" \in Phases
  BY <1>1, <1>2, SameTables DEF Becomes, Phases
<1>5. Others(w, "loop", search[w], found[w])
  BY <1>1, <1>4, BecomesOthers
<1>6. Shape'
  BY <1>1, <1>2, <1>4, ShapeStays DEF Shape
<1>7. ThreadOk(w)'
  BY <1>2, <1>3, <1>5 DEF ThreadOk, Others, Kept, Pending
<1>8. Threads'
  BY <1>1, <1>2, <1>4, <1>7, OthersOk
<1>9. Outcome'
  BY <1>1, <1>2, <1>3 DEF Outcome, Kept
<1>10. Accounts'
  BY <1>1, <1>2, <1>3 DEF Accounts, Clean, Outcome
<1> QED
  BY <1>1, <1>2, <1>6, <1>8, <1>9, <1>10, ThreadInv DEF Shape

LEMMA ThrowsInv ==
    ASSUME CallInv, NEW w \in Workers, Throws(w)
    PROVE  CallInv'
<1>1. Shape /\ Threads /\ Outcome
  BY DEF CallInv
<1>2. /\ Kept /\ late' = late /\ failure' = TRUE /\ throws' = throws + 1 /\ stop' = TRUE
      /\ timedOut' = timedOut /\ next' = next /\ search' = [search EXCEPT ![w] = NoSearch]
      /\ pc' = [pc EXCEPT ![w] = "left"] /\ found' = found /\ witness' = witness
  BY DEF Throws, Kept, fixed
<1>3. throws \in Nat /\ throws' \in Nat /\ throws' >= throws /\ throws' > 0
  BY <1>1, <1>2 DEF Shape
<1>4. Becomes(w, "left", NoSearch, found[w]) /\ "left" \in Phases
  BY <1>1, <1>2, SameTables DEF Becomes, Phases
<1>5. Others(w, "left", NoSearch, found[w])
  BY <1>1, <1>4, BecomesOthers
<1>6. Shape'
  BY <1>1, <1>2, <1>3, <1>4, ShapeStays DEF Shape
<1>7. ThreadOk(w)'
  BY <1>5 DEF ThreadOk, Others
<1>8. Threads'
  BY <1>1, <1>2, <1>4, <1>7, OthersOk
<1>9. Outcome'
  BY <1>1, <1>2, <1>3 DEF Outcome, Kept
<1>10. Accounts'
  BY <1>2 DEF Accounts, Clean
<1> QED
  BY <1>2, <1>3, <1>6, <1>8, <1>9, <1>10, ThreadInv

LEMMA DeadlineInv ==
    ASSUME CallInv, DeadlinePasses
    PROVE  CallInv'
<1>1. Shape /\ Threads /\ Outcome /\ Accounts
  BY DEF CallInv
<1>2. /\ Kept /\ late' = TRUE /\ failure' = failure /\ throws' = throws /\ stop' = stop
      /\ timedOut' = timedOut /\ next' = next /\ search' = search
      /\ pc' = pc /\ found' = found /\ witness' = witness /\ opts.timed
  BY DEF DeadlinePasses, Kept, fixed
<1>3. Shape'
  BY <1>1, <1>2 DEF Shape, Kept, Table
<1>4. Threads'
  BY <1>1, <1>2 DEF Threads, ThreadOk, Kept, Pending
<1>5. Outcome'
  BY <1>1, <1>2 DEF Outcome, Kept
<1>6. Accounts'
  BY <1>1, <1>2 DEF Accounts, Clean, Kept, Pending, Handled, Holds
<1> QED
  BY <1>1, <1>2, <1>3, <1>4, <1>5, <1>6, ThreadInv DEF Shape


-----------------------------------------------------------------------------
(* The call.                                                                  *)

(* What AnswerSound says of one answer.                                        *)
AnswerOk(g, t, a) ==
    /\ a.status = "feasible" => /\ ValidOrdering(g, a.ordering)
                                /\ OrderingCutwidth(g, a.ordering) <= t
    /\ a.status = "infeasible" => opts.exact[{}] > t
    /\ a.status = "timed_out" => opts.timed /\ (t = k => late)
    /\ a.status = "exception" => throws > 0

LEMMA AnswersAre == AnswerSound <=> \A t \in DOMAIN answers : AnswerOk(graph, t, answers[t])
BY DEF AnswerSound, AnswerOk

LEMMA AllRefuted ==
    ASSUME CallInv, Pending, Clean, Joined
    PROVE  ~Fits(graph, k, {})
<1>1. TasksOk(graph, k, tasks) /\ Accounts /\ Known /\ Shape
  BY DEF CallInv, Tasked
<1>2. \A w \in Workers : pc[w] = "left"
  BY DEF Joined
<1>3. next > Len(tasks)
  <2>1. 1 \in Workers
    BY <1>1, FirstWorker
  <2> QED
    BY <1>1, <1>2, <2>1 DEF Accounts
<1>4. ASSUME NEW i \in 1..Len(tasks)  PROVE ~Fits(graph, k, ToSet(tasks[i].path))
  <2>1. i < next
    <3>1. Len(tasks) \in Nat /\ next \in Nat
      BY <1>1 DEF TasksOk, Shape
    <3> QED
      BY <1>3, <3>1
  <2>2. Handled(i)
    BY <1>1, <2>1 DEF Accounts
  <2>3. \A w \in Workers : ~Holds(w, ToSet(tasks[i].path))
    BY <1>2 DEF Holds
  <2> QED
    BY <2>2, <2>3 DEF Handled
<1> QED
  BY <1>1, <1>4 DEF TasksOk

LEMMA CombinedOk ==
    ASSUME CallInv, Pending, Joined
    PROVE  AnswerOk(graph, k, Combined)
<1>1. KnownFacts /\ Outcome
  BY KnowsFacts DEF CallInv
<1>2. IsSimple(graph) /\ k \in Nat
  BY <1>1 DEF KnownFacts
<1>3. CASE failure
  <2>1. Combined = [status |-> "exception", ordering |-> << >>] /\ throws > 0
    BY <1>1, <1>3 DEF Combined, Outcome
  <2> QED
    BY <2>1 DEF AnswerOk
<1>4. CASE ~failure /\ witness # << >>
  <2>1. Combined = [status |-> "feasible", ordering |-> witness]
    BY <1>4 DEF Combined
  <2>2. ValidOrdering(graph, witness) /\ OrderingCutwidth(graph, witness) <= k
    BY <1>1, <1>2, <1>4, WitnessWidth DEF Outcome
  <2> QED
    BY <2>1, <2>2 DEF AnswerOk
<1>5. CASE ~failure /\ witness = << >> /\ timedOut
  <2>1. Combined = [status |-> "timed_out", ordering |-> << >>] /\ opts.timed /\ late
    BY <1>1, <1>5 DEF Combined, Outcome
  <2> QED
    BY <2>1 DEF AnswerOk
<1>6. CASE Clean
  <2>1. Combined = [status |-> "infeasible", ordering |-> << >>]
    BY <1>6 DEF Combined, Clean
  <2>2. ~Fits(graph, k, {})
    BY <1>6, AllRefuted
  <2>3. opts.exact[{}] > k
    <3>1. opts.exact[{}] = Completion(graph, {}) /\ Completion(graph, {}) \in Nat
      BY <1>1, <1>2, FitsStep DEF KnownFacts, DerivedOptions
    <3> QED
      BY <1>2, <2>2, <3>1 DEF Fits
  <2> QED
    BY <2>1, <2>3 DEF AnswerOk
<1> QED
  BY <1>3, <1>4, <1>5, <1>6 DEF Clean

LEMMA AnswersInv ==
    ASSUME CallInv, Answers
    PROVE  CallInv'
<1>1. /\ graph' = graph /\ opts' = opts /\ k' = k /\ tasks' = tasks /\ cache' = cache
      /\ stop' = stop /\ timedOut' = timedOut /\ late' = late /\ witness' = witness
      /\ failure' = failure /\ throws' = throws /\ next' = next
      /\ pc' = pc /\ search' = search /\ found' = found
      /\ Pending /\ Joined
  BY DEF Answers, fixed
<1> PICK e : e = [t \in {k} |-> Combined]  OBVIOUS
<1>2. Extends(answers, e, answers')
  <2> PICK r : r = Extended(answers, e)  OBVIOUS
  <2>1. answers' = r
    BY DEF Answers
  <2>2. Extends(answers, e, r)
    BY ExtendedIs
  <2> QED
    BY <2>1, <2>2
<1>3. /\ DOMAIN answers' = DOMAIN answers \cup {k} /\ answers'[k] = Combined
      /\ \A t \in DOMAIN answers : answers'[t] = answers[t]
  <2>1. DOMAIN e = {k} /\ e[k] = Combined /\ k \notin DOMAIN answers
    BY <1>1 DEF Pending
  <2> QED
    BY <1>2, <2>1 DEF Extends
<1>4. Known' /\ (cache \in SoundCaches(graph))' /\ Outcome'
  BY <1>1 DEF CallInv, Known, Outcome
<1>5. ~Pending'
  BY <1>1, <1>3 DEF Pending
<1>6. Shape'
  BY <1>1, <1>3 DEF CallInv, Shape, Table, Known
<1>7. Threads'
  BY <1>1 DEF Threads, ThreadOk, Joined
<1>8. Tasked' /\ Accounts'
  BY <1>5 DEF Tasked, Accounts
<1>9. AnswerSound'
  <2>1. \A t \in DOMAIN answers' : AnswerOk(graph, t, answers'[t])
    <3> SUFFICES ASSUME NEW t \in DOMAIN answers'  PROVE AnswerOk(graph, t, answers'[t])
      OBVIOUS
    <3>1. CASE t \in DOMAIN answers
      BY <1>3, <3>1, AnswersAre DEF CallInv
    <3>2. CASE t = k
      BY <1>1, <1>3, <3>2, CombinedOk
    <3> QED
      BY <1>3, <3>1, <3>2
  <2> QED
    BY <1>1, <2>1 DEF AnswerSound, AnswerOk
<1> QED
  BY <1>4, <1>6, <1>7, <1>8, <1>9 DEF CallInv

(* A call starts: either it is answered at once or its tasks are to be done.    *)
StartOk(g, t, o) ==
    /\ Started(g, t, o).pc \in [Workers -> {"loop", "left"}]
    /\ DOMAIN Started(g, t, o).answer \subseteq {t}
    /\ t \in DOMAIN Started(g, t, o).answer =>
          /\ \A w \in Workers : Started(g, t, o).pc[w] = "left"
          /\ AnswerOk(g, t, Started(g, t, o).answer[t])
          /\ Started(g, t, o).answer[t].status # "timed_out"
    /\ t \notin DOMAIN Started(g, t, o).answer =>
          /\ Vertices(g) # {} /\ TasksOf(g, t, o) # << >> /\ TasksOk(g, t, TasksOf(g, t, o))
          /\ Started(g, t, o).pc[1] = "loop"

OneTask(g, t, o) ==
    /\ Len(TasksOf(g, t, o)[1].path) = 1
    /\ TaskOk(g, t, TasksOf(g, t, o)[1])

LEMMA OneRoot ==
    ASSUME NEW g, IsSimple(g), NEW t, NEW o, TasksOk(g, t, TasksOf(g, t, o)),
           TasksOf(g, t, o) # << >>, o.threads > 1, o.threads \in Nat, ~o.word64,
           Cardinality(Vertices(g)) = 1
    PROVE  OneTask(g, t, o)
<1> PICK ts : ts = TasksOf(g, t, o)  OBVIOUS
<1>1. ts = RootTasksOf(g, t, o)
  BY DEF TasksOf
<1>2. Len(ts) \in Nat /\ Len(ts) > 0 /\ \A i \in 1..Len(ts) : TaskOk(g, t, ts[i])
  BY DEF TasksOk
<1>3. 1 \in 1..Len(ts)
  BY <1>2
<1> PICK S : S = Roots(g, t, o.earlier)  OBVIOUS
<1> PICK n : n = Cardinality(S)  OBVIOUS
<1> PICK s : s = InOrder({p \in S \X S : p[1] < p[2]}, S)  OBVIOUS
<1>4. n \in Nat
  <2>1. S \in SUBSET Vertices(g)
    BY DEF Roots
  <2> QED
    BY <2>1, SimpleFacts
<1>5. ts = [i \in 1..n |-> [path |-> <<s[i]>>, cut |-> Degree(g, s[i])]]
  BY <1>1 DEF RootTasksOf, Sorted
<1>6. 1 \in 1..n
  <2>1. Len(ts) = n
    BY <1>4, <1>5
  <2> QED
    BY <1>3, <2>1
<1>7. ts[1].path = <<s[1]>>
  BY <1>5, <1>6
<1>8. Len(ts[1].path) = 1
  BY <1>7
<1> QED
  BY <1>2, <1>3, <1>8 DEF OneTask

LEMMA AtOnce ==
    ASSUME NEW g, NEW t, NEW o, NEW a, Immediate(g, t, o) = {a}, AnswerOk(g, t, a),
           a.status # "timed_out"
    PROVE  StartOk(g, t, o)
<1> PICK r : r = Started(g, t, o)  OBVIOUS
<1>1. r = [pc |-> [w \in Workers |-> "left"], answer |-> [u \in {t} |-> CHOOSE x \in {a} : TRUE]]
  BY DEF Started
<1>2. (CHOOSE x \in {a} : TRUE) = a
  OBVIOUS
<1>3. DOMAIN r.answer = {t} /\ r.answer[t] = a
  BY <1>1, <1>2
<1>4. r.pc \in [Workers -> {"loop", "left"}] /\ \A w \in Workers : r.pc[w] = "left"
  BY <1>1
<1> QED
  BY <1>3, <1>4 DEF StartOk

LEMMA StartsOk ==
    ASSUME Known, NEW t \in Thresholds[graph]
    PROVE  StartOk(graph, t, opts)
<1> PICK g : g = graph  OBVIOUS
<1> PICK o : o = opts  OBVIOUS
<1> PICK n : n = Cardinality(Vertices(g))  OBVIOUS
<1> PICK ts : ts = TasksOf(g, t, o)  OBVIOUS
<1>1. KnownFacts
  BY KnowsFacts
<1>2. IsSimple(g) /\ t \in Nat /\ Dropped(g, o.earlier) /\ o.failFirst \in BOOLEAN
  BY <1>1 DEF KnownFacts, OptionTypes, DerivedOptions
<1>3. o.threads \in Nat /\ o.threads >= 1 /\ 1 \in Workers
  BY FirstWorker
<1>4. n \in Nat /\ (n = 0 <=> Vertices(g) = {})
  <2>1. IsFiniteSet(Vertices(g))
    BY <1>2, SimpleFacts
  <2> QED
    BY <2>1, FS_EmptySet, FS_CardinalityType
<1>5. opts.exact[{}] = Completion(g, {}) /\ Completion(g, {}) \in Nat
  BY <1>1, <1>2, FitsStep DEF KnownFacts, DerivedOptions
<1>6. Immediate(g, t, o) =
          IF n = 0 THEN {[status |-> "feasible", ordering |-> << >>]}
          ELSE IF ts = << >> THEN {[status |-> "infeasible", ordering |-> << >>]}
          ELSE IF o.threads > 1 /\ ~o.word64 /\ n = 1
               THEN {[status |-> "feasible", ordering |-> ts[1].path]}
          ELSE {}
  BY DEF Immediate
<1>7. CASE n = 0
  <2> PICK a : a = [status |-> "feasible", ordering |-> << >>]  OBVIOUS
  <2>1. PICK p : p = << >>  OBVIOUS
  <2>2. Within(g, t, p)
    BY <1>2, <2>1, NoPath
  <2>3. Len(p) = 0
    BY <2>1
  <2>4. Orders(g, t, p)
    BY <1>7, <2>2, <2>3 DEF Orders, Size
  <2>5. ValidOrdering(g, p) /\ OrderingCutwidth(g, p) <= t
    BY <1>2, <2>4, WitnessWidth
  <2>6. AnswerOk(g, t, a) /\ a.status # "timed_out"
    BY <2>1, <2>5 DEF AnswerOk
  <2>7. Immediate(g, t, o) = {a}
    BY <1>6, <1>7
  <2> QED
    BY <2>6, <2>7, AtOnce
<1>8. CASE n # 0 /\ ts = << >>
  <2> PICK a : a = [status |-> "infeasible", ordering |-> << >>]  OBVIOUS
  <2>1. TasksOk(g, t, ts)
    BY <1>2, <1>4, <1>8, TasksCover
  <2>2. ~Fits(g, t, {})
    <3>1. Len(ts) \in Nat /\ ~(Len(ts) > 0)
      BY <1>8, <2>1 DEF TasksOk
    <3>2. \A i \in 1..Len(ts) : FALSE
      BY <3>1
    <3> QED
      BY <2>1, <3>2 DEF TasksOk
  <2>3. opts.exact[{}] > t
    BY <1>2, <1>5, <2>2 DEF Fits
  <2>4. AnswerOk(g, t, a) /\ a.status # "timed_out"
    BY <2>3 DEF AnswerOk
  <2>5. Immediate(g, t, o) = {a}
    BY <1>6, <1>8
  <2> QED
    BY <2>4, <2>5, AtOnce
<1>9. CASE n # 0 /\ ts # << >> /\ o.threads > 1 /\ ~o.word64 /\ n = 1
  <2> PICK p : p = ts[1].path  OBVIOUS
  <2> PICK a : a = [status |-> "feasible", ordering |-> p]  OBVIOUS
  <2>1. TasksOk(g, t, ts)
    BY <1>2, <1>4, <1>9, TasksCover
  <2>2. OneTask(g, t, o)
    BY <1>2, <1>3, <1>9, <2>1, OneRoot
  <2>3. Orders(g, t, p)
    BY <1>9, <2>2 DEF OneTask, TaskOk, Orders, Size
  <2>4. ValidOrdering(g, p) /\ OrderingCutwidth(g, p) <= t
    BY <1>2, <2>3, WitnessWidth
  <2>5. AnswerOk(g, t, a) /\ a.status # "timed_out"
    BY <2>4 DEF AnswerOk
  <2>6. Immediate(g, t, o) = {a}
    BY <1>6, <1>9
  <2> QED
    BY <2>5, <2>6, AtOnce
<1>10. CASE n # 0 /\ ts # << >> /\ ~(o.threads > 1 /\ ~o.word64 /\ n = 1)
  <2>1. Immediate(g, t, o) = {}
    BY <1>6, <1>10
  <2>2. TasksOk(g, t, ts) /\ Vertices(g) # {}
    BY <1>2, <1>4, <1>10, TasksCover
  <2> PICK m : m = WorkerCount(g, t, o)  OBVIOUS
  <2>3. 1 <= m
    <3>1. Len(ts) \in Nat /\ Len(ts) > 0
      BY <1>10, <2>2 DEF TasksOk
    <3> PICK a : a = o.threads  OBVIOUS
    <3> PICK b : b = Len(ts)  OBVIOUS
    <3>2. {a, b} \in SUBSET Int /\ IsFiniteSet({a, b}) /\ {a, b} # {}
      <4>1. a \in Int /\ b \in Int
        BY <1>3, <3>1
      <4>2. IsFiniteSet({a, b})
        BY ONLY PairFinite
      <4> QED
        BY ONLY <4>1, <4>2
    <3>3. Min({a, b}) \in {a, b}
      BY <3>2, MinIs
    <3>4. m = Min({a, b})
      BY DEF WorkerCount
    <3> QED
      BY <1>3, <3>1, <3>3, <3>4
  <2> PICK r : r = Started(g, t, o)  OBVIOUS
  <2>4. PICK e : e = << >>  OBVIOUS
  <2>5. r = [pc |-> [w \in Workers |-> IF w <= m THEN "loop" ELSE "left"], answer |-> e]
    BY <2>1, <2>4 DEF Started
  <2>6. r.pc \in [Workers -> {"loop", "left"}] /\ r.pc[1] = "loop"
    BY <1>3, <2>3, <2>5
  <2>7. DOMAIN r.answer = {}
    BY <2>4, <2>5
  <2> QED
    BY <1>10, <2>2, <2>6, <2>7 DEF StartOk
<1> QED
  BY <1>7, <1>8, <1>9, <1>10

LEMMA CallsInv ==
    ASSUME CallInv, Calls
    PROVE  CallInv'
<1>1. PICK t \in opts.asked \ DOMAIN answers :
          /\ k' = t /\ tasks' = TasksOf(graph, t, opts)
          /\ pc' = Started(graph, t, opts).pc
          /\ answers' = Extended(Started(graph, t, opts).answer, answers)
  BY DEF Calls
<1>2. /\ ~Pending /\ next' = 1 /\ stop' = FALSE /\ timedOut' = FALSE /\ late' = FALSE
      /\ witness' = << >> /\ failure' = FALSE
      /\ cache' = IF opts.keepsCache THEN cache ELSE NewCache("cross")
      /\ graph' = graph /\ opts' = opts /\ search' = search /\ found' = found /\ throws' = throws
  BY DEF Calls
<1>3. t \in Thresholds[graph]
  BY <1>1, KnowsFacts DEF CallInv, KnownFacts, DerivedOptions
<1>4. StartOk(graph, t, opts)
  BY <1>3, StartsOk DEF CallInv
<1> PICK e : e = Started(graph, t, opts).answer  OBVIOUS
<1>5. Extends(e, answers, answers')
  <2> PICK r : r = Extended(e, answers)  OBVIOUS
  <2>1. Extends(e, answers, r)
    BY ExtendedIs
  <2> QED
    BY <1>1, <2>1
<1>6. /\ pc' \in [Workers -> {"loop", "left"}] /\ DOMAIN e \subseteq {t}
      /\ t \in DOMAIN e => (\A w \in Workers : pc'[w] = "left") /\ AnswerOk(graph, t, e[t])
                         /\ e[t].status # "timed_out"
      /\ t \notin DOMAIN e =>
            /\ Vertices(graph) # {} /\ tasks' # << >> /\ TasksOk(graph, t, tasks')
            /\ pc'[1] = "loop"
  BY <1>1, <1>4 DEF StartOk
<1>7. /\ DOMAIN answers' = DOMAIN e \cup DOMAIN answers
      /\ t \in DOMAIN e => answers'[t] = e[t]
      /\ \A u \in DOMAIN answers : answers'[u] = answers[u]
  BY <1>1, <1>5, <1>6 DEF Extends
<1>8. Pending' <=> t \notin DOMAIN e
  BY <1>1, <1>7 DEF Pending
<1>9. Known'
  BY <1>1, <1>2, <1>3 DEF CallInv, Known
<1>10. Shape'
  <2>1. pc' \in [Workers -> Phases]
    BY <1>6 DEF Phases
  <2>2. Table(search)' /\ Table(found)' /\ throws' \in Nat
    BY <1>2 DEF CallInv, Shape, Table
  <2>3. DOMAIN answers' \subseteq Thresholds[graph']
    BY <1>2, <1>3, <1>6, <1>7 DEF CallInv, Shape
  <2>4. next' \in Nat \ {0}
    BY <1>2
  <2> QED
    BY <2>1, <2>2, <2>3, <2>4 DEF Shape
<1>11. (cache \in SoundCaches(graph))'
  BY <1>2, NewCacheSound DEF CallInv
<1>12. Threads'
  <2> SUFFICES ASSUME NEW w \in Workers  PROVE ThreadOk(w)'
    BY DEF Threads
  <2>1. pc'[w] \in {"loop", "left"}
    BY <1>6
  <2> QED
    BY <1>6, <1>8, <2>1 DEF ThreadOk
<1>13. Outcome'
  BY <1>2 DEF Outcome
<1>14. Tasked'
  BY <1>1, <1>2, <1>6, <1>8 DEF Tasked
<1>15. AnswerSound'
  <2> SUFFICES ASSUME NEW u \in DOMAIN answers'
               PROVE  /\ AnswerOk(graph, u, answers'[u])
                      /\ answers'[u].status = "timed_out" => u # k'
    BY <1>2 DEF AnswerSound, AnswerOk
  <2>1. CASE u \in DOMAIN answers
    BY <1>1, <1>7, <2>1, AnswersAre DEF CallInv
  <2>2. CASE u \in DOMAIN e
    BY <1>6, <1>7, <2>2
  <2> QED
    BY <1>7, <2>1, <2>2
<1>16. Accounts'
  <2> SUFFICES ASSUME Pending'
               PROVE  /\ \A i \in 1..Len(tasks') : i < next' => Handled(i)'
                      /\ pc'[1] = "left" => next' > Len(tasks')
    BY DEF Accounts
  <2>1. pc'[1] # "left"
    BY <1>6, <1>8
  <2>2. \A i \in 1..Len(tasks') : ~(i < next')
    BY <1>2
  <2> QED
    BY <2>1, <2>2
<1> QED
  BY <1>9, <1>10, <1>11, <1>12, <1>13, <1>14, <1>15, <1>16 DEF CallInv

LEMMA InitInv ==
    ASSUME Init
    PROVE  CallInv
<1>1. /\ graph \in Graphs /\ opts \in {Prepared(graph, o) : o \in Options[graph]} /\ k \in Thresholds[graph]
      /\ tasks = TasksOf(graph, k, opts) /\ next = 1
      /\ pc = Started(graph, k, opts).pc /\ answers = Started(graph, k, opts).answer
      /\ search = [w \in Workers |-> NoSearch] /\ found = [w \in Workers |-> << >>]
      /\ cache = NewCache("cross")
      /\ stop = FALSE /\ timedOut = FALSE /\ late = FALSE
      /\ witness = << >> /\ failure = FALSE /\ throws = 0
  BY DEF Init
<1>2. Known
  BY <1>1 DEF Known
<1>3. StartOk(graph, k, opts)
  BY <1>1, <1>2, StartsOk
<1>4. /\ pc \in [Workers -> {"loop", "left"}] /\ DOMAIN answers \subseteq {k}
      /\ k \in DOMAIN answers => (\A w \in Workers : pc[w] = "left") /\ AnswerOk(graph, k, answers[k])
      /\ k \notin DOMAIN answers =>
            /\ Vertices(graph) # {} /\ tasks # << >> /\ TasksOk(graph, k, tasks)
            /\ pc[1] = "loop"
  BY <1>1, <1>3 DEF StartOk
<1>5. Shape
  <2>1. pc \in [Workers -> Phases]
    BY <1>4 DEF Phases
  <2>2. Table(search) /\ Table(found)
    BY <1>1 DEF Table
  <2>3. next \in Nat \ {0} /\ throws \in Nat
    BY <1>1
  <2>4. DOMAIN answers \subseteq Thresholds[graph]
    BY <1>1, <1>4
  <2> QED
    BY <2>1, <2>2, <2>3, <2>4 DEF Shape
<1>6. cache \in SoundCaches(graph)
  BY <1>1, NewCacheSound
<1>7. Threads
  <2> SUFFICES ASSUME NEW w \in Workers  PROVE ThreadOk(w)
    BY DEF Threads
  <2>1. pc[w] \in {"loop", "left"}
    BY <1>4
  <2> QED
    BY <1>4, <2>1 DEF ThreadOk, Pending
<1>8. Outcome
  BY <1>1 DEF Outcome
<1>9. Tasked
  BY <1>4 DEF Tasked, Pending
<1>10. AnswerSound
  <2>1. \A t \in DOMAIN answers : AnswerOk(graph, t, answers[t])
    BY <1>4
  <2> QED
    BY <2>1, AnswersAre
<1>11. Accounts
  <2> SUFFICES ASSUME Pending
               PROVE  /\ \A i \in 1..Len(tasks) : i < next => Handled(i)
                      /\ pc[1] = "left" => next > Len(tasks)
    BY DEF Accounts
  <2>1. pc[1] # "left"
    BY <1>4 DEF Pending
  <2>2. \A i \in 1..Len(tasks) : ~(i < next)
    BY <1>1
  <2> QED
    BY <2>1, <2>2
<1> QED
  BY <1>2, <1>5, <1>6, <1>7, <1>8, <1>9, <1>10, <1>11 DEF CallInv

LEMMA StutterInv ==
    ASSUME CallInv, UNCHANGED vars
    PROVE  CallInv'
<1>1. /\ graph' = graph /\ opts' = opts /\ k' = k /\ tasks' = tasks /\ next' = next /\ pc' = pc
      /\ search' = search /\ found' = found /\ cache' = cache /\ stop' = stop /\ timedOut' = timedOut
      /\ late' = late /\ witness' = witness /\ failure' = failure /\ throws' = throws
      /\ answers' = answers
  BY DEF vars
<1>2. Known' /\ Shape' /\ (cache \in SoundCaches(graph))'
  BY <1>1 DEF CallInv, Known, Shape, Table
<1>3. Threads'
  BY <1>1 DEF CallInv, Threads, ThreadOk, Pending
<1>4. Outcome' /\ Tasked' /\ AnswerSound'
  BY <1>1 DEF CallInv, Outcome, Tasked, AnswerSound, Pending
<1>5. Accounts'
  BY <1>1 DEF CallInv, Accounts, Clean, Pending, Handled, Holds
<1> QED
  BY <1>2, <1>3, <1>4, <1>5 DEF CallInv

(* Every step of a call leaves it as the invariant says.                       *)
LEMMA StepInv ==
    ASSUME CallInv, [Next]_vars
    PROVE  CallInv'
<1>1. CASE UNCHANGED vars
  BY <1>1, StutterInv
<1>2. CASE Next
  <2>1. ASSUME NEW w \in Workers, SearchStep(w)  PROVE CallInv'
    BY <2>1, SearchStepInv
  <2>2. ASSUME NEW w \in Workers, ThreadStep(w)  PROVE CallInv'
    BY <2>2, LeavesInv, TakesInv, PublishesInv, StopsInv, TimesOutInv DEF ThreadStep
  <2>3. ASSUME NEW w \in Workers, Throws(w)  PROVE CallInv'
    BY <2>3, ThrowsInv
  <2>4. CASE DeadlinePasses
    BY <2>4, DeadlineInv
  <2>5. CASE Answers
    BY <2>5, AnswersInv
  <2>6. CASE Calls
    BY <2>6, CallsInv
  <2>7. CASE Finished
    BY <2>7, StutterInv DEF Finished
  <2> QED
    BY <1>2, <2>1, <2>2, <2>3, <2>4, <2>5, <2>6, <2>7 DEF Next
<1> QED
  BY <1>1, <1>2

LEMMA CallInvariant == Spec => []CallInv
<1>1. Init => CallInv
  BY InitInv
<1>2. CallInv /\ [Next]_vars => CallInv'
  BY StepInv
<1> QED
  BY <1>1, <1>2, PTL DEF Spec

(* The shared cache proves only what is so: whichever thread and engine recorded *)
(* a failed prefix, at its own threshold or through a bound of the oracle, no    *)
(* completion of it keeps that threshold (record, record_through).              *)
THEOREM CacheIsSound == Spec => []CacheSound
<1>1. CallInv => CacheSound
  <2> SUFFICES ASSUME CallInv, NEW key \in DOMAIN cache.failed
               PROVE  opts.exact[key] > cache.failed[key]
    BY DEF CacheSound
  <2>1. cache \in SoundCaches(graph) /\ KnownFacts
    BY KnowsFacts DEF CallInv
  <2>2. Completion(graph, key) > cache.failed[key]
    BY <2>1 DEF SoundCaches
  <2>3. key \in SUBSET Vertices(graph)
    <3>1. cache.failed \in UNION {[D -> Int] : D \in SUBSET (SUBSET Vertices(graph))}
      BY <2>1 DEF SoundCaches, Caches
    <3> QED
      BY <3>1
  <2>4. opts.exact[key] = Completion(graph, key)
    BY <2>1, <2>3 DEF KnownFacts, DerivedOptions
  <2> QED
    BY <2>2, <2>4
<1> QED
  BY <1>1, CallInvariant, PTL

(* The answers of decide_cutwidth are right: a witness keeps the threshold,      *)
(* "infeasible" is said below the cutwidth only, "timed out" past the deadline   *)
(* only, and a call throws only if one of its searches has.                     *)
THEOREM AnswersAreSound == Spec => []AnswerSound
<1>1. CallInv => AnswerSound
  BY DEF CallInv
<1> QED
  BY <1>1, CallInvariant, PTL
=============================================================================
