------------------------------ MODULE RootTasks ------------------------------
(* decide_cutwidth (decision.cpp): the tasks at the root of the search tree    *)
(* are handed out to threads, each runs the recursive search of its engine,     *)
(* Search64 (word64) or SearchDynamic, below its task, and all share one cache  *)
(* of failed prefixes. The first witness, the deadline or an exception stops    *)
(* them; the answer is put together once all have been joined. One thread       *)
(* searches from the empty prefix. One action is one call of dfs, one turn of   *)
(* its loop over the candidates, or one access of a thread to what is shared.   *)
EXTENDS SearchNode, FailureCache

CONSTANTS
    Graphs,       \* the graphs to choose from
    Thresholds,   \* thresholds asked of a graph, in any order
    Options,      \* DecisionOptions to choose from for a graph
    Workers,      \* 1..n, at least the threads of every option
    MaxThrows,    \* exceptions in a search
    NoSearch

DecisionOptions ==
    [word64 : BOOLEAN, threads : Workers, timed : BOOLEAN, twins : BOOLEAN, index : BOOLEAN,
     failFirst : BOOLEAN, lookahead : BOOLEAN, lookaheadRemaining : Nat, incremental : BOOLEAN,
     partialBounds : BOOLEAN, bounds : SUBSET ({"residual_degree"} \cup Expensive),
     caching : BOOLEAN, fixed : BOOLEAN, keepsCache : BOOLEAN, sdp : BOOLEAN,
     memo : Nat, memoRemaining : Nat, memoOrder : BOOLEAN,
     dp : Nat, bestNext : BOOLEAN, probe : Nat, probeSlack : Nat, probeChildren : Nat,
     probeLimited : BOOLEAN]

ASSUME WorkersAssumption ==
    IsFiniteSet(Workers) /\ Workers = 1..Cardinality(Workers) /\ MaxThrows \in Nat

ASSUME GraphsAssumption ==
    \A g \in Graphs : /\ IsSimple(g) /\ NoSearch \notin Vertices(g)
                      /\ Thresholds[g] \subseteq Nat /\ Options[g] \subseteq DecisionOptions

VARIABLES
    graph, opts,
    k,          \* the threshold of the call
    tasks,      \* roots, or FrontierTasks
    next,       \* the next task, an atomic counter
    pc,         \* per thread, where it is in its loop
    search,     \* per thread, the node and the frames of dfs
    found,      \* per thread, the ordering its search returned
    cache,
    stop, timedOut, late, \* late: the deadline has passed
    witness, failure, throws,
    answers

vars == <<graph, opts, k, tasks, next, pc, search, found, cache,
          stop, timedOut, late, witness, failure, throws, answers>>
shared == <<stop, timedOut, late, witness, failure, throws, answers, next>>
fixed  == <<graph, opts, k, tasks>>

All    == Vertices(graph)
Twins  == opts.earlier
-----------------------------------------------------------------------------
(* Tasks.                                                                     *)

Roots(g, t, earlier) == {v \in Vertices(g) : Degree(g, v) <= t /\ earlier[v] = {}}

RootTasksOf(g, t, o) ==
    [i \in 1..Cardinality(Roots(g, t, o.earlier)) |->
        LET v == Sorted(Roots(g, t, o.earlier), LAMBDA a, b : a < b)[i]
        IN  [path |-> <<v>>, cut |-> Degree(g, v)]]

(* An unordered pair is a task once, from the smaller root that leads to it.  *)
Pairs(g, t, earlier) ==
    {p \in Roots(g, t, earlier) \X Vertices(g) :
        /\ p[1] # p[2] /\ earlier[p[2]] \subseteq {p[1]}
        /\ Cut(g, {p[1], p[2]}) <= t
        /\ ~(p[2] < p[1] /\ p[2] \in Roots(g, t, earlier) /\ earlier[p[1]] \subseteq {p[2]})}

FrontierTasks(g, t, o) ==
    LET cut(p) == Cut(g, {p[1], p[2]})
        sorted == Sorted(Pairs(g, t, o.earlier), LAMBDA p, q :
            IF cut(p) # cut(q) THEN (cut(p) > cut(q)) = o.failFirst
            ELSE p[1] < q[1] \/ (p[1] = q[1] /\ p[2] < q[2]))
    IN  [i \in DOMAIN sorted |-> [path |-> sorted[i], cut |-> cut(sorted[i])]]

TasksOf(g, t, o) ==
    IF o.threads = 1 THEN <<[path |-> << >>, cut |-> 0]>>
    ELSE IF o.word64 THEN RootTasksOf(g, t, o)
    ELSE IF Cardinality(Vertices(g)) > 1 THEN FrontierTasks(g, t, o)
    ELSE RootTasksOf(g, t, o)

(* Answers that need no search.                                               *)
Immediate(g, t, o) ==
    LET n == Cardinality(Vertices(g))
    IN  IF n = 0 THEN {[status |-> "feasible", ordering |-> << >>]}
        ELSE IF TasksOf(g, t, o) = << >> THEN {[status |-> "infeasible", ordering |-> << >>]}
        ELSE IF o.threads > 1 /\ ~o.word64 /\ n = 1
             THEN {[status |-> "feasible", ordering |-> TasksOf(g, t, o)[1].path]}
        ELSE {}

WorkerCount(g, t, o) == Min({o.threads, Len(TasksOf(g, t, o))})
-----------------------------------------------------------------------------
(* The cache. One that serves a fixed threshold refuses every other.          *)

CanRecord(c, key, t) ==
    /\ opts.fixed => t = k
    /\ key \in DOMAIN c.failed \/ BelowLimit(c)

RecordAt(c, key, t) == IF opts.fixed /\ t # k THEN c ELSE Recorded(c, key, t)

Record(key) == IF opts.caching THEN RecordAt(cache, key, k) ELSE cache

(* record_through: a bound above the threshold fails every threshold below it; *)
(* a cache that refuses it is told of the threshold. Mutant: the bound itself  *)
(* is taken to have failed.                                                   *)
RecordThroughBound(c, key, bound) ==
    IF ~opts.caching THEN c
    ELSE IF CanRecord(c, key, bound) \/ bound = k THEN RecordAt(c, key, bound)
    ELSE RecordAt(RecordAt(c, key, bound), key, k)
RecordThrough(c, key, bound) ==
    IF ~opts.caching THEN c
    ELSE IF CanRecord(c, key, bound - 1) \/ bound - 1 = k THEN RecordAt(c, key, bound - 1)
    ELSE RecordAt(RecordAt(c, key, bound - 1), key, k)
-----------------------------------------------------------------------------
(* A search.                                                                  *)

Frame(cut, incoming) == [cut |-> cut, incoming |-> incoming, entered |-> FALSE,
                         next |-> 1, cands |-> << >>]

(* ReversibleNodeState64, and the state SearchDynamic is constructed with.     *)
ReversibleNode(path) == NodeAt(graph, path, opts.incremental)
DynamicNode(path)    == NodeAt(graph, path, FALSE)
Push(q, v) == Apply(graph, q, v)
Pop(q, v)  == Undo(graph, q, v)

NewSearch(task) ==
    Extended(IF opts.word64 THEN ReversibleNode(task.path) ELSE DynamicNode(task.path),
         [frames |-> <<Frame(task.cut, NoSearch)>>])

Top(q)       == Last(q.frames)
AtLeaf(q)    == Len(q.path) = Cardinality(All)
Remains(q)   == Cardinality(All) - Len(q.path)
CacheHit(q)  == opts.caching /\ Proves(cache, Placed(q), k)

(* FiniteHorizonOracle, asked within a number of unplaced vertices.           *)
MemoGate(q)    == opts.memo > 0 /\ (opts.memoRemaining = 0 \/ Remains(q) <= opts.memoRemaining)
MemoBound(q)   == opts.horizon[opts.memo][Placed(q)]
ChildBound(q, v) == opts.horizon[opts.memo - 1][Placed(q) \cup {v}]

MemoProves(q) == opts.word64 /\ MemoGate(q) /\ MemoBound(q) > k

(* The bounds before the children are listed. With only the residual degree   *)
(* asked for, the incremental engine reads it from its histogram.             *)
OnlyResidualDegree == opts.bounds = {"residual_degree"}

BoundExceeds(q) ==
    /\ opts.partialBounds
    /\ IF q.tracked /\ OnlyResidualDegree THEN DegreeBound(q.top) > k
       ELSE CompletionExceeds(graph, Placed(q), k, opts.enabled[k],
                MaximumDegree(graph, Placed(q)), Top(q).cut)

NextExceeds(q) ==
    ~opts.word64 /\ opts.bestNext /\ BestNextExceeds(q, k, Top(q).cut)

Probed(q, cands) ==
    /\ ~opts.word64 /\ opts.probe > 0
    /\ k - Top(q).cut <= opts.probeSlack /\ Len(cands) <= opts.probeChildren
    /\ ~ContinuationExists(graph, q, Twins, k, opts.probe)

ByCut(q) ==
    Candidates(graph, q, Twins, k, Top(q).cut,
        IF opts.word64 THEN q.tracked ELSE opts.index, opts.failFirst)

(* The children the oracle refutes. Only those of a set R may be refuted when   *)
(* the evaluations are interrupted: a value in the memo needs none.            *)
Refutable(q) == {c \in ToSet(ByCut(q)) : ChildBound(q, c.vertex) > k}

(* Ordered by what the oracle says of a child, and without those it refutes.   *)
(* After an interruption nothing is read of the order: the search unwinds.     *)
ByMemo(q, R) ==
    Sorted(ToSet(ByCut(q)) \ R,
        LAMBDA a, b :
            LET x == ChildBound(q, a.vertex)
                y == ChildBound(q, b.vertex)
            IN  x > y \/ (x = y /\ (a.cut > b.cut \/ (a.cut = b.cut /\ a.vertex < b.vertex))))

MemoOrdered(q) == opts.word64 /\ opts.memoOrder /\ MemoGate(q)

(* What listing the children of a node leaves in the cache.                   *)
ChildrenRefuted(q, R) ==
    FoldSet(LAMBDA c, s : RecordThrough(s, Placed(q) \cup {c.vertex}, ChildBound(q, c.vertex)),
            cache, R)

LookaheadGate(q) ==
    /\ opts.lookahead
    /\ opts.lookaheadRemaining = 0 \/ Remains(q) - 1 <= opts.lookaheadRemaining
    /\ Remains(q) > 1

Followed(q) ==
    {j \in Top(q).next..Len(Top(q).cands) :
        LookaheadGate(q) =>
            LegalSecond(graph, q, Twins, k, Top(q).cands[j].vertex, Top(q).cands[j].cut)}

Listed(q, cands) ==
    [q EXCEPT !.frames[Len(q.frames)] = [@ EXCEPT !.entered = TRUE, !.cands = cands]]

Descended(q, j) ==
    LET c == Top(q).cands[j]
    IN  [Push([q EXCEPT !.frames[Len(q.frames)].next = j + 1], c.vertex)
            EXCEPT !.frames = Append(@, Frame(c.cut, c.vertex))]

PopFrame(q) ==
    LET v == Top(q).incoming
    IN  [(IF v = NoSearch THEN q ELSE Pop(q, v)) EXCEPT !.frames = Front(@)]
-----------------------------------------------------------------------------
(* What a search does to the rest. dfs returns "failed" to its caller, in the  *)
(* outermost call to the loop of the thread.                                  *)

Searching(w) == pc[w] = "search"
AtNode(w)    == Searching(w) /\ ~Top(search[w]).entered
Misses(w)    == AtNode(w) /\ ~AtLeaf(search[w]) /\ ~CacheHit(search[w])
Interrupted  == stop \/ late

Returns(w) ==
    LET q == PopFrame(search[w])
    IN  /\ search' = [search EXCEPT ![w] = IF q.frames = << >> THEN NoSearch ELSE q]
        /\ pc' = [pc EXCEPT ![w] = IF q.frames = << >> THEN "loop" ELSE @]

Finds(w, ordering) ==
    /\ found' = [found EXCEPT ![w] = ordering]
    /\ search' = [search EXCEPT ![w] = NoSearch]
    /\ pc' = [pc EXCEPT ![w] = "found"]

Fails(w) ==
    /\ Returns(w)
    /\ cache' = Record(Placed(search[w]))
    /\ UNCHANGED <<fixed, shared, found>>

Leaf(w) ==
    /\ AtNode(w) /\ AtLeaf(search[w])
    /\ Finds(w, search[w].path)
    /\ UNCHANGED <<fixed, shared, cache>>

Hits(w) ==
    /\ AtNode(w) /\ ~AtLeaf(search[w]) /\ CacheHit(search[w])
    /\ Returns(w)
    /\ UNCHANGED <<fixed, shared, found, cache>>

MemoPrunes(w) ==
    /\ Misses(w) /\ MemoProves(search[w])
    /\ Returns(w)
    /\ cache' = RecordThrough(cache, Placed(search[w]), MemoBound(search[w]))
    /\ UNCHANGED <<fixed, shared, found>>

(* An evaluation of the oracle that is interrupted proves nothing.            *)
Unproved(w) == Misses(w) /\ (MemoProves(search[w]) => Interrupted)

(* The bound of an SDP certificate, where one is asked for and returned.       *)
SdpPrunes(w) ==
    /\ Unproved(w) /\ opts.sdp /\ Remains(search[w]) > 1
    /\ opts.exact[Placed(search[w])] > k
    /\ Fails(w)

BoundPrunes(w) == Unproved(w) /\ BoundExceeds(search[w]) /\ Fails(w)

(* The governor may refuse the table.                                         *)
DpApplies(w) ==
    /\ Unproved(w) /\ ~BoundExceeds(search[w])
    /\ ~opts.word64 /\ Remains(search[w]) <= opts.dp

DpResult(q) == ResidualTable(graph, Placed(q))[All \ Placed(q)]

DpPrunes(w) == DpApplies(w) /\ DpResult(search[w]) > k /\ Fails(w)

DpFinds(w) ==
    /\ DpApplies(w) /\ DpResult(search[w]) <= k
    /\ Finds(w, search[w].path \o ReconstructWitness(graph, Placed(search[w])))
    /\ UNCHANGED <<fixed, shared, cache>>

Unpruned(w) == Unproved(w) /\ ~BoundExceeds(search[w])

NextPrunes(w) ==
    /\ Unpruned(w)
    /\ NextExceeds(search[w]) \/ Probed(search[w], ByCut(search[w]))
    /\ Fails(w)

ListsBy(w, cands) == search' = [search EXCEPT ![w] = Listed(search[w], cands)]

Lists(w) ==
    /\ Unpruned(w) /\ ~NextExceeds(search[w])
    /\ Probed(search[w], ByCut(search[w])) => opts.probeLimited
    /\ IF ~MemoOrdered(search[w])
       THEN ListsBy(w, ByCut(search[w])) /\ UNCHANGED cache
       ELSE \E R \in SUBSET Refutable(search[w]) :
                /\ R = Refutable(search[w]) \/ Interrupted
                /\ ListsBy(w, ByMemo(search[w], R))
                /\ cache' = ChildrenRefuted(search[w], R)
    /\ UNCHANGED <<fixed, shared, pc, found>>

Descends(w) ==
    /\ Searching(w) /\ Top(search[w]).entered /\ Followed(search[w]) # {}
    /\ search' = [search EXCEPT ![w] = Descended(@, Min(Followed(@)))]
    /\ UNCHANGED <<fixed, shared, pc, found, cache>>

Exhausts(w) ==
    /\ Searching(w) /\ Top(search[w]).entered /\ Followed(search[w]) = {}
    /\ Fails(w)

(* expired: the flag and the clock are read before each call and each child,   *)
(* by the dynamic engine only every so often (GeometricControlPoller), so that *)
(* a search may go on for a while. It records nothing as it unwinds.          *)
Expires(w) ==
    /\ Searching(w) /\ Interrupted
    /\ search' = [search EXCEPT ![w] = NoSearch]
    /\ pc' = [pc EXCEPT ![w] = "expired"]
    /\ UNCHANGED <<fixed, shared, found, cache>>
-----------------------------------------------------------------------------
(* A thread.                                                                  *)

Leaves(w) ==
    /\ pc[w] = "loop"
    /\ stop \/ next > Len(tasks)
    /\ pc' = [pc EXCEPT ![w] = "left"]
    /\ UNCHANGED <<fixed, shared, search, found, cache>>

(* A thread that finds the deadline passed has left its task undone.          *)
(* Mutant: it only leaves.                                                    *)
TakesQuietly(w) ==
    /\ pc[w] = "loop" /\ ~stop /\ next <= Len(tasks)
    /\ next' = next + 1
    /\ pc' = [pc EXCEPT ![w] = IF late THEN "left" ELSE "search"]
    /\ search' = [search EXCEPT ![w] = IF late THEN @ ELSE NewSearch(tasks[next])]
    /\ UNCHANGED <<fixed, found, cache, stop, timedOut, late, witness, failure, throws, answers>>
Takes(w) ==
    /\ pc[w] = "loop" /\ ~stop /\ next <= Len(tasks)
    /\ next' = next + 1
    /\ IF late
       THEN /\ timedOut' = TRUE /\ stop' = TRUE
            /\ pc' = [pc EXCEPT ![w] = "left"]
            /\ UNCHANGED search
       ELSE /\ pc' = [pc EXCEPT ![w] = "search"]
            /\ search' = [search EXCEPT ![w] = NewSearch(tasks[next])]
            /\ UNCHANGED <<timedOut, stop>>
    /\ UNCHANGED <<fixed, found, cache, late, witness, failure, throws, answers>>

LexLess(a, b) == \E i \in DOMAIN a : a[i] < b[i] /\ \A j \in 1..(i - 1) : a[j] = b[j]

(* Under result_mutex; the flag is raised after.                              *)
Publishes(w) ==
    /\ pc[w] = "found"
    /\ witness' = IF witness = << >> \/ (opts.word64 /\ LexLess(found[w], witness))
                  THEN found[w] ELSE witness
    /\ found' = [found EXCEPT ![w] = << >>]
    /\ pc' = [pc EXCEPT ![w] = "stop"]
    /\ UNCHANGED <<fixed, search, cache, next, stop, timedOut, late, failure, throws, answers>>

Stops(w) ==
    /\ pc[w] = "stop"
    /\ stop' = TRUE
    /\ pc' = [pc EXCEPT ![w] = "loop"]
    /\ UNCHANGED <<fixed, search, found, cache, next, timedOut, late, witness, failure,
                   throws, answers>>

(* A search that ran out of time, and not one that another thread stopped.     *)
TimesOut(w) ==
    /\ pc[w] = "expired"
    /\ timedOut' = (timedOut \/ ~stop) /\ stop' = TRUE
    /\ pc' = [pc EXCEPT ![w] = "loop"]
    /\ UNCHANGED <<fixed, search, found, cache, next, late, witness, failure, throws, answers>>

Throws(w) ==
    /\ Searching(w) /\ throws < MaxThrows
    /\ throws' = throws + 1 /\ failure' = TRUE /\ stop' = TRUE
    /\ search' = [search EXCEPT ![w] = NoSearch]
    /\ pc' = [pc EXCEPT ![w] = "left"]
    /\ UNCHANGED <<fixed, found, cache, next, timedOut, late, witness, answers>>

DeadlinePasses ==
    /\ opts.timed /\ ~late /\ k \notin DOMAIN answers
    /\ late' = TRUE
    /\ UNCHANGED <<fixed, pc, search, found, cache, next, stop, timedOut, witness, failure,
                   throws, answers>>
-----------------------------------------------------------------------------
(* The call.                                                                  *)

Pending == k \notin DOMAIN answers
Joined  == \A w \in Workers : pc[w] = "left"

Combined ==
    IF failure THEN [status |-> "exception", ordering |-> << >>]
    ELSE IF witness # << >> THEN [status |-> "feasible", ordering |-> witness]
    ELSE IF timedOut THEN [status |-> "timed_out", ordering |-> << >>]
    ELSE [status |-> "infeasible", ordering |-> << >>]

Answers ==
    /\ Pending /\ Joined
    /\ answers' = Extended(answers, [t \in {k} |-> Combined])
    /\ UNCHANGED <<fixed, pc, search, found, cache, next, stop, timedOut, late, witness,
                   failure, throws>>

Started(g, t, o) ==
    [pc |-> [w \in Workers |->
                IF Immediate(g, t, o) = {} /\ w <= WorkerCount(g, t, o) THEN "loop" ELSE "left"],
     answer |-> IF Immediate(g, t, o) = {} THEN << >>
                ELSE [u \in {t} |-> CHOOSE a \in Immediate(g, t, o) : TRUE]]

(* Another threshold; a caller that keeps its cache passes it again.          *)
Calls ==
    /\ ~Pending
    /\ \E t \in opts.asked \ DOMAIN answers :
        /\ k' = t /\ tasks' = TasksOf(graph, t, opts)
        /\ pc' = Started(graph, t, opts).pc
        /\ answers' = Extended(Started(graph, t, opts).answer, answers)
    /\ next' = 1 /\ stop' = FALSE /\ timedOut' = FALSE /\ late' = FALSE
    /\ witness' = << >> /\ failure' = FALSE
    /\ cache' = IF opts.keepsCache THEN cache ELSE NewCache("cross")
    /\ UNCHANGED <<graph, opts, search, found, throws>>

Prepared(g, o) ==
    Extended(o,
         [asked   |-> Thresholds[g],
          earlier |-> IF o.twins THEN EarlierTwins(g) ELSE [v \in Vertices(g) |-> {}],
          enabled |-> [t \in Thresholds[g] |-> EnabledBounds(g, o.bounds, t)],
          horizon |-> [d \in Max({0, o.memo - 1})..o.memo |->
                          [S \in SUBSET Vertices(g) |-> FiniteHorizon(g, S, d)]],
          exact   |-> [S \in SUBSET Vertices(g) |-> Completion(g, S)]])

Init ==
    /\ graph \in Graphs
    /\ opts \in {Prepared(graph, o) : o \in Options[graph]}
    /\ k \in Thresholds[graph]
    /\ tasks = TasksOf(graph, k, opts) /\ next = 1
    /\ pc = Started(graph, k, opts).pc /\ answers = Started(graph, k, opts).answer
    /\ search = [w \in Workers |-> NoSearch] /\ found = [w \in Workers |-> << >>]
    /\ cache = NewCache("cross")
    /\ stop = FALSE /\ timedOut = FALSE /\ late = FALSE
    /\ witness = << >> /\ failure = FALSE /\ throws = 0

SearchStep(w) ==
    \/ Leaf(w) \/ Hits(w) \/ MemoPrunes(w) \/ SdpPrunes(w) \/ BoundPrunes(w) \/ DpPrunes(w)
    \/ DpFinds(w) \/ NextPrunes(w) \/ Lists(w) \/ Descends(w) \/ Exhausts(w) \/ Expires(w)

ThreadStep(w) == Leaves(w) \/ Takes(w) \/ Publishes(w) \/ Stops(w) \/ TimesOut(w)

Finished == DOMAIN answers = opts.asked /\ UNCHANGED vars

Next ==
    \/ \E w \in Workers : SearchStep(w) \/ ThreadStep(w) \/ Throws(w)
    \/ DeadlinePasses \/ Answers \/ Calls \/ Finished

Spec == Init /\ [][Next]_vars
-----------------------------------------------------------------------------
(* Properties.                                                                *)

(* A prefix is in the shared cache only with thresholds none of its completions *)
(* keeps, whichever thread and engine recorded it, at its own threshold or      *)
(* through a bound of the finite-horizon oracle (record, record_through).       *)
CacheSound == \A key \in DOMAIN cache.failed : opts.exact[key] > cache.failed[key]

(* decide_cutwidth returns a witness that keeps the threshold, or "infeasible"  *)
(* below the cutwidth although pairs are merged, twins dropped and failures     *)
(* shared between threads, or "timed out" only past the deadline of the call,   *)
(* whatever else has raised the stop flag, or throws only if a search has.      *)
AnswerSound ==
    \A t \in DOMAIN answers :
        LET a == answers[t]
        IN  /\ a.status = "feasible" => /\ ValidOrdering(graph, a.ordering)
                                        /\ OrderingCutwidth(graph, a.ordering) <= t
            /\ a.status = "infeasible" => opts.exact[{}] > t
            /\ a.status = "timed_out" => opts.timed /\ (t = k => late)
            /\ a.status = "exception" => throws > 0
=============================================================================
