--------------------------- MODULE DecisionSearch ---------------------------
(* The decision "is the cutwidth at most k" as the solver answers it: regions  *)
(* of the search tree, each a resumable session (decision_session.cpp) or, as  *)
(* long as it is deferred, a run of the recursive kernel (SearchDynamic of      *)
(* decision.cpp), share one cache of failed prefixes. One action is one turn    *)
(* of the loop in service or one call of dfs; between two turns a session may   *)
(* be left, split or saved. How regions are queued and settled is ProofForest's,*)
(* who searches a set is Ownership's.                                           *)
EXTENDS SearchNode, FailureCache

CONSTANTS
    Graphs,        \* the graphs to choose from
    Thresholds,    \* thresholds asked of a graph, in any order
    Options,       \* DecisionOptions to choose from for a graph
    MaxRegions,    \* regions that exist at one time, above every max_proof_regions
    MaxInterrupts, \* checkpoints with a restart, and kernel runs cut short
    FrontierTarget, \* states the canonical frontier aims at: workers squared
    MemoryBudget,  \* of the governor, in states of residual DP tables
    NoVertex, NoRegion

ASSUME RegionsAssumption ==
    MaxRegions \in Nat \ {0} /\ MaxInterrupts \in Nat /\ FrontierTarget \in Nat \ {0}
ASSUME GraphsAssumption ==
    \A g \in Graphs : \A v \in Vertices(g) : g[v] \subseteq Vertices(g) \ {v}

Regions == 1..MaxRegions

(* The canonical frontier: the distinct sets of the deepest level that has     *)
(* enough of them, or of the last one before they are too many; the search     *)
(* may be over before a region exists.                                        *)
NextStates(g, t, level) ==
    FoldLeft(LAMBDA states, path :
        FoldLeft(LAMBDA found, v :
            IF \/ v \in ToSet(path) \/ Cut(g, ToSet(path) \cup {v}) > t
               \/ \E i \in DOMAIN found : ToSet(found[i]) = ToSet(path) \cup {v}
            THEN found ELSE Append(found, Append(path, v)),
        states, Sorted(Vertices(g), <)), << >>, level)

BuildCanonicalFrontier(g, t, bound) ==
    LET n == Cardinality(Vertices(g))
        level[i \in 0..n] == IF i = 0 THEN << << >> >> ELSE NextStates(g, t, level[i - 1])
        last == Min({i \in 0..n : \/ i = n \/ level[i] = << >> \/ Len(level[i]) >= FrontierTarget
                                  \/ i + 1 < n /\ Len(level[i + 1]) > bound})
    IN  level[last]

(* What a search works out once from its graph; exact is what it is measured   *)
(* against.                                                                   *)
Prepared(g, o) ==
    Extended(o,
         [asked   |-> Thresholds[g],
          earlier |-> IF o.twins THEN EarlierTwins(g) ELSE [v \in Vertices(g) |-> {}],
          enabled |-> [t \in Thresholds[g] |-> EnabledBounds(g, o.bounds, t)],
          level   |-> [t \in Thresholds[g] |->
                          IF o.frontier THEN BuildCanonicalFrontier(g, t, o.limit)
                          ELSE << << >> >>],
          exact   |-> [S \in SUBSET Vertices(g) |-> Completion(g, S)]])

VARIABLES
    graph,
    opts,        \* DecisionOptions and what is Prepared
    k,           \* the threshold being decided
    answers,     \* status and witness per threshold decided
    cache,
    regions,     \* DecisionSession per region, or NoRegion
    kernel,      \* SearchDynamic per region while one runs
    interrupts

vars == <<graph, opts, k, answers, cache, regions, kernel, interrupts>>

Twins   == opts.earlier
Bounds  == opts.enabled[k]
Tracked == "residual_degree" \in Bounds
All     == Vertices(graph)
Caching == opts.cache # "none"

-----------------------------------------------------------------------------
(* Frames and regions.                                                        *)

Frame(cut, incoming) ==
    [cut |-> cut, incoming |-> incoming, entered |-> FALSE, canonical |-> TRUE,
     next |-> 1, cands |-> << >>]

NewRegion(g, bounds, path, cut, parent, deferred) ==
    Extended(NodeAt(g, path, "residual_degree" \in bounds),
        [frames |-> <<Frame(cut, NoVertex)>>, root |-> Len(path), pending |-> << >>,
         unfinished |-> 1, partitioned |-> FALSE, localDone |-> FALSE,
         status |-> "unresolved", dp |-> 0, parent |-> parent, deferred |-> deferred])

Top(q) == Last(q.frames)

PopFrame(q) ==
    LET f == Top(q)
        n == IF f.incoming = NoVertex THEN q ELSE Undo(graph, q, f.incoming)
    IN  [n EXCEPT !.frames = Front(@)]

LoadPending(s) ==
    LET p == Head(s.pending)
    IN  Extended([root |-> Len(p.path), frames |-> <<Frame(p.cut, NoVertex)>>,
                   pending |-> Tail(s.pending), partitioned |-> FALSE, localDone |-> FALSE],
                  Extended(NodeAt(graph, p.path, Tracked), s))

CompleteRegion(s) ==
    LET t == [s EXCEPT !.unfinished = @ - 1]
    IN  IF t.pending # << >> THEN LoadPending(t)
        ELSE IF t.unfinished = 0 THEN [t EXCEPT !.status = "infeasible"]
        ELSE [t EXCEPT !.localDone = TRUE]

FinishedFrame(s) ==
    LET t == PopFrame([s EXCEPT !.dp = 0])
    IN  IF t.frames = << >> THEN CompleteRegion(t) ELSE t

(* record_failure: a frame below which a sibling was given away is no proof.  *)
(* Mutant: it is taken for one.                                               *)
RecordEveryFailure(s) == IF Caching THEN Recorded(cache, Placed(s), k) ELSE cache
RecordFailure(s) ==
    IF Caching /\ Top(s).canonical THEN Recorded(cache, Placed(s), k) ELSE cache

Entered(q, cands) ==
    [q EXCEPT !.frames[Len(q.frames)] = [@ EXCEPT !.entered = TRUE, !.cands = cands]]

Children(q) ==
    Candidates(graph, q, Twins, k, Top(q).cut, opts.index, opts.failFirst)

LookaheadGate(q) ==
    /\ opts.lookahead
    /\ opts.lookaheadRemaining = 0
       \/ Cardinality(All) - Len(q.path) - 1 <= opts.lookaheadRemaining
    /\ Len(q.path) + 1 < Cardinality(All)

(* The candidates of the top frame the descent does not pass over.            *)
Followed(q) ==
    {j \in Top(q).next..Len(Top(q).cands) :
        LookaheadGate(q) =>
            LegalSecond(graph, q, Twins, k, Top(q).cands[j].vertex, Top(q).cands[j].cut)}

(* ++next_candidate. Mutant: the candidate stays the next one.                *)
Stay(q, j) == [q EXCEPT !.frames[Len(q.frames)].next = j]
Advance(q, j) == [q EXCEPT !.frames[Len(q.frames)].next = j + 1]

Descended(q, j) ==
    LET c == Top(q).cands[j]
    IN  [Apply(graph, Advance(q, j), c.vertex) EXCEPT !.frames = Append(@, Frame(c.cut, c.vertex))]

-----------------------------------------------------------------------------
Undecided == k \notin DOMAIN answers

Decides(t, status, ordering) == [u \in {t} |-> [status |-> status, ordering |-> ordering]]

Ends(status, ordering) ==
    /\ answers' = Extended(answers, Decides(k, status, ordering))
    /\ kernel' = [r \in Regions |-> NoRegion]

Witness(ordering) == Ends("feasible", ordering)

AtLeaf(q)   == Len(q.path) = Cardinality(All)
CacheHit(q) == Caching /\ Proves(cache, Placed(q), k)

BoundExceeds(q) ==
    opts.partialBounds /\ CompletionExceeds(graph, Placed(q), k, Bounds,
        IF q.tracked THEN q.top ELSE MaximumDegree(graph, Placed(q)), Top(q).cut)

ProbeGated(q, cands) ==
    opts.probe > 0 /\ k - Top(q).cut <= opts.probeSlack /\ Len(cands) <= opts.probeChildren
ProbeExhausted(q) == ~ContinuationExists(graph, q, Twins, k, opts.probe)
-----------------------------------------------------------------------------
(* Sessions.                                                                  *)

Served(r) ==
    /\ Undecided /\ opts.sessions /\ regions[r] # NoRegion /\ kernel[r] = NoRegion
    /\ regions[r].status = "unresolved" /\ ~regions[r].localDone

Session(r)   == [regions[r] EXCEPT !.deferred = FALSE]
Entering(r)  == Served(r) /\ regions[r].dp = 0 /\ ~Top(regions[r]).entered
Misses(r)    == Entering(r) /\ ~AtLeaf(regions[r]) /\ ~CacheHit(regions[r])
Passes(r)    == Misses(r) /\ ~BoundExceeds(regions[r])

FailsFrame(r, s) ==
    /\ regions' = [regions EXCEPT ![r] = FinishedFrame(s)]
    /\ cache' = RecordFailure(s)

ReachesLeaf(r) ==
    /\ Entering(r) /\ AtLeaf(regions[r])
    /\ Witness(regions[r].path)
    /\ regions' = [regions EXCEPT ![r] = [Entered(Session(r), << >>) EXCEPT !.status = "feasible"]]
    /\ UNCHANGED <<graph, opts, k, cache, interrupts>>

HitsCache(r) ==
    /\ Entering(r) /\ ~AtLeaf(regions[r]) /\ CacheHit(regions[r])
    /\ regions' = [regions EXCEPT ![r] = FinishedFrame(Session(r))]
    /\ cache' = Touched(cache, Placed(regions[r]))
    /\ UNCHANGED <<graph, opts, k, answers, kernel, interrupts>>

BoundPrunes(r) ==
    /\ Misses(r) /\ BoundExceeds(regions[r])
    /\ FailsFrame(r, Entered(Session(r), << >>))
    /\ UNCHANGED <<graph, opts, k, answers, kernel, interrupts>>

(* The governor's lease of a table lives as long as the table.                *)
Leased == MapThenSumSet(LAMBDA r : ResidualStates(graph, Placed(regions[r])),
                        {r \in Regions : regions[r] # NoRegion /\ regions[r].dp > 0})

DpAdmitted(q) ==
    /\ Cardinality(All) - Len(q.path) \in 1..opts.dp
    /\ Leased + ResidualStates(graph, Placed(q)) <= MemoryBudget

AdmitsDp(r) ==
    /\ Passes(r) /\ DpAdmitted(regions[r])
    /\ regions' = [regions EXCEPT ![r] = [Entered(Session(r), << >>) EXCEPT !.dp = 1]]
    /\ UNCHANGED <<graph, opts, k, answers, cache, kernel, interrupts>>

DpLast(s)   == s.dp + 1 = ResidualStates(graph, Placed(s))
DpResult(s) == ResidualTable(graph, Placed(s))[All \ Placed(s)]

DpAdvances(r) ==
    /\ Served(r) /\ regions[r].dp > 0 /\ ~DpLast(regions[r])
    /\ regions' = [regions EXCEPT ![r].dp = @ + 1]
    /\ UNCHANGED <<graph, opts, k, answers, cache, kernel, interrupts>>

DpProves(r) ==
    /\ Served(r) /\ regions[r].dp > 0 /\ DpLast(regions[r]) /\ DpResult(regions[r]) > k
    /\ FailsFrame(r, regions[r])
    /\ UNCHANGED <<graph, opts, k, answers, kernel, interrupts>>

DpFinds(r) ==
    /\ Served(r) /\ regions[r].dp > 0 /\ DpLast(regions[r]) /\ DpResult(regions[r]) <= k
    /\ Witness(regions[r].path \o ReconstructWitness(graph, Placed(regions[r])))
    /\ regions' = [regions EXCEPT ![r].status = "feasible", ![r].dp = 0]
    /\ UNCHANGED <<graph, opts, k, cache, interrupts>>

(* The session of a frame whose candidates are listed: entered before, or on  *)
(* this turn.                                                                 *)
Listed(r) ==
    IF Served(r) /\ regions[r].dp = 0 /\ Top(regions[r]).entered THEN {Session(r)}
    ELSE IF Passes(r) /\ ~DpAdmitted(regions[r])
         THEN {Entered(Session(r), Children(regions[r]))}
    ELSE {}

ProbePrunes(r) ==
    /\ Passes(r) /\ ~DpAdmitted(regions[r])
    /\ ProbeGated(regions[r], Children(regions[r])) /\ ProbeExhausted(regions[r])
    /\ FailsFrame(r, Entered(Session(r), << >>))
    /\ UNCHANGED <<graph, opts, k, answers, kernel, interrupts>>

(* A probe that says "none" prunes; one stopped at its limit does not.        *)
ProbeAllows(r) ==
    Entering(r) => \/ ~ProbeGated(regions[r], Children(regions[r]))
                   \/ ~ProbeExhausted(regions[r]) \/ opts.probeLimited

Raises(s) == Overflows(graph, s, Top(s).cands[Min(Followed(s))].vertex)

Descends(r) ==
    /\ \E s \in Listed(r) :
        /\ ProbeAllows(r) /\ Followed(s) # {} /\ ~Raises(s)
        /\ regions' = [regions EXCEPT ![r] = Descended(s, Min(Followed(s)))]
    /\ UNCHANGED <<graph, opts, k, answers, cache, kernel, interrupts>>

(* service throws, and with it the search.                                    *)
Throws(r) ==
    /\ \E s \in Listed(r) : ProbeAllows(r) /\ Followed(s) # {} /\ Raises(s)
    /\ Ends("exception", << >>)
    /\ UNCHANGED <<graph, opts, k, cache, regions, interrupts>>

Exhausts(r) ==
    /\ \E s \in Listed(r) : ProbeAllows(r) /\ Followed(s) = {} /\ FailsFrame(r, s)
    /\ UNCHANGED <<graph, opts, k, answers, kernel, interrupts>>
-----------------------------------------------------------------------------
(* Splitting a session.                                                       *)

Donors(s) == {d \in DOMAIN s.frames : s.frames[d].entered /\ s.frames[d].next <= Len(s.frames[d].cands)}

(* The next candidate of the deepest frame that has one leaves; the frames     *)
(* above it cover their subtrees no longer.                                   *)
DonatedPath(s) ==
    LET d == Max(Donors(s))
    IN  [path |-> Append(SubSeq(s.path, 1, s.root + d - 1),
                         s.frames[d].cands[s.frames[d].next].vertex),
         cut |-> s.frames[d].cands[s.frames[d].next].cut]

Donated(s) ==
    LET d == Max(Donors(s))
    IN  [s EXCEPT !.frames = [e \in DOMAIN @ |->
                      IF e > d THEN @[e]
                      ELSE [@[e] EXCEPT !.canonical = FALSE, !.next = IF e = d THEN @ + 1 ELSE @]],
                  !.pending = Append(@, DonatedPath(s)),
                  !.unfinished = @ + 1, !.partitioned = TRUE]

Splits(r) ==
    /\ Undecided /\ regions[r] # NoRegion /\ kernel[r] = NoRegion
    /\ regions[r].status = "unresolved" /\ Donors(regions[r]) # {}

(* A session of its own keeps the sibling for later.                          *)
KeepsSibling(r) ==
    /\ Splits(r) /\ opts.keeps /\ Len(regions[r].pending) + 1 < opts.limit
    /\ regions' = [regions EXCEPT ![r] = Donated(regions[r])]
    /\ UNCHANGED <<graph, opts, k, answers, cache, kernel, interrupts>>

(* extract_pending_continuation: the forest makes it a region of its own.     *)
Gives(r) ==
    /\ Splits(r) /\ ~opts.keeps
    /\ Cardinality({b \in Regions : regions[b] # NoRegion}) < opts.limit
    /\ \E c \in Regions :
        /\ regions[c] = NoRegion /\ \A b \in 1..(c - 1) : regions[b] # NoRegion
        /\ LET s == Donated(regions[r])
           IN  regions' = [regions EXCEPT
                   ![r] = [s EXCEPT !.pending = Tail(@)],
                   ![c] = NewRegion(graph, Bounds, Head(s.pending).path,
                                       Head(s.pending).cut, r, FALSE)]
    /\ UNCHANGED <<graph, opts, k, answers, cache, kernel, interrupts>>

(* resolve_external_failure: with the last child the region as a whole has     *)
(* failed and is a proof again.                                               *)
Rejoined(s) == s.unfinished = 1

ChildFails(c) ==
    /\ Undecided /\ regions[c] # NoRegion /\ regions[c].status = "infeasible"
    /\ regions[c].parent # NoRegion
    /\ LET p == regions[c].parent
           s == [regions[p] EXCEPT !.unfinished = @ - 1]
       IN  /\ regions' = [regions EXCEPT
                  ![c] = NoRegion,
                  ![p] = IF s.unfinished = 0 THEN [s EXCEPT !.status = "infeasible"] ELSE s]
           /\ cache' = IF Caching /\ Rejoined(regions[p]) THEN Recorded(cache, Placed(s), k) ELSE cache
    /\ UNCHANGED <<graph, opts, k, answers, kernel, interrupts>>

RootFails(r) ==
    /\ Undecided /\ regions[r] # NoRegion /\ regions[r].status = "infeasible"
    /\ regions[r].parent = NoRegion
    /\ answers' = Extended(answers, Decides(k, "infeasible", << >>))
    /\ UNCHANGED <<graph, opts, k, cache, regions, kernel, interrupts>>
-----------------------------------------------------------------------------
(* The recursive kernel (SearchDynamic.dfs, RecursiveDynamicSubtreeWorker): a  *)
(* deferred region is searched whole; what it has done is lost when it is      *)
(* stopped, except for the failures it recorded.                              *)

KernelStarts(r) ==
    /\ Undecided /\ regions[r] # NoRegion /\ kernel[r] = NoRegion
    /\ regions[r].deferred /\ regions[r].status = "unresolved"
    /\ regions[r].unfinished = 1 /\ ~regions[r].localDone /\ Len(regions[r].frames) = 1
    /\ kernel' = [kernel EXCEPT ![r] =
           Extended(NodeAt(graph, regions[r].path, FALSE),
                     [frames |-> <<Frame(regions[r].frames[1].cut, NoVertex)>>])]
    /\ UNCHANGED <<graph, opts, k, answers, cache, regions, interrupts>>

KernelAt(r)     == Undecided /\ kernel[r] # NoRegion /\ ~Top(kernel[r]).entered
KernelMisses(r) == KernelAt(r) /\ ~AtLeaf(kernel[r]) /\ ~CacheHit(kernel[r])

(* The outermost call returns "failed": mark_certified_infeasible.            *)
KernelReturns(r) ==
    LET t == PopFrame(kernel[r])
    IN  /\ kernel' = [kernel EXCEPT ![r] = IF t.frames = << >> THEN NoRegion ELSE t]
        /\ regions' = IF t.frames # << >> THEN regions
                      ELSE [regions EXCEPT ![r].status = "infeasible", ![r].deferred = FALSE]

KernelRecords(r) ==
    /\ KernelReturns(r)
    /\ cache' = IF Caching THEN Recorded(cache, Placed(kernel[r]), k) ELSE cache

KernelLeaf(r) ==
    /\ KernelAt(r) /\ AtLeaf(kernel[r])
    /\ Witness(kernel[r].path)
    /\ regions' = [regions EXCEPT ![r].status = "feasible", ![r].deferred = FALSE]
    /\ UNCHANGED <<graph, opts, k, cache, interrupts>>

KernelHits(r) ==
    /\ KernelAt(r) /\ ~AtLeaf(kernel[r]) /\ CacheHit(kernel[r])
    /\ KernelReturns(r)
    /\ cache' = Touched(cache, Placed(kernel[r]))
    /\ UNCHANGED <<graph, opts, k, answers, interrupts>>

(* The rules tried in this order; a table is filled at one go.                *)
KernelBound(r) == BoundExceeds(kernel[r])
KernelDp(r)    == ~KernelBound(r) /\ DpAdmitted(kernel[r])
KernelNext(r)  == ~KernelBound(r) /\ ~DpAdmitted(kernel[r])
                  /\ opts.bestNext /\ BestNextExceeds(kernel[r], k, Top(kernel[r]).cut)

KernelPrunes(r) ==
    /\ KernelMisses(r)
    /\ \/ KernelBound(r) \/ KernelNext(r)
       \/ KernelDp(r) /\ DpResult(kernel[r]) > k
       \/ /\ ~KernelDp(r)
          /\ ProbeGated(kernel[r], Children(kernel[r])) /\ ProbeExhausted(kernel[r])
    /\ KernelRecords(r)
    /\ UNCHANGED <<graph, opts, k, answers, interrupts>>

KernelFinds(r) ==
    /\ KernelMisses(r) /\ KernelDp(r) /\ DpResult(kernel[r]) <= k
    /\ Witness(kernel[r].path \o ReconstructWitness(graph, Placed(kernel[r])))
    /\ regions' = [regions EXCEPT ![r].status = "feasible", ![r].deferred = FALSE]
    /\ UNCHANGED <<graph, opts, k, cache, interrupts>>

KernelListed(r) ==
    IF ~Undecided \/ kernel[r] = NoRegion THEN {}
    ELSE IF Top(kernel[r]).entered THEN {kernel[r]}
    ELSE IF /\ KernelMisses(r) /\ ~KernelBound(r) /\ ~KernelDp(r) /\ ~KernelNext(r)
            /\ \/ ~ProbeGated(kernel[r], Children(kernel[r]))
               \/ ~ProbeExhausted(kernel[r]) \/ opts.probeLimited
         THEN {Entered(kernel[r], Children(kernel[r]))}
    ELSE {}

KernelDescends(r) ==
    /\ \E q \in KernelListed(r) :
        /\ Followed(q) # {}
        /\ kernel' = [kernel EXCEPT ![r] = Descended(q, Min(Followed(q)))]
    /\ UNCHANGED <<graph, opts, k, answers, cache, regions, interrupts>>

KernelExhausts(r) ==
    /\ \E q \in KernelListed(r) : Followed(q) = {}
    /\ KernelRecords(r)
    /\ UNCHANGED <<graph, opts, k, answers, interrupts>>

(* Its credit used up, the region goes on as a session; stopped for another    *)
(* reason it stays deferred.                                                  *)
KernelStops(r) ==
    /\ Undecided /\ kernel[r] # NoRegion /\ interrupts < MaxInterrupts
    /\ \E stays \in {TRUE, ~opts.sessions} : regions' = [regions EXCEPT ![r].deferred = stays]
    /\ kernel' = [kernel EXCEPT ![r] = NoRegion]
    /\ interrupts' = interrupts + 1
    /\ UNCHANGED <<graph, opts, k, answers, cache>>
-----------------------------------------------------------------------------
(* Checkpoint and restart: what a saved region is when it is built again. The  *)
(* frames of a region that gave work away are no proof, a table is begun anew,  *)
(* and the failures recorded so far are not saved.                            *)

ExternalRegions(r) == Cardinality({c \in Regions : regions[c] # NoRegion /\ regions[c].parent = r})

(* saved.entered: false where a table was being filled. Mutant: as it is.      *)
SavedAsEntered(s, i) == s.frames[i].entered
SavedEntered(s, i)   == s.frames[i].entered /\ ~(i = Len(s.frames) /\ s.dp > 0)

Restored(r) ==
    LET s == regions[r]
        frames == [i \in DOMAIN s.frames |->
            [s.frames[i] EXCEPT !.canonical = ~s.partitioned, !.entered = SavedEntered(s, i)]]
    IN  Extended(
            [frames |-> frames, dp |-> 0,
             root |-> IF frames = << >> THEN Len(s.path) ELSE Len(s.path) + 1 - Len(frames),
             localDone |-> s.status = "unresolved" /\ frames = << >>,
             deferred |-> /\ opts.kernel /\ s.unfinished = 1 /\ s.pending = << >>
                          /\ ExternalRegions(r) = 0 /\ Len(frames) = 1],
            Extended(NodeAt(graph, s.path, Tracked), s))

Restarts ==
    /\ Undecided /\ opts.sessions /\ interrupts < MaxInterrupts
    /\ \A r \in Regions : regions[r] # NoRegion => regions[r].status = "unresolved"
    /\ regions' = [r \in Regions |-> IF regions[r] = NoRegion THEN NoRegion ELSE Restored(r)]
    /\ kernel' = [r \in Regions |-> NoRegion]
    /\ cache' = NewCache(opts.cache)
    /\ interrupts' = interrupts + 1
    /\ UNCHANGED <<graph, opts, k, answers>>

(* A threshold is begun with one region, or with one per state of the frontier *)
(* and the root waiting for them.                                             *)
StartRegions(g, t, o) ==
    LET bounds == o.enabled[t]
        level == o.level[t]
        root == NewRegion(g, bounds, << >>, 0, NoRegion, ~o.sessions)
    IN  [r \in Regions |->
            IF level = << << >> >> \/ level = << >> THEN IF r = 1 THEN root ELSE NoRegion
            ELSE IF r = 1 THEN [root EXCEPT !.frames = << >>, !.unfinished = Len(level),
                                            !.partitioned = TRUE, !.localDone = TRUE]
            ELSE IF r - 1 \in DOMAIN level
                 THEN NewRegion(g, bounds, level[r - 1], Cut(g, ToSet(level[r - 1])), 1, o.kernel)
            ELSE NoRegion]

StartAnswers(g, t, o) ==
    LET level == o.level[t]
    IN  IF level = << >> THEN Decides(t, "infeasible", << >>)
        ELSE IF Len(level[1]) = Cardinality(Vertices(g))
             THEN Decides(t, "feasible", level[1])
        ELSE << >>

Asked == DOMAIN answers = opts.asked
Thrown == \E t \in DOMAIN answers : answers[t].status = "exception"

(* The controller asks another threshold. The cross-threshold cache outlives   *)
(* it where the searches are not sessions.                                    *)
NextThreshold ==
    /\ ~Undecided /\ ~Thrown
    /\ \E t \in opts.asked \ DOMAIN answers :
        /\ k' = t
        /\ answers' = Extended(StartAnswers(graph, t, opts), answers)
        /\ regions' = StartRegions(graph, t, opts)
    /\ kernel' = [r \in Regions |-> NoRegion]
    /\ cache' = IF opts.cache = "cross" /\ ~opts.sessions THEN cache ELSE NewCache(opts.cache)
    /\ UNCHANGED <<graph, opts, interrupts>>

Init ==
    /\ graph \in Graphs /\ k \in Thresholds[graph]
    /\ opts \in {Prepared(graph, o) : o \in Options[graph]}
    /\ answers = StartAnswers(graph, k, opts) /\ regions = StartRegions(graph, k, opts)
    /\ cache = NewCache(opts.cache) /\ interrupts = 0
    /\ kernel = [r \in Regions |-> NoRegion]

SessionStep(r) ==
    \/ ReachesLeaf(r) \/ HitsCache(r) \/ BoundPrunes(r) \/ AdmitsDp(r) \/ DpAdvances(r)
    \/ DpProves(r) \/ DpFinds(r) \/ ProbePrunes(r) \/ Descends(r) \/ Throws(r)
    \/ Exhausts(r) \/ KeepsSibling(r) \/ Gives(r) \/ ChildFails(r) \/ RootFails(r)

KernelStep(r) ==
    \/ KernelStarts(r) \/ KernelLeaf(r) \/ KernelHits(r) \/ KernelPrunes(r) \/ KernelFinds(r)
    \/ KernelDescends(r) \/ KernelExhausts(r) \/ KernelStops(r)

Finished == (Asked \/ Thrown) /\ UNCHANGED vars

Next ==
    \/ \E r \in Regions : SessionStep(r) \/ KernelStep(r)
    \/ Restarts \/ NextThreshold \/ Finished

Spec == Init /\ [][Next]_vars /\ WF_vars(Next)
-----------------------------------------------------------------------------
(* Properties.                                                                *)

ExactOf(P) == opts.exact[P]

(* A prefix is in the cache of failures (cache_record) only if no completion   *)
(* of it keeps the threshold it is recorded at, whoever recorded it: a region   *)
(* that gave work away, the last child to fail, the kernel, a restored region. *)
CacheSound ==
    /\ \A key \in DOMAIN cache.failed : ExactOf(key) > cache.failed[key]
    /\ \A key \in Keys(cache) : ExactOf(key) > k

(* An answer is right: a witness orders every vertex within the threshold, and *)
(* a threshold reported infeasible lies below the cutwidth; so is the failure   *)
(* of every region, of the prefix it was created for. Only a search that was   *)
(* saved, and keeps residual degrees, may end with an exception.              *)
AnswerSound ==
    /\ \A t \in DOMAIN answers :
        IF answers[t].status = "feasible"
        THEN /\ ValidOrdering(graph, answers[t].ordering)
             /\ OrderingCutwidth(graph, answers[t].ordering) <= t
        ELSE IF answers[t].status = "infeasible" THEN ExactOf({}) > t
        ELSE interrupts > 0 /\ "residual_degree" \in opts.enabled[t]
    /\ \A r \in Regions : regions[r] # NoRegion /\ regions[r].status = "infeasible" /\ Undecided
        => ExactOf(ToSet(SubSeq(regions[r].path, 1, regions[r].root))) > k

(* The prefixes a region still has to search.                                 *)
OpenPrefixes(s) ==
    LET at(d) == ToSet(SubSeq(s.path, 1, s.root + d - 1))
        whole(d) == ~s.frames[d].entered \/ (d = Len(s.frames) /\ s.dp > 0)
    IN  {at(d) : d \in {e \in DOMAIN s.frames : whole(e)}}
        \cup UNION {{at(d) \cup {s.frames[d].cands[j].vertex} :
                        j \in s.frames[d].next..Len(s.frames[d].cands)} : d \in DOMAIN s.frames}
        \cup {ToSet(s.pending[i].path) : i \in DOMAIN s.pending}

(* No part of the search is lost: while a threshold that can be kept is        *)
(* undecided, a prefix with a completion that keeps it is still to be searched *)
(* by some region, through descents, donations, twins, pruning and restarts.   *)
Covered ==
    Undecided /\ ExactOf({}) <= k =>
        \E r \in Regions : /\ regions[r] # NoRegion /\ regions[r].status = "unresolved"
                           /\ \E P \in OpenPrefixes(regions[r]) : ExactOf(P) <= k

(* The state apply and undo keep up to date is what it would be if computed    *)
(* from the path, and every frame holds the cut of its prefix; in a search that *)
(* was saved the residual degrees may be too small, never too large.           *)
StateExact ==
    \A r \in Regions : \A q \in {regions[r], kernel[r]} \ {NoRegion} :
        /\ IF interrupts = 0 THEN ExactState(graph, q) ELSE ResumedState(graph, q)
        /\ \A d \in DOMAIN q.frames :
            q.frames[d].cut = Cut(graph, ToSet(SubSeq(q.path, 1, Len(q.path) - Len(q.frames) + d)))

(* Every threshold asked is decided: no region waits for a child that is gone, *)
(* and no region is left without an owner; or the search has thrown.           *)
Decided == <>(Asked \/ Thrown)
=============================================================================
