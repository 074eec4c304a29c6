----------------------------- MODULE CheapBounds -----------------------------
(* The queue of cheap bounds on regions nobody has started                      *)
(* (progressive_cheap_bound_session.cpp). A fragment is such a region, claimed   *)
(* from the forest with the snapshot of its session; the forest is the state of  *)
(* each region here: "free", "claimed", "retired" or "started".                *)
EXTENDS PartialBounds

L == INSTANCE LagrangianBound

Session(live, tasks, cursor) == [live |-> live, tasks |-> tasks, cursor |-> cursor]
NewSession == Session(<< >>, << >>, 0)

ActivateThreshold(s, k, generation) == [s EXCEPT !.live = (k :> generation) @@ @]
DeactivateThreshold(s, k) == [s EXCEPT !.live = [x \in DOMAIN @ \ {k} |-> @[x]]]

TaskId(f, generation) ==
    [threshold |-> f.threshold, generation |-> generation, region |-> f.region, prefix |-> f.path]
Live(s, id) == id.threshold \in DOMAIN s.live /\ s.live[id.threshold] = id.generation

Settled(s) == SubSeq(s.tasks, 1, s.cursor)
Pending(s) == SubSeq(s.tasks, s.cursor + 1, Len(s.tasks))
HasPending(s) == s.cursor < Len(s.tasks)

Unstarted(f) ==
    /\ f.region # 0 /\ f.status = "unresolved" /\ f.unfinished = 1 /\ f.external = 0
    /\ f.pending = 0 /\ f.frames = 1
Admits(s, f, generation) ==
    /\ Unstarted(f)
    /\ Live(s, TaskId(f, generation))
    /\ TaskId(f, generation) \notin ToSet(Pending(s))
Enqueue(s, f, generation) ==
    IF Admits(s, f, generation) THEN [s EXCEPT !.tasks = Append(@, TaskId(f, generation))] ELSE s

(* ----- What is tried on a prefix ----- *)
Offsets == <<0, 1, -1, 2, -2>>
SelectedCardinalities(n) ==
    LET t(i) == (n \div 2) + Offsets[i]
    IN  SelectSeq([i \in 1..5 |-> t(i)], LAMBDA c : c \in 1..(n - 1))

LagrangianTried(g, P, k, options) ==
    /\ options.lagrangian
    /\ Cut(g, P) <= k /\ k - Cut(g, P) <= options.slack
    /\ Cardinality(Remaining(g, P)) <= options.residual

LagrangianExceeds(g, P, k, options, limit) ==
    LET r == L!Evaluate(g, P, k, SelectedCardinalities(Cardinality(Remaining(g, P))),
                        options.denominator, limit)
    IN  ~r.ineligible /\ ~r.overflow /\ r.best.bound > k

CertifiedPrune(g, P, k, options, limit) ==
    \/ Cut(g, P) > k
    \/ CompletionExceeds(g, P, k, EnabledBounds(g, options.bounds, k), MaximumDegree(g, P), Cut(g, P))
    \/ LagrangianTried(g, P, k, options) /\ LagrangianExceeds(g, P, k, options, limit)

(* ----- A claimed fragment ----- *)
Event(tried, rejected, prune) == [tried |-> tried, rejected |-> rejected, prune |-> prune]
Nothing == Event(FALSE, FALSE, FALSE)

Matches(id, f) == id.region = f.region /\ id.threshold = f.threshold /\ id.prefix = f.path

(* Tasks whose threshold was given up or opened again go; then the first for the *)
(* fragment is taken out. certified is the answer of CertifiedPrune for it.      *)
EvaluateClaimed(s, f, certified) ==
    LET current == SelectSeq(Pending(s), LAMBDA id : Live(s, id))
        index == SelectInSeq(current, LAMBDA id : Matches(id, f))
        fresh == [s EXCEPT !.tasks = Settled(s) \o current]
    IN  IF f.reservation = 0 THEN [session |-> s, event |-> Event(FALSE, TRUE, FALSE)]
        ELSE IF current = << >> THEN [session |-> fresh, event |-> Nothing]
        ELSE IF index = 0 THEN [session |-> fresh, event |-> Event(FALSE, TRUE, FALSE)]
        ELSE [session |-> [fresh EXCEPT !.tasks = Settled(s) \o RemoveAt(current, index)],
              event |-> Event(TRUE, FALSE, certified)]

(* release_claimed and retire_claimed answer whether the claim still held.       *)
Becomes(forest, f, state) ==
    IF forest[f.region] = "claimed" THEN [forest EXCEPT ![f.region] = state] ELSE forest

CommitOrRelease(forest, f, event) ==
    LET held == forest[f.region] = "claimed"
        retires == event.tried /\ ~event.rejected /\ event.prune
    IN  [forest |-> Becomes(forest, f, IF retires THEN "retired" ELSE "free"),
         event |-> [event EXCEPT !.rejected = @ \/ ~held, !.prune = @ /\ held]]

(* One turn: f is what the forest claims for it.                               *)
ServiceOne(s, forest, f, certified) ==
    LET claimed == [forest EXCEPT ![f.region] = "claimed"]
        generation == s.live[f.threshold]
        evaluated == EvaluateClaimed(Enqueue(s, f, generation), f, certified)
        settled == CommitOrRelease(claimed, f, evaluated.event)
    IN  IF f.threshold \in DOMAIN s.live /\ Admits(s, f, generation)
        THEN [session |-> evaluated.session, forest |-> settled.forest, event |-> settled.event]
        ELSE [session |-> s, forest |-> CommitOrRelease(claimed, f, Nothing).forest, event |-> Nothing]

ValidSnapshot(saved) == saved.cursor <= Len(saved.tasks)
Restored(saved) == Session(saved.live, saved.tasks, saved.cursor)
=============================================================================
