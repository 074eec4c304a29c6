-------------------------- MODULE CertificateChecks --------------------------
(* The Lagrangian bounds (LagrangianBound) and the queue that applies them to    *)
(* the regions of a proof forest (CheapBounds).                                *)
EXTENDS Cutwidth

L == INSTANCE LagrangianBound
B == INSTANCE CheapBounds

Claw    == SimpleGraph(4, {<<0, 1>>, <<0, 2>>, <<0, 3>>})
Dart    == SimpleGraph(4, {<<0, 1>>, <<1, 2>>, <<2, 0>>, <<2, 3>>})
Complete == SimpleGraph(4, {<<a, b>> \in (0..3) \X (0..3) : a < b})
Square  == SimpleGraph(4, {<<0, 1>>, <<1, 2>>, <<2, 3>>, <<3, 0>>})
Bounded == {Claw, Dart, Complete, Square}
ShortPrefixes(g) == {P \in SUBSET Vertices(g) : Cardinality(P) <= Cardinality(Vertices(g)) - 2}
Wide == 1000

CutAfter(g, P, t) == Min({Cut(g, P \cup W) : W \in {W \in SUBSET (Vertices(g) \ P) : Cardinality(W) = t}})

(* What the flow finds is the smallest cut between the source and the sink.      *)
ASSUME FlowsMinimal ==
    \A g \in Bounded, P \in {{}, {2}, {1, 2}}, q \in 1..2 : \A p \in L!Numerators(g, q) :
        LET net == L!Network(g, P, q, p)
            sides == {S \cup {L!Source} : S \in SUBSET (Vertices(g) \ P)}
            across(S) == MapThenSumSet(LAMBDA a : net[a], {a \in DOMAIN net : a[1] \in S /\ a[2] \notin S})
        IN  L!MaxFlow(net, 0, 0).flow = Min({across(S) : S \in sides})

(* Every certificate is a lower bound on the smallest cut t vertices later, so   *)
(* on every completion of the prefix, whatever the threshold, the cardinalities  *)
(* and the integers; the arithmetic that is not checked fits all the same.       *)
ASSUME CertificatesSound ==
    \A g \in Bounded : \A P \in ShortPrefixes(g), q \in {1, 2, 4}, limit \in {4, 17, Wide} :
        /\ \A k \in {0, Wide}, selected \in {<< >>, <<2, 1, 5>>} :
            LET r == L!Evaluate(g, P, k, selected, q, limit)
            IN  /\ r.best.bound > 0 => /\ r.best.bound <= CutAfter(g, P, r.best.cardinality)
                                       /\ r.best.bound <= Completion(g, P)
                /\ limit = Wide => ~r.overflow
        /\ \A p \in L!Numerators(g, q), t \in 1..2 : L!PointBound(g, P, q, p, t, limit).most <= limit

(* Some certificates are exact: the claw a vertex after its centre.              *)
ASSUME CertificatesTight ==
    L!Evaluate(Claw, {0}, Wide, << >>, 2, Wide).best = L!Certificate(1, 2, CutAfter(Claw, {0}, 1))

(* No certificate exceeds the cut of the prefix itself, since the empty set and   *)
(* the whole rest are among the sets the minimum is over: below a threshold the   *)
(* cut keeps, the Lagrangian bound decides nothing.                            *)
ASSUME CertificatesWithinCut ==
    \A g \in Bounded : \A P \in ShortPrefixes(g), q \in 1..2 :
        L!Evaluate(g, P, Wide, << >>, q, Wide).best.bound <= Cut(g, P)

Kinds(lagrangian, bounds, slack, residual, q) ==
    [lagrangian |-> lagrangian, bounds |-> bounds, slack |-> slack, residual |-> residual, denominator |-> q]
AllKinds ==
    {Kinds(FALSE, {"residual_degree", "edge_distance_area", "degree_distance_area", "degeneracy"}, 0, 0, 1),
     Kinds(TRUE, {}, 0, 4, 2), Kinds(TRUE, {}, 4, 4, 1), Kinds(TRUE, {"residual_degree"}, 1, 3, 0)}

(* A prefix is only pruned when no completion stays within the threshold.        *)
ASSUME PrunesCertified ==
    \A g \in Bounded : \A P \in SUBSET Vertices(g), k \in 0..4, options \in AllKinds :
        B!CertifiedPrune(g, P, k, options, Wide) => Completion(g, P) > k

(* ----- The queue, the forest and the lease that evaluates ----- *)
Fragment(region, k, path) ==
    [region |-> region, reservation |-> region, threshold |-> k, path |-> path,
     status |-> "unresolved", unfinished |-> 1, external |-> 0, pending |-> 0, frames |-> 1]
Fragments == {Fragment(1, 2, <<1, 2>>), Fragment(2, 3, <<0>>), Fragment(3, 2, <<3>>)}
Certified(f) == B!CertifiedPrune(Claw, ToSet(f.path), f.threshold - 1, CHOOSE o \in AllKinds : o.slack = 4, Wide)
CertifiedOnes == {f \in Fragments : Certified(f)}
Generations == 3

Fresh == [session |-> B!NewSession, forest |-> [r \in 1..3 |-> "free"], claim |-> {}, next |-> 1]

OpensThreshold(x) ==
    {[x EXCEPT !.session = B!ActivateThreshold(@, k, x.next), !.next = @ + 1] :
        k \in IF x.next > Generations THEN {} ELSE {2, 3}}
ClosesThreshold(x) == {[x EXCEPT !.session = B!DeactivateThreshold(@, k)] : k \in {2, 3}}
FreeFragments(x) == {f \in Fragments : x.forest[f.region] = "free" /\ x.claim = {}}
Admits(x) ==
    {IF B!Admits(x.session, f, generation)
     THEN [x EXCEPT !.session = B!Enqueue(@, f, generation), !.claim = {<<f, generation>>},
                   !.forest[f.region] = "claimed"]
     ELSE x : f \in FreeFragments(x), generation \in 1..Generations}
Evaluates(x) ==
    {LET e == B!EvaluateClaimed(x.session, c[1], c[1] \in CertifiedOnes)
     IN  [x EXCEPT !.session = e.session, !.claim = {},
                   !.forest = B!CommitOrRelease(@, c[1], IF throws THEN B!Nothing ELSE e.event).forest] :
        c \in x.claim, throws \in BOOLEAN}
ServesOne(x) ==
    {LET e == B!ServiceOne(x.session, x.forest, f, f \in CertifiedOnes)
     IN  [x EXCEPT !.session = e.session, !.forest = e.forest] : f \in FreeFragments(x)}
Begins(x) == {[x EXCEPT !.forest[f.region] = "started"] : f \in FreeFragments(x)}
Turns(x) == OpensThreshold(x) \cup ClosesThreshold(x) \cup Admits(x) \cup Evaluates(x) \cup ServesOne(x) \cup Begins(x)

RECURSIVE Closure(_, _)
Closure(seen, frontier) ==
    LET further == UNION {Turns(x) : x \in frontier} \ seen
    IN  IF further = {} THEN seen ELSE Closure(seen \cup further, further)

(* A threshold may be given up and opened again while a fragment is with the      *)
(* lease, and the evaluation may throw: only certified fragments are retired,     *)
(* each claim comes back, a bound is tried just when the search it was claimed    *)
(* for is still on, and no task outlives its claim.                            *)
ASSUME ClaimsSettle ==
    \A x \in Closure({Fresh}, {Fresh}) :
        /\ \A f \in Fragments :
            /\ x.forest[f.region] = "retired" => f \in CertifiedOnes
            /\ x.forest[f.region] = "claimed" <=> f \in {c[1] : c \in x.claim}
        /\ \A c \in x.claim :
            B!EvaluateClaimed(x.session, c[1], TRUE).event.tried <=> B!Live(x.session, B!TaskId(c[1], c[2]))
        /\ x.claim = {} => ~B!HasPending(x.session)
        /\ B!ValidSnapshot(x.session) /\ B!Restored(x.session) = x.session

(* Both kinds of fragment are among them.                                      *)
ASSUME SomeRetired == CertifiedOnes \notin {{}, Fragments}
=============================================================================
