------------------------------ MODULE PbChecks -------------------------------
(* The formulas say what they are meant to (PbEncoding), and no answer rests    *)
(* on a claim of a solver alone (PbProof). The formulas are solved here by      *)
(* propagation and branching.                                                 *)
EXTENDS Cutwidth

E == INSTANCE PbEncoding
P == INSTANCE PbProof

Absolute(l) == IF l < 0 THEN -l ELSE l

Propagated(F, U) == {c \ {-l : l \in U} : c \in {c \in F : c \cap U = {}}}

RECURSIVE Satisfiable(_)
Satisfiable(F) ==
    LET units == UNION {c \in F : Cardinality(c) = 1}
        v == Min({Absolute(l) : l \in UNION F})
    IN  IF F = {} THEN TRUE
        ELSE IF {} \in F THEN FALSE
        ELSE IF units # {} THEN (\A l \in units : -l \notin units) /\ Satisfiable(Propagated(F, units))
        ELSE Satisfiable(Propagated(F, {v})) \/ Satisfiable(Propagated(F, {-v}))

(* The models, as far as the variables from 1 to n go.                        *)
RECURSIVE Models(_, _, _)
Models(F, n, chosen) ==
    LET v == Len(chosen) + 1
        with(l, bit) == LET H1 == Propagated(F, {l})
                        IN  IF Satisfiable(H1) THEN Models(H1, n, Append(chosen, bit)) ELSE {}
    IN  IF v > n THEN {chosen} ELSE with(v, 1) \cup with(-v, 0)

(* A bound on a count admits just the choices within it, for literals of both   *)
(* signs and one that counts twice.                                           *)
ASSUME CountersExact ==
    \A encoding \in E!Encodings, x \in {<<1, 2, 3, 4>>, <<-1, 2, -3>>, <<2, -1, 2, 3, 3>>}, bound \in 0..5 :
        LET n == 4
            count(m) == Cardinality({i \in DOMAIN x : IF x[i] > 0 THEN m[x[i]] = 1 ELSE m[-x[i]] = 0})
            f == E!Fresh(E!Formula(encoding), n)
        IN  /\ Models(E!AtMost(f, x, bound).clauses, n, << >>) = {m \in [1..n -> {0, 1}] : count(m) <= bound}
            /\ Models(E!ExactlyOne(f, x).clauses, n, << >>) = {m \in [1..n -> {0, 1}] : count(m) = 1}

Triangle == SimpleGraph(3, {<<0, 1>>, <<1, 2>>, <<0, 2>>})
Wedge    == SimpleGraph(3, {<<0, 1>>, <<1, 2>>})
Pan      == SimpleGraph(4, {<<0, 1>>, <<1, 2>>, <<2, 0>>, <<2, 3>>})
EncodingOptions  == [cardinality : E!Encodings, break : BOOLEAN, channel : BOOLEAN]
Least(g) == SubsetDp(g)[Vertices(g)]

(* Every model decodes to an order, and the orders are those within the         *)
(* threshold, of each and its reverse one if so asked.                        *)
ASSUME ThresholdsExact ==
    \A g \in {Triangle, Wedge, Pan, SimpleGraph(1, {}), SimpleGraph(2, {<<0, 1>>})}, k \in 0..3, options \in EncodingOptions :
        LET n == Cardinality(Vertices(g))
            index(o, v) == CHOOSE i \in 1..n : o[i] = v
            models == Models(E!EncodeThreshold(g, k, options).formula.clauses, n * (n - 1), << >>)
        IN  n < 4 \/ (k \in {1, 2} /\ options.channel = options.break) =>
            {E!DecodeOrdering(n, m) : m \in models} =
                {o \in SetToSeqs(Vertices(g)) :
                    /\ OrderingCutwidth(g, o) <= k
                    /\ options.break /\ n >= 2 => index(o, 0) < index(o, 1)}

(* A lower threshold by unit clauses on the counters kept is the formula for    *)
(* that threshold; no counter is too short for it.                            *)
ASSUME TighteningExact ==
    \A g \in {Triangle, Pan}, encoding \in E!Encodings, k \in 1..2 :
        LET encoded == E!EncodeThreshold(g, k, [cardinality |-> encoding, break |-> TRUE, channel |-> FALSE])
        IN  \A j \in 0..k :
                LET t == P!Tightened(P!NewIncremental(encoded, k), j)
                IN  /\ t.ok
                    /\ Satisfiable(encoded.formula.clauses \cup {{u} : u \in t.session.units}) <=> Least(g) <= j

(* A prefix of that size with so small a cut is found whenever there is one.    *)
ASSUME ProfilesExact ==
    \A encoding \in E!Encodings, S \in {{}, {1}, {0, 3}} : \A q \in 1..(3 - Cardinality(S)), k \in 0..4 :
        LET encoded == E!EncodeProfile(Pan, S, q, k, encoding)
            models == Models(encoded.formula.clauses, Len(encoded.residual), << >>)
        IN  /\ {ToSet(E!DecodeSubset(encoded.residual, q, m)) : m \in models} =
                   {T \in kSubset(q, Vertices(Pan) \ S) : Cut(Pan, S \cup T) <= k}
            /\ \A m \in models : E!VerifySubset(Pan, S, q, k, E!DecodeSubset(encoded.residual, q, m))

(* Renumbering keeps every cut; the score is that of the order: how many        *)
(* vertices wait for a neighbour, and how far apart neighbours are.           *)
ASSUME NumberingsExact ==
    \A g \in {Pan, Wedge, SimpleGraph(4, {<<0, 3>>, <<1, 2>>, <<2, 3>>}), SimpleGraph(4, {<<1, 3>>})} :
        \A o \in E!Candidates(g) :
            LET n == Len(o)
                waiting(i) == {a \in 1..i : \E b \in (i + 1)..n : o[b] \in g[o[a]]}
                spans == {b - a : <<a, b>> \in {p \in (1..n) \X (1..n) : p[1] < p[2] /\ o[p[2]] \in g[o[p[1]]]}}
                s == E!Score(g, o)
            IN  /\ ValidOrdering(g, o)
                /\ s.frontier = Max({Cardinality(waiting(i)) : i \in 1..n})
                /\ s.bandwidth = Max({0} \cup spans)
                /\ \A S \in SUBSET (0..(n - 1)) :
                    Cut(E!PermuteGraph(g, o), S) = Cut(g, {o[a + 1] : a \in S})
                /\ LET best == E!Score(g, E!Select(g, "auto"))
                   IN  best.frontier < s.frontier \/ (best.frontier = s.frontier /\ best.bandwidth <= s.bandwidth)
-----------------------------------------------------------------------------
(* Models a solver may hand over: two orders of three vertices, narrow or not,  *)
(* one with a hole and one that is no order.                                  *)
Handed(g) ==
    LET n == Cardinality(Vertices(g))
        of(o) == [x \in 1..(n * (n - 1)) |->
                    IF \E i \in 1..(((x - 1) % (n - 1)) + 1) : o[i] = (x - 1) \div (n - 1) THEN 1 ELSE 0]
    IN  {of(o) : o \in {<<0, 1, 2>>, <<0, 2, 1>>}}
        \cup {[of(Sorted(Vertices(g), <)) EXCEPT ![1] = -1], [x \in 1..(n * (n - 1)) |-> 0]}

(* A checker accepts only refutations of formulas without a model; a solver may *)
(* say anything.                                                              *)
External(g, unsat) ==
    [status : {"sat"}, model : Handed(g)]
    \cup [status : {"timed_out", "unsat_unverified"}, model : {E!Invalid}]
    \cup (IF unsat THEN [status : {"unsat_verified"}, model : {E!Invalid}] ELSE {})

Honest(g, k, answer) ==
    /\ answer.status = "feasible" => ValidOrdering(g, answer.order) /\ OrderingCutwidth(g, answer.order) <= k
    /\ answer.status = "infeasible" => Least(g) > k

(* Whatever the solver says and whichever branches are run, an answer is true.  *)
ASSUME DecisionsHonest ==
    \A g \in {Triangle, Wedge}, k \in {1, 2} :
        LET options == [cardinality |-> "totalizer", break |-> TRUE, channel |-> FALSE]
            encoded == E!EncodeThreshold(g, k, options)
            clauses == encoded.formula.clauses
            unsat == ~Satisfiable(clauses)
            refuted == {b \in Vertices(g) : ~Satisfiable(clauses \cup {{u} : u \in P!FirstUnits(g, b)})}
        IN  /\ \A r \in External(g, unsat) : Honest(g, k, P!DecideExternal(g, k, r))
            /\ \A says \in {"sat", "unsat", "unknown"}, m \in Handed(g),
                  v \in {"timeout", "not_verified", "error"} \cup (IF unsat THEN {"verified"} ELSE {}) :
                    Honest(g, k, P!DecideNative(g, k, encoded, says, m, v))
            /\ \A run \in {Vertices(g), Vertices(g) \ {1}} :
                    \A results \in {q \in [run -> External(g, TRUE)] :
                                        \A b \in run : q[b].status = "unsat_verified" => b \in refuted} :
                        \A answer \in P!DecideSplit(g, k, results) : Honest(g, k, answer)

(* Left to an honest solver that has the time, the branches decide.            *)
ASSUME BranchesDecide ==
    \A g \in {Triangle, Wedge}, k \in 0..2 :
        LET encoded == E!EncodeThreshold(g, k, [cardinality |-> "totalizer", break |-> TRUE, channel |-> FALSE])
        IN  (\A b \in Vertices(g) : ~Satisfiable(encoded.formula.clauses \cup {{u} : u \in P!FirstUnits(g, b)}))
                <=> Least(g) > k

Children == [spawned : BOOLEAN, ends : {TRUE}, lost : {FALSE}, code : {0, 20, 127}]
            \cup [spawned : {TRUE}, ends : {FALSE}, lost : {FALSE}, code : {0, 10}]
Lost     == [spawned |-> TRUE, ends |-> TRUE, lost |-> TRUE, code |-> 1]
Accepts(p) == p.spawned /\ p.ends /\ ~p.lost /\ p.code = 0

(* An infeasible answer needs a checker that has ended by itself, saying yes.   *)
ASSUME ProofsChecked ==
    \A solver \in Children \cup {Lost}, checker \in Children \cup {Lost}, says \in {"sat", "unsat", "none"},
       valid, left, proof, written \in BOOLEAN :
        LET e == [solverValid |-> TRUE, written |-> written, version |-> [spawned |-> TRUE, ends |-> TRUE, lost |-> FALSE, code |-> 0],
                  pinned |-> TRUE, budgetLeft |-> left, solver |-> solver, says |-> says, model |-> E!Invalid,
                  checkerValid |-> valid, proof |-> proof, checker |-> checker]
        IN  /\ P!SolveExternal(e).status = "unsat_verified" => Accepts(checker) /\ proof /\ left
            /\ P!CheckExternal(e) => Accepts(checker) /\ proof

(* The proof job certifies only what a checker has accepted before any stop,    *)
(* and what it certifies is a bound: no prefix of q vertices is cut by so few.  *)
ASSUME JobsCertify ==
    /\ \A stop \in 1..5, encoded, written, proof \in BOOLEAN, says \in {"sat", "unsat", "none"},
          solver, checker \in Children :
            P!ExternalJob([stop |-> stop, encoded |-> encoded, written |-> written, proof |-> proof,
                           says |-> says, solver |-> solver, checker |-> checker]) = "certified_unsat"
                => Accepts(checker) /\ stop = 5 /\ proof
    /\ \A stop, cancelled \in 1..5, overflow, late, proof \in BOOLEAN, says \in {"sat", "unsat", "none"},
          code \in {0, 1, 100, 102, 7} :
            P!EmbeddedJob([stop |-> stop, encoded |-> TRUE, overflow |-> overflow, late |-> late, proof |-> proof,
                           unitsValid |-> TRUE, says |-> says, cancelled |-> cancelled, checkerCode |-> code]) = "certified_unsat"
                => code = 0 /\ cancelled \notin 1..3 /\ stop = 5 /\ ~overflow /\ proof
    /\ \A mode \in {"identity", "rcm", "auto"}, q \in 1..3, k \in 0..3 :
            LET unsat == ~Satisfiable(P!RootFormula(Pan, mode, q, k).clauses)
            IN  /\ unsat <=> \A S \in kSubset(q, Vertices(Pan)) : Cut(Pan, S) > k
                /\ unsat => Least(Pan) > k

(* A checker whose status is lost has proved nothing for decide_cutwidth, yet    *)
(* the proof job of the optimizer takes it for an acceptance.                 *)
ASSUME LostCheckers ==
    LET e == [stop |-> 5, encoded |-> TRUE, written |-> TRUE, proof |-> TRUE, checkerValid |-> TRUE,
              says |-> "unsat", solver |-> [Lost EXCEPT !.lost = FALSE], checker |-> Lost]
    IN  ~P!CheckExternal(e) /\ P!ExternalJob(e) = "certified_unsat"
=============================================================================
