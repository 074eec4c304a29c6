------------------------------- MODULE PbProof -------------------------------
(* How what a SAT solver says becomes an answer: the child processes and their  *)
(* exit codes (pb_solver.cpp), the incremental solver, the proof checker inside *)
(* the process, decide_cutwidth (pb_backend.cpp), and the proof job of the      *)
(* optimizer (run_pb_sat_root_job). What processes do, what the clock says and  *)
(* when a stop is seen are inputs.                                            *)
EXTENDS PbEncoding

(* What is decided by the first of the gates that is closed; else the default.  *)
Verdict(gates, default) ==
    LET closed == {i \in DOMAIN gates : gates[i][1]}
    IN  IF closed = {} THEN default ELSE gates[Min(closed)][2]

(* A child is spawned or not, ends before its deadline or is killed; lost: its  *)
(* status cannot be had from waitpid (SIGCHLD is ignored, or another part of    *)
(* the program has collected it).                                             *)
Killed == [launched |-> TRUE, timedOut |-> TRUE, code |-> 143]

RunProcess(p) ==
    Verdict(<< <<~p.spawned, [launched |-> FALSE, timedOut |-> FALSE, code |-> -1]>>,
               <<p.lost, [launched |-> TRUE, timedOut |-> FALSE, code |-> -1]>>,
               <<~p.ends, Killed>> >>,
            [launched |-> TRUE, timedOut |-> FALSE, code |-> p.code])

(* The optimizer's own: there the status of a lost child reads as exit code 0.  *)
RunProcessPosix(p) ==
    IF p.spawned /\ p.lost THEN [launched |-> TRUE, timedOut |-> FALSE, code |-> 0] ELSE RunProcess(p)

(* The exit code says more than the output.                                   *)
ParseStatus(says, code) == CASE code = 10 -> "sat" [] code = 20 -> "unsat" [] OTHER -> says

(* solve_dimacs_external: e.model is Invalid if the output holds no consistent  *)
(* model, e.proof says whether a proof of some length was written.             *)
SolveExternal(e) ==
    LET version == RunProcess(e.version)
        solved == RunProcess(e.solver)
        claim == ParseStatus(e.says, solved.code)
        checked == RunProcess(e.checker)
        status == Verdict(<<
            <<~e.solverValid, "unavailable">>,
            <<~e.written, "process_error">>,
            <<version.timedOut, "timed_out">>,
            <<~version.launched \/ version.code # 0, "unavailable">>,
            <<~e.pinned, "version_mismatch">>,
            <<~e.budgetLeft, "timed_out">>,
            <<solved.timedOut, "timed_out">>,
            <<~solved.launched \/ solved.code = 127, "process_error">>,
            <<claim = "sat" /\ e.model # Invalid, "sat">>,
            <<claim # "unsat", "invalid_output">>,
            <<~e.checkerValid \/ ~e.proof, "unsat_unverified">>,
            <<checked.timedOut, "timed_out">>,
            <<~checked.launched \/ checked.code # 0, "unsat_unverified">> >>, "unsat_verified")
    IN  [status |-> status, model |-> IF status = "sat" THEN e.model ELSE Invalid]

(* check_drat_proof_external.                                                 *)
CheckExternal(e) ==
    LET run == RunProcess(e.checker)
    IN  e.checkerValid /\ e.proof /\ e.written /\ run.launched /\ ~run.timedOut /\ run.code = 0

(* verify_proof_in_memory: e.cancelled is the look at which the stop or the     *)
(* deadline is seen: first, while the formula is written, while the checker is  *)
(* taken by others, while it works (then it says so), or never.                *)
VerifyInMemory(e) ==
    Verdict(<< <<e.cancelled = 1, "timeout">>,
               <<~e.proof, "not_verified">>,
               <<~e.unitsValid, "error">>,
               <<e.cancelled \in {2, 3}, "timeout">>,
               <<e.checkerCode = 0, "verified">>,
               <<e.checkerCode \in {100, 102}, "timeout">>,
               <<e.checkerCode = 1, "not_verified">> >>, "error")
-----------------------------------------------------------------------------
(* IncrementalCadicalSession: thresholds only fall, by one unit clause a prefix. *)
NewIncremental(encoded, threshold) ==
    [threshold |-> threshold, outputs |-> encoded.outputs, units |-> {}, tracing |-> TRUE]

(* A counter too short ends the loop with the units before it added.           *)
Tightened(s, threshold) ==
    LET short == {i \in DOMAIN s.outputs : threshold >= Len(s.outputs[i])}
        reached == IF short = {} THEN DOMAIN s.outputs ELSE 1..(Min(short) - 1)
        added == [s EXCEPT !.units = @ \cup {-s.outputs[i][threshold + 1] : i \in reached}]
    IN  CASE threshold > s.threshold -> [session |-> s, ok |-> FALSE]
          [] threshold = s.threshold -> [session |-> s, ok |-> TRUE]
          [] threshold < s.threshold ->
                IF short # {} THEN [session |-> added, ok |-> FALSE]
                ELSE [session |-> [added EXCEPT !.threshold = threshold], ok |-> TRUE]

(* The proof is given away with the first refutation; a later one has none.     *)
SolveIncremental(s, threshold, says, model) ==
    LET t == Tightened(s, threshold)
        status == Verdict(<< <<~t.ok, "error">>, <<says = "sat", "sat">>,
                             <<says = "unsat", "unsat_exploratory">> >>, "timed_out")
        refuted == status = "unsat_exploratory"
    IN  [session |-> [t.session EXCEPT !.tracing = @ /\ ~refuted],
         status |-> status, model |-> IF status = "sat" THEN model ELSE Invalid,
         proof |-> refuted /\ t.session.tracing,
         units |-> IF refuted /\ t.session.tracing THEN t.session.units ELSE {}]
-----------------------------------------------------------------------------
(* decide_cutwidth.                                                           *)

Undecided     == [status |-> "timed_out", order |-> << >>]
InfeasibleNow == [status |-> "infeasible", order |-> << >>]

(* A model is an answer once the order in it has been measured.                *)
Witnessed(g, threshold, model) ==
    LET o == IF model = Invalid THEN Invalid ELSE DecodeOrdering(Cardinality(Vertices(g)), model)
    IN  IF o # Invalid /\ VerifyOrdering(g, o, threshold)
        THEN [status |-> "feasible", order |-> o] ELSE Undecided

(* In memory the proof is checked there; without one the external checker has   *)
(* no file to read.                                                           *)
DecideNative(g, threshold, encoded, says, model, verified) ==
    LET r == SolveIncremental(NewIncremental(encoded, threshold), threshold, says, model)
    IN  CASE r.status = "sat" -> Witnessed(g, threshold, r.model)
          [] r.status = "unsat_exploratory" /\ r.proof /\ verified = "verified" -> InfeasibleNow
          [] OTHER -> Undecided

(* The formula with this vertex first and no other.                           *)
FirstUnits(g, first) ==
    LET n == Cardinality(Vertices(g))
    IN  {IF v = first THEN Prefix(n, v, 1) ELSE -Prefix(n, v, 1) : v \in Vertices(g)}

(* One branch a first vertex, to several workers; results holds those whose     *)
(* solver was run, the others were out of time or not needed any more.         *)
DecideSplit(g, threshold, results) ==
    LET answers == {Witnessed(g, threshold, results[b].model) : b \in {b \in DOMAIN results : results[b].status = "sat"}}
        witnesses == answers \ {Undecided}
    IN  IF witnesses # {} THEN witnesses
        ELSE IF DOMAIN results = Vertices(g) /\ \A b \in Vertices(g) : results[b].status = "unsat_verified"
             THEN {InfeasibleNow}
        ELSE {Undecided}

DecideExternal(g, threshold, r) ==
    CASE r.status = "unsat_verified" -> InfeasibleNow
      [] r.status = "sat"            -> Witnessed(g, threshold, r.model)
      [] OTHER                       -> Undecided
-----------------------------------------------------------------------------
(* run_pb_sat_root_job: e.stop is the first of the looks at the stop flag that  *)
(* sees it set, 5 if none does. Any exception ends the job as failed.           *)
EmbeddedJob(e) ==
    LET checked == VerifyInMemory(e)
    IN  Verdict(<< <<e.stop = 1 \/ ~e.encoded \/ e.stop = 2 \/ e.overflow \/ e.stop = 3, "failed">>,
                   <<e.says = "sat", "sat">>,
                   <<e.says # "unsat" \/ e.late, "timed_out">>,
                   <<e.stop = 4, "failed">>,
                   <<checked = "verified", "certified_unsat">>,
                   <<checked = "timeout", "timed_out">> >>, "failed")

ExternalJob(e) ==
    LET solved == RunProcessPosix(e.solver)
        claim == ParseStatus(e.says, solved.code)
        checked == RunProcessPosix(e.checker)
    IN  Verdict(<< <<e.stop = 1 \/ ~e.encoded \/ ~e.written \/ e.stop \in {2, 3}, "failed">>,
                   <<solved.timedOut, "timed_out">>,
                   <<~solved.launched, "failed">>,
                   <<claim = "sat", "sat">>,
                   <<claim # "unsat" \/ ~e.proof \/ e.stop = 4, "failed">>,
                   <<checked.timedOut, "timed_out">>,
                   <<~checked.launched \/ checked.code # 0, "failed">> >>, "certified_unsat")

(* The formula of the job: prefixes of q vertices of the renumbered graph.      *)
RootFormula(g, mode, q, threshold) ==
    EncodeProfile(PermuteGraph(g, Select(g, mode)), {}, q, threshold, "totalizer").formula
=============================================================================
