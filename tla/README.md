# A TLA+ verification of the boundedcuts exact cutwidth solver

This directory models the core of the exact solver in `src/exact_solver/`
(C++20), checks the models with TLC and proves theorems about them with TLAPS.
It covers the program's own logic: scheduling, the parallel proof search, the
bookkeeping between them. Floating-point numerics, external solver processes and
formatting are outside it.

## 1. Inventory of the system

The solver finds the cutwidth of a graph: the smallest `k` for which the vertices
can be put in an order so that no cut between consecutive positions has more than
`k` edges. It works by *decisions*: "is there an ordering of cutwidth at most
`k`?", each answered with a witness or by an exhausted search.

| Part | State it keeps | Operations | Interacts with |
| --- | --- | --- | --- |
| **Global DFS executor** (`global_dfs_executor`) | sessions, bindings and generations by threshold; live epochs with `pending` and `active` counts; the permit deque; paused/stopping flags; active leases and worker ids in use | `register_session`, `bind_session`, `grant_epoch(s)`, `drain_epoch(s)`, `quiesce_all`, `resume`, `unregister_session`, the closures it schedules on the dispenso pool | called by the optimizer's one controller thread; calls `open_epoch`, `run_one_lease`, `quiesce` of its sessions from pool threads |
| **Forest adapter** (`parallel_global_dfs_session`) | `prepared_`, `epoch_open_`, generation, revocation | `prepare`, `open_epoch`, `run_one_lease`, `quiesce`, `revoke`, steal reservations | maps the executor's session interface to a proof forest |
| **Proof forest** (`parallel_decision_session`) | regions (nodes) with a session or a deferred snapshot each, parent links, `queued` / `active` / `rerun_requested` marks, unstarted-fragment reservations; the ready deque; remaining work credit; the common status and witness | `service` (owned workers), `begin/finish_external_epoch`, `run_external_lease`, claim / retire / release of unstarted fragments, donate-and-claim, snapshot and restore, cancel | its workers run decision sessions; failures of children propagate to parents |
| **Decision session** (`decision_session`) | DFS stack with candidate cursors, prefix, pending donations, `unfinished_region_count`, residual DP in progress | `service` with work and time budget, `donate_unexplored_sibling`, `extract_pending_continuation`, `resolve_external_failure`, `mark_certified_infeasible`, snapshot and restore | failure caches, ownership table, partial bounds, residual DP |
| **Recursive search** (`decision`) | call stack, caches | whole-subtree decision | same caches and bounds |
| **Canonical ownership** (`canonical_ownership`) | sharded map from prefix to owner, state and waiters | `acquire`, `publish_failure`, `abandon`, `release`, `take_ready_waiters` | regions with the same prefix wait for one owner |
| **Failure caches, node memo** (`decision_cache`, `node_memo`) | proven failed prefixes, bounded by entries and bytes | lookup, insert, strengthen, recycle, snapshot | a hit prunes a subtree |
| **Memory governor** (`memory_governor`) | budget, reserved bytes, leases, pressure flag | `try_acquire`, lease release, `sample_rss` | caches, residual DP, SDP |
| **Residual DP** (`residual_dp`) | layer cursors over subsets of the tail | `service`, witness reconstruction | replaces the DFS of a short tail |
| **Threshold portfolio** (`threshold_portfolio`) | per-threshold sessions and credits, interval | pick, service, resolve | serial controller of several thresholds |
| **Progressive cheap bounds** (`progressive_cheap_bound_session`, `partial_bounds`) | queue of bound evaluations per generation | enqueue, claim, evaluate, commit or release, invalidate | retires unstarted forest fragments |
| **Incumbent session** (`incumbent_session`) | best ordering, restarts | anneal / local search step | improves the upper bound |
| **Optimizer controller** (`optimizer_v2`) | proven interval, stages, thresholds in flight, generations, checkpoints, exact-SAT job | the main loop: windows of executor epochs, one-shot arms, live checkpoints, interval updates, pruning | everything above |
| **Checkpoints** (`checkpoint`, `checkpoint_v2`) | files | save, load, verify | optimizer, forest snapshots |
| **Pseudo-Boolean path** (`pb_*`) | CNF, solver, proof bytes | encode, solve, check the proof | optimizer's exact arm |
| **SDP, Lagrangian, MILP** | numerical state | bounds with exact certificates | optimizer's bound arms |
| **Graph, vertex sets, layouts, decomposition, oracle** | immutable graph; incremental cuts | cut width of orders, components, brute force | used by all |
| **CLI, Python bindings, DRAT checker** | none | parsing, printing; third-party proof checking | front ends |

### Interactions

The optimizer's controller thread opens *epochs*: it grants the executor a batch of
permits per session, waits for the pool, drains the epochs, reads what the sessions
report, and decides on the interval. Pool threads take permits and call
`run_one_lease`; in a proof forest that is `worker_epoch`, which takes regions off
the ready deque, serves each with a decision session, donates siblings and publishes
terminal regions. A region's failure travels up the parent links (`notify_failure`)
until a parent has other regions left or the root is reached, which answers the
decision. Checkpoints and unregistration quiesce the executor first; fragment claims
(cheap bounds on unstarted regions) happen between epochs only.

### What is hard, and what makes each part correct

| Part | Hard behaviour | Correctness |
| --- | --- | --- |
| Executor | steals move a slot between epochs while the controller waits for one of them; permits return unserved when paused; batches that throw half-way | counts equal the holders; no task outlives its epoch or session; every call returns; every permit is served |
| Proof forest | `queued`/`active`/`rerun_requested` are separate atomics; parents are weak pointers; a failure races a witness, a donation, a snapshot | the answer is right; each subproblem is in one region; counts match children; an undecided forest can run |
| Decision session | cursor, pending donations and counts must agree at every exit, exceptions and snapshots included | exploring + donated = the whole subtree; a failure is published for whole subtrees only |
| Ownership | release and publish race with waiters that register | one owner per prefix; every waiter is woken; no wait cycle |
| Governor | concurrent reservations, pressure from RSS samples | never more than the budget; every lease returned once |
| Cheap bounds, incumbent, portfolio, residual DP | results of an old generation; restart in the middle of a layer | stale results dropped; service in pieces equals service in one go |
| Optimizer | arms at thresholds already decided; checkpoint in a window; replaced thresholds | the interval always holds the cutwidth, shrinks only, and closes |
| Checkpoints | truncated or foreign files | accepted only if consistent |
| Encodings and bounds | off-by-one in cuts | agree with the definition of cutwidth |

## 2. Plan

The modules were built in this order, most important behaviour first. Every module
keeps its parameters as CONSTANTS with named assumptions; RECURSIVE operators are
only in modules that nothing is proved about.

| Step | Modules | State |
| --- | --- | --- |
| Executor | `GlobalExecutor`, abstract `SessionService`; `GlobalExecutorProofs` | checked; every invariant, the action property and the refinement proved |
| Proof forest | `ProofForest`; `ProofForestProofs` | checked; every safety property proved |
| Ownership waits | `Ownership`; `OwnershipProofs` | checked; every safety property proved |
| Threads of a session of its own | `WorkerPool`; `SolverLemmas`, `WorkerPoolProofs` | checked; every safety property proved |
| Controller | `Optimizer`; `OptimizerProofs` | checked; every safety property proved |
| Search below a region | `DecisionSearch`, over `SearchNode`, `PartialBounds`, `FailureCache`, `Cutwidth` | checked |
| Recursive search | `RootTasks`, with `CacheTables`, `PackedPages`, `CacheChecks`; `SolverLemmas`, `RootTasksProofs` | checked; both safety properties proved |
| Algorithms | `Heuristics`, `Incumbent`, `Decomposition`, `ExactSolver`, `PbEncoding`, `PbProof`, `LagrangianBound`, `CheapBounds` and the four `...Checks` modules | checked when the hosting run starts |

Left for later: the invariant of `DecisionSearch` over regions, donations and restarts.

## 3. Modules and the code

### GlobalExecutor (`global_dfs_executor.{hpp,cpp}`, `parallel_global_dfs_session.cpp`, the controller window of `optimizer_v2.cpp`)

Each section under `mutex_` is one action. `registered`, `bound`, `generation`,
`generations`, `revoked` are `sessions_`, `bindings_`, `generations_` and the
sessions' flags; `live`, `owner`, `pending`, `active`, `draining` are `epochs_`;
`permits[e]` is the part of the deque `permits_` that belongs to epoch `e`, given
by round numbers, for `enqueue_permits_locked` keeps the deque in round-robin
order. A pool thread's `pc` is its place in the closure of
`submit_dispenso_task_locked`: `TaskClaims` pops a permit, `LeaseEntered` /
`ForestClaims` / `ForestReturns` / `ForestLeaseEnds` / `OneShotEnds` are the lease,
`Classify` reads its outcome, `Steal` and `StealLoopEnds` are the hand-off loop,
`TaskFinishes` returns the slot. The controller's calls are `Register`,
`BindSession`, `GrantEpochs`, `DrainBegin` to `CloseSession`, `UnregisterBegin`,
`CheckpointBegin`, `Resume` and `Destroy`; `QuiesceSleeps`, `DrainSleeps` model the
condition variable, so a missing notification would show. A forest is here only a
count of ready regions and credit. `GrantEpochs` is a grant that is accepted: one that
throws half-way leaves epochs emplaced, but the only caller grants when every earlier
epoch is drained and ends by the exception, so nothing follows but `Destroy`.
`SessionService` says what the pool promises: a
session is used only while open, closed only when unused, and nothing moves while
frozen; `ServesSessions` is the refinement.

### ProofForest (`parallel_decision_session.cpp`, accounting of `decision_session.cpp`)

The search tree is abstracted to `Leaves`, of which some have an ordering (`Searches`
gives the choices of a run); a region's `todo` is what it has still to explore. That
keeps apart what the properties need (which region is responsible for a subproblem)
and drops how candidates are enumerated. `reg[r]` is a node: the fields its mutex
guards (`form`: deferred snapshot, session or neither; `status`, `unfinished`,
`localDone`, `started`, `reserved`, `notified`) and `parent`, a weak pointer that is
followed through `ParentOf` and is null once the parent is in nobody's hands. The
atomics `queued`, `active` and `rerun_requested` are sets, changed in the steps the
code changes them: `Unmark` then `Activate`, `GivesUp` then `Reruns`. `Serve*` are the
outcomes of `DecisionSession::service` and of the recursive kernel; `ServeDonates`
also reserves the place in `live_nodes_count` and makes the child, which `Publish`
inserts in a later step. `Closes`, `Announces`, `Notify*`, `Parent*` and `Releases`
are `process_terminal`, `publish_feasible` and `notify_failure`, one hop in two
steps because status and parent are read without the parent's mutex. `Drain`,
`FinishEpoch` and `ReconcileEnds` end an epoch. `ClaimFragment`, `DonateAndClaim`,
`RetireFragment` and `ReleaseFragment` are the fragment calls. `Restart` is
`quiesce_and_snapshot` followed by the restoring constructor in a new process.

Coarser than the code: `enqueue` is one step (its second load of `active` is in
`Ownership`); the flags are sequentially consistent; the deepest or first fragment is
any fragment; a region restored with several frames may also be claimed; the
reconciliation's defensive replay of unpublished terminal regions is left out, and
`NothingStranded` checks that it would find none.

### Ownership (`canonical_ownership.cpp`, its use in `decision_session.cpp` and `parallel_decision_session.cpp`)

Regions with one key wait for one another. `owner` and `waiters` are the table's
entries, `woken` is `ready_waiters_`, `claimed` the flag of a root frame, `deferred`
the claim a donor keeps. The two halves of `release` (take the waiters out under the
shard's mutex, hand them over under `ready_mutex_`), the parking, and every access to
`queued`, `active` and `rerun_requested` in `pop_ready`, `worker_epoch` and `enqueue`
are steps of their own, the second load of `active` included. The threshold is one no
ordering meets, so every region fails and every lost wakeup would keep the forest from
its answer; the search below a root frame is yields, donations and its end. Credit and
fragment claims are left out, the table has one shard, and `Reconcile` is the end of an
epoch.

Two places of the code that the model confirms to be unreachable in a forest:
`load_pending` would overwrite the key of a deferred claim, and
`mark_certified_infeasible` drops frames without abandoning their claims.

### WorkerPool (`parallel_decision_session.cpp` with threads of its own)

`service()` opens an epoch (`Calls`), the threads meet at its start (`Arrives`,
`PassesGate`), take regions, serve them for a share of the work (`TakesWork`, with a
share that may be computed from an old value), and leave (`Ends`). One condition
variable carries four waits; between the evaluation of a predicate over atomics and the
sleep, a notification is lost, so a thread dozes before it is asleep. Services may
throw; one that ends its region or leaves it waiting may cost nothing, one that yields
has moved on, which counts for one unit at least; `cancel` and the destructor come
between two calls. The forest is a tree of at
most `MaxRegions`; what a service does to it is what `ProofForest` has it do. The
oneTBB variant is left out.

### DecisionSearch (`decision_session.cpp`, `decision.cpp`, canonical frontier), with SearchNode, PartialBounds, FailureCache, Cutwidth

Real graphs, real prefixes. A session has its frames, candidates, cursor, pending
donations and a residual table in progress; a turn of the loop in `service` or a call
of `dfs` is one action, so that splits, checkpoints and other regions come between any
two. `SearchNode` has the incremental state (degrees, histogram, deltas), candidates,
twins, look-ahead, probe and residual DP; `FailureCache` the three replacement
policies. Left out: the flag that a table was refused by the governor once, chunks of
the kernel's table. `MaxInterrupts` bounds restarts and kernel runs cut short.
`ExactOf`, the least width of a completion, is the reference everything is compared
with. `Throws` is the exception of a resumed session (section 6).

### RootTasks (`decision.cpp`), with CacheTables, PackedPages, CacheChecks

`decide_cutwidth`: tasks at the root of the tree, taken by threads that share one
cache, in both engines. The stop flag is relaxed and polled in growing intervals, so
a search may go on after it is set; the SDP certificate is any true bound; the
governor may refuse a table; the memo's answer is exact or the oracle was
interrupted: then a list of children may be refuted in part (`Lists`), and the search,
which finds the deadline passed before its next call, reads nothing of its order.
`CacheTables` and `PackedPages` are the caches as they lie in memory (flat
tables, pages with Bloom filters and clock, snapshots, division of a budget between
shards, the memo), `CacheChecks` compares them with `FailureCache` over all short
histories and all ways keys may collide. Invalid options and shards in the state are
left out. With several shards, a word64 budget divided up may exceed the total by
rounding (`ShardBudgets` checks that no shard is left without a limit).

### Optimizer (`optimize_connected` of `optimizer_v2.cpp`), with CheapBounds, PbProof, Decomposition, Heuristics

One action is one passage through the loop's head or one service. The state is the
interval, the best width, per threshold the session, its verdict and progress, the SAT
proof's thread, and what a file holds. `Modes` are option sets: three schedulers, one to
three pool slots, every auxiliary arm, and the two controllers without sessions. The
scores of the portfolio are any choice; the deadline may pass at each look at the
clock; DP and SDP answer with any bound they may certify, also one weaker than before.
The canonical frontier may decide a new forest as it is opened (`Created`). Secondaries
of a window do not count services. `aux.cheapOf` is the forest the cheap bounds look
at; dropped with its threshold, it keeps its turn, which then finds nothing to claim. At `Saves` the variables become the file's contents,
at `Resumes` the checks of the code are made. Left out: milestones, quanta, traces,
telemetry, the rejection of SDP by its deadline.

### Algorithms checked over bounded inputs

`HeuristicChecks`, `WholeGraphChecks`, `PbChecks` and `CertificateChecks` are extended
by `MCOptimizer`, `CacheChecks` by `MCRootTasks`: TLC evaluates their ASSUMEs when the
run starts.

- `Heuristics`, `Incumbent`: every loop may be stopped at each look at the clock; random
  draws are sets of choices; the Fiedler vector is any order of the vertices. Whatever is
  returned is an ordering of the width stated, and never worse than the start.
- `Decomposition`, `ExactSolver`: answers for graphs with several components and the
  branch and bound of `solver.cpp`, on all graphs of four vertices.
- `PbEncoding`, `PbProof`: formulas are sets of clauses, solved in the checks by
  propagation and branching on graphs of one to four vertices, with both counters,
  symmetry breaking and channelling. A solver may say anything, a checker accepts
  only unsatisfiable formulas, processes may be lost.
- `LagrangianBound`, `CheapBounds`: minimum cuts in machine integers with a limit,
  parallel arcs merged; the queue of bounds against three fragments and three
  generations, over every order of its steps.

## 4. Runs

| Run | Instance | Distinct states | Shows |
| --- | --- | --- | --- |
| `exec_arms` | 2 threads, forest and one-shot, 3 epochs | 1.0 M | slot accounting, slots on live epochs, exclusive worker ids, closing only unused and leasing only open epochs, frozen while quiesced, refinement of `SessionService` |
| `exec_live` | 1 thread, 2 forests of one threshold, up to 2 permits at once | 362 k | distinct generations, no stranded permit, round-robin order, every call returns, permits are served, the pool joins |
| `exec_oneshot` | as `exec_arms` | - | finding: two leases in one one-shot arm |
| `forest` | 2 workers, 2 subproblems, none or one feasible, 3 regions, bound 2, credit 1 | 525 k | sound answers, no subproblem lost or doubled, exclusive regions, counts, failure propagation, nothing stranded, restorable snapshots, every search decided |
| `ownership` | 2 workers, regions R, A, B, C of which two have one key, 2 entries | 393 k | table and sessions agree, no lost waiter, no wait cycle, the forest is decided |
| `search` | 7 graphs of 3 to 7 vertices, at the cutwidth or below, 7 option sets, 4 regions, 1 interrupt | 43 k | cache, answers, coverage and incremental state right, every threshold decided |
| `decide` | 6 graphs of 1 to 5 vertices, up to 3 threads, both engines, 1 exception | 582 k | shared cache and answers right; the ASSUMEs of `CacheChecks` |
| `optimizer` | widths 1 to 4, work 3, 1 stop, all modes | 107 k | the interval is sound, no work begun anew, every run ends; the ASSUMEs of four check modules |
| `optimizer_epochs`, `optimizer_resume` | as `optimizer`, fewer modes | - | findings |
| `pool` | 2 threads, 2 regions, work 5, 2 calls, deadline, yields, 1 exception | 148 k | work within the grant, every thread through every epoch, work remains, calls return, the destructor joins |
| `pool_stall` | no deadline, no yields, 1 call | - | finding: the barrier of the first round |

Bounds. Two workers are enough for every pairwise race of the code (no step
involves three threads; `decide` has three because its pairs of tasks and its stop do);
a third region gives the chain root - parent - child in which a failure climbs twice,
and the fan-out in which two children of one parent close together. A bound of two live
regions under three makes donation meet the limit. `MaxEpochs`, `WorkUnits`,
`MaxReady`, `MaxTasks`, `MaxRegions`, `MaxCredit`, `MaxInterrupts`, `MaxThrows`,
`MaxStops` and `Failing` bound what grows without limit in the code; each is tested in a
guard and reaching it only disables new work. The theorems of section 5 hold for every
value of them. `CHECK_DEADLOCK FALSE` where the system may stop: a destroyed pool, a
decided forest, a finished run.

Symmetry is used over threads in safety runs only.

### Fairness

- Executor: `WF(Task(t))`, since the pool runs each closure to its end, and
  `WF(Continue)`, since a started controller call runs on; nothing makes the controller
  start a call. `SF(ForestLeaseEnds(t))` stands for the epoch's deadline, which a lease
  tests between two regions.
- Forest: `WF(Work(w))` is a running thread. `SF` of some lease beginning and of some
  pop: the executor serves permits of an open epoch (its `PermitsServed`), and an epoch
  whose deadline passes before any region is taken is not repeated for ever.
  `SF(Progress)`: a region served again and again ends, since each claim pays for at
  least one node of a finite tree; making a session of a snapshot is no progress.
  `Decides` allows that claimants hold fragments again and again, and nothing is assumed
  of claims, cancellation or restarts.
- Ownership: `WF(Worker(w))`, `SF(SearchFinishes(w))` (a finite tree, served again and
  again), `WF(Reconcile)` (epochs end).
- DecisionSearch: `WF(Next)`; every turn is bounded work.
- Optimizer: `WF(Controller)`, and `SF(Advances)`, since every epoch is given a floor of
  work (`optimizer_v2.cpp:2675`).
- WorkerPool: `WF` of the threads, the caller inside a call, and the clock; nothing else.
- RootTasks: safety only.

## 5. Proofs

All theorems hold for any finite set of threads or workers, any number of regions,
sessions, subproblems and any value of the bounds, from the named assumptions of the
modules only.

### Executor

`GlobalExecutorProofs`: `TypeCorrect`, `SlotAccounting`, `PermitAccounting`,
`SlotSafety`, `CloseSafety`, `LeaseSafety`, `QuiescenceFreezes` (action property) and
`Implementation` (every step is a step of `SessionService` or a stutter), all from
`Invariance`: `Spec => []IInv`. Slot safety is not inductive alone. That a live epoch is
erased only when nobody is in it rests on `active` counting exactly the holders
(`SlotsCounted`) and `pending` the permits (`PermitsCounted`); that a steal keeps both
needs the finiteness of the holders (`MoveCounts`) and that an idle thread holds nothing;
that a closed session is unused needs one live epoch per session (`OneEpochPerSession`),
and that an unregistered one is, that revoked sessions are forgotten
(`RevokedForgotten`). What the controller's place implies is `ControllerInv`.

Its second part, how work is handed out, on top of `IInv`:

- `IdsExclusive` (`WorkerIdsExclusive`): the ids in use are exactly those of the running
  leases, each of one (`IdsExact`).
- `GenerationsIdentify` (`GenerationsDistinct`): a generation handed out is below the
  counter of its threshold (`GenerationsCounted`).
- `ServedInTurn` (`RoundRobin`), by `Rounds`: the permits of an epoch have successive
  rounds (`Successive`), and before the second of two permits of an epoch comes one of
  every other epoch that has any (`TakesTurns`).
- `PermitsScheduled` (`NoStrandedPermit`): inductive by itself, once a lemma says what
  renumbering and granting do to the queue (`Renumbered`, `GrantedQueue`).

### Proof forest

`ProofForestProofs`, `Exclusive` (`RegionsExclusive`). That a second worker is kept out
rests on the `active` flag, which a worker holds from its compare-exchange on (`Owners`);
that nobody is in a region when a claimant reserves it rests on claims being made between
epochs, when every lease has ended (`EpochsQuiet`); and a flag is given up for the right
region only because an agent's place says where it is (`Located`).

The second part adds the invariant `Accounts`:

- `Hands`: what a worker carries between two steps (a child not yet published, a failure
  on its way) it carries only at the places that publish or notify.
- `Books`: the tree (`Tree`); what a region's fields say together, with `unfinished` its
  own search plus the children whose failure has not arrived (`Records`); that failures
  under way are those of different closed regions (`Failures`); that no subproblem is in
  two regions (`Apart`); and that an undecided search has lost none (`Undecided`).
- `Flight`: a failure or witness that is closed and not yet published has a worker that
  will publish it. `Queues`: which regions a worker, the queue or a claimant will come
  back to.

From it follow `Sound` (`AnswerSound`), `Kept` (`WitnessKept`), `Counted`
(`RegionsCounted`), `FindParent` (`FailuresFindParent`), `NeverStranded`
(`NothingStranded`), `Restorable` (`SnapshotAcceptable`) and `Typed`. None is
inductive alone: an answer is sound only because counts are exact, and counts are exact
only because a child's failure is in exactly one hand.

### Ownership

`OwnershipProofs`: `Claims` (`ClaimsAgree`) with the places of the workers and the
mutexes they hold; `NoCycle` (`NoWaitCycle`) from it, since a parked region waits for one
of its key that is not parked, and a donor for strictly larger keys.

Its second part, `NoneForgotten` (`NoLostWaiter`). The invariant `WakeInv` names for
each region that is not entered who will look at it (`Cared`), which is more than the
property: "the region is active" is no help unless its server is still to read the mark.
It rests on `ActiveServed` (the flag belongs to one worker in service), `ServiceStarted`
(a server past the root frame has a region past it, so the mark of a waiting region is
always read), and `HandsEmpty`. `Typing` adds `Queue`: a region is in the ready queue at
most once, under its `queued` flag, which a worker that popped it has still to lower.

### Worker pool

`WorkerPoolProofs`: `AllPassed` (`EveryThreadPassed`) and `Typing`. Each counter of an
epoch is, or is at most, the number of threads past the step that counts (`Counters`); a
thread on its way is on its way through this epoch (`OnItsWay`), for outside epochs every
thread is at the head of its loop (`Calling`).

`WithinGrant` (`WorkWithinGrant`), from `Charged`: what is left and what the threads
hold add up to the grant at most. `Remains` (`WorkRemains`), from `Frontier`: the regions
that are open form a tree in which every region waits for a child, and a region all of
whose children have ended fails in the step that ends the last. What the threads hold is a
sum and whom a failure reaches (`FailsWith`) a recursive function; `SolverLemmas` proves
what such a definition computes over any finite set: `LeastRank` and `RankedRecursion`
solve a recursive function by descent on a rank, `TotalIsSum` turns the fold of the
community modules into the function `Total`, and the `Total...` lemmas say how a sum
changes with a set or a term.

### One node, and the recursive search

`SolverLemmas` proves, for every simple graph, what all searches of the solver rest on.
The reference is the exact value of a prefix (`Completion`), a recursive function over the
subsets; `FitsStep` turns it into the branching rule "a prefix fits if its cut does and one
child fits", by which every other theorem reasons: `CutStep`, `TwinSwap` and `FreeChild`
(twin reduction), `CandidatesAre`, `LegalSecondSound`, `BestNextSound`, `ContinuationSound`,
`ResidualDegreeSound`, `HistogramSound` and `CompletionExceedsSound` (pruning), `ApplyOk` and `UndoOk` (incremental
state, also of a resumed session), `TableSound` and `WitnessKeeps` (residual DP),
`HorizonBelow` (memo).

`RootTasksProofs`: `CacheIsSound` (`CacheSound`) and `AnswersAreSound` (`AnswerSound`) from
`CallInvariant`. Neither is inductive: that a failure may be recorded needs the node of
every running search to be what its path determines (`SearchOk`) and every candidate passed
over to be refuted (`GoesOn`); that "infeasible" may be answered needs to know that each
task is still to be taken, held by a thread, or refuted (`Accounts`), which must survive the
stop flag, the deadline and exceptions.

Assumptions: `GraphsAssumption` (simple graphs, natural thresholds, options of the right
types) and `WorkersAssumption`, which TLC evaluates on the graphs of `decide`.

`CompletionExceedsSound` is the longest argument: an order that keeps the threshold has at
most `k` edges across each position, so `k` times its length is at least the boundary area
(`BoundaryLeast`, a rearrangement) plus the lengths of the edges among the vertices left,
and these are at least what the shortest distances of as many pairs (`MinimumFill`) or of as
many neighbours (`DegreeArea`) add up to; and at the position where half of a core is placed
(`PartReached`) the core is cut as often as its degree demands, in a graph without triangles
by Mantel's theorem (`Mantel`).

### Controller

`OptimizerProofs`: `TypeCorrect`, `Soundness` (`IntervalSound`) and `NothingLost`
(`ProgressKept`).

### Layout, and what is only model-checked

A module begins with the invariant, then lemmas on cardinalities and on how a step may
keep a conjunct, then a lemma per action with a step per conjunct, then the theorem.
TLC checked every inductive invariant on the instance of its run before it was proved.

- Liveness (`CallsReturn`, `PermitsServed`, `PoolJoins`, the `Decides` and `Decided`,
  `Ends`, `ServiceReturns`, `PoolJoined`): beyond the prover.
- `CacheSound`, `AnswerSound`, `Covered`, `StateExact` of `DecisionSearch`. The lemmas of
  `SolverLemmas` are about its nodes too; the invariant over its regions is not proved.
- The algorithms of section 3, which are recursive over their data.

## 6. Findings

- **One-shot arms** (`exec_oneshot`): a thread in the steal loop can enter an arm whose
  only lease is still running, because `ready_` is cleared after the work.
- **Lowered bound** (`optimizer_epochs`): an infeasible decision assigns `lower` without a
  maximum, so a bound a secondary proved is lost and a decided forest is served again,
  which throws.
- **Checkpoint after a narrow witness** (`optimizer_resume`): `upper` is set to the
  threshold, the file keeps the narrower ordering, and the resuming run refuses it; other
  states of the same kind cannot be written at all.
- **Barrier of the first round** (`pool_stall`): a thread waits for the first claim of a
  thread that has left the epoch without one; without a deadline `service()` does not
  return.

Facts met on the way that no violation run is spent on:

- A resumed session miscounts residual degrees: `rebuild_residual_state`
  (`decision_session.cpp:528-545`), called by the restoring constructor, gives placed
  vertices the degree 0, and `undo` (line 505) puts them back into the histogram with it.
  The degrees of the session are too small from then on, and `apply` at a neighbour of
  such a vertex throws "residual-degree histogram overflow" (line 559). The bounds read
  from them stay sound, and it happens only where the residual degree alone could
  exceed the threshold (`residual_state_enabled`). `StateExact` and `AnswerSound` say what
  is left: before a restart the state is exact and nothing throws.

- `run_process_posix` (`optimizer_v2.cpp:168-252`): when `waitpid` fails, the status
  stays 0 and reads as exit code 0, so `run_pb_sat_root_job` takes a lost checker for one
  that accepted. `pb_solver.cpp` returns -1 there (`LostCheckers` in `PbChecks`).
- `recycle_page` (`decision_cache.cpp:297-314`): a sweep that only demotes leaves
  `clock_hand_` at the number of pages, and `restore` refuses a snapshot taken then
  (`SnapshotsRestore`).
- The Lagrangian bound never exceeds the cut of the prefix, and it is only tried where
  that cut is within the threshold: it can never prune (`CertificatesWithinCut`), though
  `tests_progressive_cheap_bound_session.cpp:121-122` asserts that it does. Line 35 of
  that file asserts `stale_rejected`, a field the code never sets; the assertions hold
  only when compiled out.
- `evaluate_claimed_one` finds a task by region, threshold and prefix, not by the caller's
  generation; the sweep of live generations before it makes that harmless
  (`ClaimsSettle`).
- A tightening of `IncrementalCadicalSession::solve` that failed half-way would leave
  units behind; it cannot fail half-way (`TighteningExact`).
- `optimize_cutwidth_v2` adds the evaluations and prunes of `partial_bounds` twice;
  the width the MILP solver reports is taken without computing it again.
- `parallel_decision_session.cpp:937-944` says external workers stay on the resumable
  path, but lines 945-962 run the recursive kernel for them too, with the claim as its
  budget. `ProofForest` follows the code.

## 7. Not modelled

SDP numerics, MILP and external solver processes beyond their exit codes; the vendored
DRAT checker; command line and Python bindings; byte formats of checkpoints and their
hashes (what is saved and checked is in `Optimizer`); exceptions in leases of external
workers; oneTBB; clocks (a deadline may pass at any look at it); memory orders weaker
than sequential consistency, except the relaxed stop flag of `RootTasks` and the lost
notifications of `WorkerPool`; statistics, traces and byte accounting.
