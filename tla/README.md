# Verification of the SAT redundancy remover

TLA+ models, model checks and machine-checked proofs for the redundancy-removal
engines of this repository, from the rewriting of single gates to campaigns of
many processes over many circuits.

The program takes and-inverter graphs (AIGs), looks for gates whose output can
be replaced by a constant without changing the function of the circuit
(a stuck-at fault that no input can reveal), and removes them.  Its promise is
that the circuit it leaves behind computes what the source computed, is smaller,
and, when it says COMPLETE, has no such gate left.  `RedundancyRemoval` states
this promise, and five of the models are shown to keep it.

Paths below are relative to `src/`.

## 1. Inventory

| Component | Code | State it keeps | Operations | Status |
|---|---|---|---|---|
| Dynamic worker pool | `alg10_dynamic_tfo_pool_campaign.py` | per circuit: work AAG, frontier, history, inflight, proposals, flags; futures; checkpoints | mark terminal, admit barrier, select circuit and batch, dispatch, wait, handle results, apply barrier, drain, finalize, save | modelled in `DynamicPool` (seconds estimates and telemetry left out) |
| Budget ladder | the same file, `next_budget`, `_retry_budget_targets` | none | next rung, targets of a retry | modelled, proved: `BudgetLadder` |
| Proposal barrier | `alg10_parallel_commit_coordinator.py` `_serial_recheck_tfo`, `_cec_transaction` | working gate list, accepted replacements, candidate AAG | recheck, rewrite, check, install | modelled on gates: `SerialCommit` |
| Single-circuit coordinator | the same file, `run_coordinator` | generation, frontier, checkpoint | select a batch, wave, recheck, transaction, save, final check | modelled: `CommitCoordinator` |
| Wave campaign | `alg10_parallel_tfo_benchmark_campaign.py` `run_campaign` | per target: seed, directory, outcome | rounds, slices, seeds, failures | modelled: `WaveCampaign` |
| Tiered engine Alg10 | `optimizer_alg10_tiered.py` `solve_circuit` | phase, tier, frontier, checkpoint | four proof tiers, hand-over, retry rounds, resume, save | modelled: `TieredEngine`; the solvers inside a tier are their verdicts |
| Checkpoint store | `optimizer_alg10_tiered.py` `_save_checkpoint`, `_load_checkpoint` | JSON part and AAG part in two directories | rank, protect, save, load, resume | modelled: `CheckpointStore` |
| Seed discovery | `alg10_parallel_tfo_benchmark_campaign.py`, `alg10_ranked_frontier_campaign.py` | none | choose the best checkpoint | modelled as the pool uses it, in `DynamicPool` |
| Worker query engine | `alg10_frontier_shard_probe.py` | per-process circuit cache | classify a batch; find, parse, evict a circuit | verdicts in the engines, cache in `WorkerCache` |
| AIG structure | `optimizer_alg10_tiered.py`, `optimizer_alg8_hybrid.py` (`pure_python_forward_strash`) | gate list, fanout graph | affected roots, cone, TFO slice and audit, miter, rewrite, strash | modelled: `AIG` |
| Alg8, Alg9 | `optimizer_alg8_hybrid.py`, `optimizer_alg9_incremental.py` | batch; control state of the incremental solver | batch, fallback; sweep, rebuild | modelled on gates: `GateEngines` |
| Ranked, portfolio, native campaigns | `alg10_ranked_frontier_campaign.py`, `alg10_parallel_portfolio.py`, `alg10_native_tfo_7h_campaign.py` | best result per circuit | processes under timeouts | planned |
| Alg1 to Alg7, ATPG | `optimizer*.py`, `atpg_optimizer.py` | none across iterations | sweep and rewrite | superseded prototypes, not modelled |
| CNF generation, verifier | `generators.py`, `verifier.py` | none | encode, solve | verdicts only |
| ABC wrapper | `abc_utils.py` | none | `cec` | its verdict is `Equivalent` |
| Command lines, reports, plots, monitors, experiments, benchmark preparation, fuzzing, demos | the remaining scripts | result files | read and print | not modelled: they feed nothing back |
| ABC, AIGER | `abc/`, `aiger/` | | | third party |

How they interact.  The scheduler of the pool is a single process.  It submits
batches to a `ProcessPoolExecutor` of `jobs` workers and one barrier at a time
to a second executor with a single process, and it learns of both through
`concurrent.futures.wait`.  Workers and the commit process share the file
`current.work.aag` of a circuit *by path*: a worker reads it when it starts, the
commit process replaces it (`os.replace`).  The coordinator is one process with a
pool of its own that it waits for in every generation; the wave campaign calls it as
a function, one target after the other.  The tiered engine is sequential.  Runs and
campaigns are connected only through the checkpoints they leave on disk, and these
pass from one engine to another.

What is hard here, and the properties that answer it:

* Candidates that are redundant one by one are not redundant together
  (`AcceptedTogetherSafe`, `OutputKeepsFunction`, `AcceptedIsSafe`), yet a proof must not
  be in vain (`NoProofIsWasted`).
* A commit renumbers the gates.  Every index in flight, in a cache or in a saved
  frontier is then about another circuit (`NeverStale`, `BarrierExclusive`,
  `SolvesTheSnapshot`, `FrontierKeepsARedundancy`).
* A candidate wanders between frontier, inflight set, proposals and back, or from
  tier to tier, on a dozen paths of success, timeout and failure (`InflightExact`,
  `NothingLost`, `FrontierCoversRedundancies`).
* Retries must climb or an engine repeats itself (`HigherBudgetOnly`,
  `GenerationAdvances`, `Settles`, `RunSettles`).
* A run may be killed anywhere and resumed, by itself or by another engine
  (`SavedFrontierCovers`, `CompleteIsIrredundant`, `CleanRestart`,
  `RestartPointKept`, `CommitIsCheckpointed`, `ImplementsRemoval`).
* Proposals, tasks, circuits and targets compete for slots and for the time left
  (`WithinCapacity`, `Settles`, `CampaignEnds`, `EveryTargetSettles`,
  `TargetsImplementRemoval`).
* The SAT query encodes only a slice of the circuit (`TfoExact`,
  `AuditNeverRaises`), and the rewrite must leave a readable AAG that is smaller
  (`CandidateWellFormed`, `CommitShrinks`).
* A loop over candidates ends when a pass finds nothing (`QuietPassLeavesNothing`).

`PROJECT.json` lists these hazards at their lines.

## 2. Modules

```
on gates      AIG <- SerialCommit <- GateEngines <- MCSerialCommit

on verdicts   CircuitData <- CheckpointStore <- TieredEngine <----- MCTieredEngine
                   ^               ^
                   |               +--------- CommitCoordinator <-- MCCommitCoordinator
                   |                                 ^                     ^
                   |                                 +-- WaveCampaign <-- MCWaveCampaign
                   +---- DynamicPool <- PoolRemoval <- MCDynamicPool

BudgetLadder  <- DynamicPool, TieredEngine, CommitCoordinator
MCCircuits    <- MCDynamicPool, MCTieredEngine, MCCommitCoordinator   (INSTANCE AIG)
RedundancyRemoval    INSTANCE in SerialCommit, PoolRemoval, CommitCoordinator,
                     TieredEngine, WaveCampaign
WorkerCache   <- MCWorkerCache

proofs        GateProofs -> GateEngines
              CoverageProofs -> PoolRemoval, DynamicPoolProofs -> DynamicPool, BudgetLadderProofs
              CoordinatorProofs -> WaveCampaign, StoreProofs, BudgetLadderProofs
              TieredProofs -> TieredEngine, StoreProofs, BudgetLadderProofs
              StoreProofs -> CheckpointStore        WorkerCacheProofs -> WorkerCache
```

(`<-` and `->` point from a module to one that it extends.)

The models stand on two levels.  `AIG`, `SerialCommit` and `GateEngines` work on gates and
show what a verdict, an accepted set and a rewrite are.  The process models above them
see only this data of an AAG: its candidates, the sets of replacements that are safe
together, its function, its size, and what AAG a safe set leads to
(`CircuitData`).  The assumptions named there are what the level of gates is proved
to give: an accepted set keeps the function (`OutputKeepsFunction`) and loses a gate
(`CommitShrinks`).  `MCCircuits` computes the data from gate lists, with the operators
of `AIG`, so that the process models run on what the engines would really
answer.

### RedundancyRemoval

The abstract specification of one circuit in any engine: `circuit`, `kept` (what a
restart begins with) and `complete`.  A `Commit` shrinks the circuit within its function,
`Keep` never gives up a reduction, `Finish` needs an irredundant circuit, `Restart`
goes back to what was kept.  Commits may be kept at once, since the pool's work AAG
survives its scheduler.

### AIG

Circuits as `parse_aag` returns them: literals are AIGER integers, a gate is
`<<lhs, r0, r1>>`.  A Boolean function is the set of primary assignments for which
it is 1, so that `Function` takes one pass over the gates (`TruthsOver`, which adds one
truth after the other `With` its gate).  Latch outputs count as primaries and next
states as roots, as in `_sweep_roots`.  The loops of the code (`Truths`, `Reach`,
`FaninDependencySlice`, `StrashPass`, `Resolve`) are recursive functions of the number of steps
taken.

The operators are the structural code: `Fanout`, `AffectedRoots`,
`GoodCone`, `TfoSlice`, `FaninDependencySlice` and `AuditPasses`
(`_audit_tfo_slice`), the single-fault miter (`NoRootDiffers`, `TfoVerdict`) and
`pure_python_forward_strash` (`Strash`: constant folding, hashing with kept ids,
collection).  The solver is exact: `TfoVerdict` decides the miter's formula.  The
CNF clauses themselves are abstracted to the functions they define.
`Redundant` is the reference definition, over whole circuits, that the verdicts
are compared with.

`WellFormed` is what the engines rely on in a source: one definition for each literal that
is read, before its readers, and gates by increasing id.  Nothing in `parse_aag`
insists on it.  The benchmarks have it because they are written by yosys
(`write_aiger -ascii` in `prepare_benchmarks.py:24` and `prepare_benchmark_suites.py:121`) or by
the writer of the repository itself; strash sorts what it keeps by id and refuses a gate that reads an id
defined only later (`optimizer_alg8_hybrid.py:228`).  `SourcesAssumption` makes it
an assumption on the sources of `SerialCommit`; that every AAG the engines write has it again is
`CandidateWellFormed`, which is proved.

### SerialCommit and GateEngines

`SerialCommit` is one circuit, one barrier after the other.  `Classify` is what the
workers find on the work AAG; `Propose` picks any nonempty selection of it in any
order, since which proposals meet at one barrier depends on
timing; `Recheck` is one round of the loop in `_serial_recheck_tfo` with the
growing `working` gate list; `Rewrite` applies the accepted replacements to the
work AAG and restructures; `Commit` is the decision of `_cec_transaction`.  `slow`
chooses once whether anything may time out.

`GateEngines` puts beside it, on the same state, the two older ways from proofs to a smaller
circuit:

* Algorithm 8 (`Batch`): all candidates are proved by themselves, `ConflictFree` picks a set
  in which none lies in the fanout of another (`compute_tfo_conflict_graph`), and the
  set is replaced and written at once.  If the output does not verify, `BatchTrial`
  replaces one after the other and verifies each time.
* Algorithm 9 (`Sweep`): one incremental solver asks for each candidate under the
  assumptions of all accepted faults (`SweepFaults`), in passes until one accepts nothing
  (`SweepPassEnds`); the result is rewritten without any equivalence check
  (`SweepRebuild`) and the next phase begins on it.  Timeouts may abort a phase
  (`SweepAborts`), an exception drops what it has accepted (`SweepRaises`).

### CheckpointStore

`_save_checkpoint` and `_load_checkpoint`.  A checkpoint is a record of its two files:
`work` is the AAG part, everything else the JSON part, with `about` for the sha the
JSON part records.  A directory is a set of at most one checkpoint.  `RankedBefore` is
the order of the configured policy with the ties of `_checkpoint_rank`; `SavedTo` is a
save with best-checkpoint protection against both directories, `TornTo` a save that dies
between the two files, `Loaded` the choice at the beginning of a run, `Resumable` the test
that lets a saved frontier be used.

### CommitCoordinator

Runs of `run_coordinator`, one after the other (`Launch`, `RunOf`).

| `pc` | place in the code | actions that leave it |
|---|---|---|
| `off`, `done`, `raised`, `crashed` | no run | `Launch` |
| `generation` | head of the loop, line 524 | `Begin` (frontier, history, budget, batch), `OutOfTime`, `OutOfGenerations` |
| `wave` | futures of the shards, line 565 | `Wave`, `WorkerError` |
| `recheck` | `_serial_recheck_tfo`, line 591, and `_cec_transaction`, line 599 | `Recheck(k)`, one proposal after the other; `Transaction` |
| `save` | checkpoint of the generation, line 659 | `Save` |
| `final`, `final_save` | after the loop, line 705 | `FinalCheck`, `FinalSave` |

The frontier and its history are made anew in every generation from `phase_state`
(`CurrentFrontier`, `CurrentHistory`), as in `_frontier_from_state`, which trusts them
only for the sha and engine they were made for.  `Crash` and `CrashInSave` may come
anywhere.

### WaveCampaign

`run_campaign` over the targets, on top of complete coordinator runs: `NewRound`, `Visit`
(a coordinator run with the seed for the first visit and what the target's directory
holds for later ones), `Return`, `Expire`.  `queue` is the part of the list `active` that the
inner loop has still to come to; the list is in the order of the targets, so the next one is
the least.  The variables of `CommitCoordinator` are those of
the visit in progress; `parked` keeps the directories of the others.  A seed is a
checkpoint found elsewhere, or the output of an earlier campaign, which is
checked and entered into the directory (`SeedInPlace`) or refused (`SeedRefused`).

### TieredEngine

Runs of `solve_circuit`.  `pc` is the tier (`tfi`, `window`, `cone`, `global`) or the place
between phases.  A phase begins with all candidates, less those simulation rejects
(`BeginPhase`), in a lower tier or budget round of a saved frontier (`ResumeTier`,
`ResumeGlobal`).  In each tier a candidate is accepted, rejected, or passed on:
`Provable` and `Rejectable` say what a tier can see.  `tfi` proves constant functions,
`window` and `cone` and `global` whole effects on top of what is accepted; only `cone` and
`global` reject.  `LeaveTier` hands over or ends the phase, `LeaveRound` begins the next
budget, `Deadline` and `Interrupt` save the frontier of the tier they meet, and `EndPhase`
rewrites and saves, or decides the status.  A checkpoint that says COMPLETE is
believed (`AlreadyComplete`).

### BudgetLadder

`next_budget` and `_retry_budget_targets`.  The growth factor, a float in the
code, is a fraction; `ceil` becomes exact integer division.  0 stands for `None`.

### DynamicPool

The campaign.  The variables of the first two groups are the files and the
fields of `PoolCircuitState`, `tasks` and `barrier` are the futures with what
they carry, and `pc` is the place in `run_dynamic_campaign`:

| `pc` | place in the code | actions that leave it |
|---|---|---|
| `off` | no campaign yet | `Launch` |
| `top` | head of the while loop, line 1095 | `LoopTop` (terminal marks, admission of a barrier), `LeaveLoop` |
| `dispatch` | dispatch loop, line 1154 | `Dispatch(c)`, `DispatchDone` |
| `wait` | `wait(...)`, line 1267 | `Wait` |
| `handle_barrier`, `handle` | loops over `done`, lines 1272 to 1354 | `HandleBarrier`, `HandleWorkerError(t)`, `HandleResult(t)` |
| `drain` | loop after the deadline or the end of work, line 1358 | `Wait`, `Drained` |
| `finalize`, `final_barrier`, `final` | final loop, lines 1414 to 1441 | `FinalizeStart`, `FinalizeEnd`, `Close(c)` |
| `done`, `crashed` | returned, or raised or killed | `Launch` |

The executors' side is `Solve`, `WorkerError`, `WorkerDeath`, `Recheck`,
`CheckAndInstall`, `Report` and `BarrierFails`, each free to happen between any
two steps of the scheduler.  `Expire` is the deadline.  `Crash` and
`CrashInSave` end the scheduler.

Decisions the code takes from data outside the model are left open:
which candidates of equal history a batch takes (`_candidate_priority` sorts
equals by frontier order), which circuit among equals (least recently served),
whether an estimate fits the time left (`DeadlineMayCome`), whether the
checkpoint interval has passed, and which queries time out.

### WorkerCache

The parsed circuits a pool worker keeps (`_load_worker_circuit`), found by path, inode,
size and modification time, beside commits that write the next AAG to a new file and
rename it over the old one.  Inodes are used again and sizes may coincide.  The clock moves
on between two commits of a circuit, since a whole equivalence check lies between the
write and the rename; this is the assumption under which the cache is right.

### MC modules

Some definitions have wrong twins above them, marked "Mutant of": each is a
plausible slip in the code that a property of section 3 must detect, and
nothing else refers to it.

`MCSerialCommit` gives the circuits of the gate level: all two-gate circuits over two inputs
in one normal form (different fanins, larger first, constants included) and
larger ones in which redundancies interact, one of them with a latch.

`MCCircuits` has circuits of 1 to 5 gates for the process models and builds all AAGs that
accepted rewrites can make of them:

* `Guarded`, `Absorption`: one redundancy, with and without a gate left;
* `Duplicate`: two redundancies that exclude each other, the reason for the
  serial recheck; `Mixed` has an absorption of its own beside it;
* `Nested`: a commit uncovers the next redundancy, two generations;
* `Shifting`, `Dangling`: a commit moves a redundant gate to another index;
* `Conjunction`: irredundant.

`MCDynamicPool` starts campaigns as in practice (`Unsolved = "hard"`), with the frontier that
earlier engines left: the redundant candidates and those of the first gate.
`MCCommitCoordinator` gives the foreign checkpoints a run may begin with: of the tiered
engine, of another query engine, a torn one, an output.

## 3. Runs

Fairness.

* `DynamicPool`: weak fairness of `Loop`, since the scheduler is a single loop that always
  takes its next step; of `Answer`, since a solver call ends with its conflict budget;
  of `CommitProcess`, since a barrier is a finite loop of such calls and one ABC
  call under a timeout; of `Expire`, since the clock goes on.
* `TieredEngine`: weak fairness of `Working`, everything a run does by itself.  The process
  is sequential and every solver call in it has a conflict budget.
* `WaveCampaign`: weak fairness of `Scheduler` and of the visit in progress for the same
  reasons.  Strong fairness, for each target, of beginning a generation: a slice is meant
  to be long enough for one, though any single slice may be out of time
  before it begins.  This is the one assumption about the configuration.
* `GateEngines`, `CommitCoordinator` and `WorkerCache` have safety and action properties only.

Nothing is assumed of failures, nor that a solver ever gives an answer other than a timeout.

Deadlock is checked in `worker_cache`, where workers go on for ever.  Everywhere else runs and
campaigns end (`done`, `failed`, `written`, the last crash); that they do not stop too
early is `CampaignEnds`, `Settles`, `RunSettles`, `EveryTargetSettles`, and, where
no fairness is stated, `NoProofIsWasted`, `QuietPassLeavesNothing` and `GenerationAdvances`.

| Run | Properties | What it shows |
|---|---|---|
| `serial_commit` | `EngineTypeOK` `AcceptedTogetherSafe` `CandidateWellFormed` `TfoExact` `AuditNeverRaises` `NoProofIsWasted` `OutputKeepsFunction` `QuietPassLeavesNothing` `CommitShrinks` `ImplementsRemoval` | barriers of up to three proposals, the batch of Algorithm 8 and the sweep of Algorithm 9 on every two-gate circuit and the larger ones, with and without timeouts |
| `pool_faults` | `TypeOK` `InflightExact` `NeverStale` `BarrierExclusive` `CampaignEnds` | one campaign, two workers, deadline, every failure of the model |
| `pool_restarts` | `NothingLost` `SavedFrontierCovers` `CompleteIsIrredundant` `HigherBudgetOnly` `CleanRestart` `RestartPointKept` `ImplementsRemoval` | two campaigns with crashes, failed barriers, deadline, persistent retries |
| `pool_contention` | `WithinCapacity` `Settles` | two circuits, two slots shared with the barrier, no deadline |
| `coordinator_faults` | `TypeOK` `FrontierKeepsARedundancy` `GenerationAdvances` `CommitIsCheckpointed` `ImplementsRemoval` | runs without end of the coordinator under every failure and with deadlines after the first generation, from checkpoints of other engines and torn ones |
| `wave_campaign` | `CampaignTypeOK` `EveryTargetSettles` `TargetsImplementRemoval` | two targets in turn, slices that may end at any generation, worker errors and checks that time out |
| `tiered_faults` | `TypeOK` `FrontierCoversRedundancies` `CommitIsCheckpointed` `AcceptedIsSafe` `ImplementsRemoval` `RunSettles` | runs without end of the sequential engine, all four tiers, deadlines, interrupts, crashes, torn saves |
| `worker_cache` | `TypeOK` `SolvesTheSnapshot` | two workers, two circuits, three inodes, equal sizes |
| `failed_is_stopped` | `FailedStays` (violated) | finding 1 |
| `late_barrier_death` | `CompleteIsIrredundant` (violated) | finding 2 |
| `stale_frontier` | `FrontierKeepsARedundancy` (violated) | finding 3 |
| `lost_escalated` | `CompleteIsIrredundant` (violated) | finding 4 |

The refinement.  `ImplementsRemoval` maps an engine's state to `RedundancyRemoval`: the work AAG
to `circuit`, the AAG the next run would start with to `kept`, and what the engine says
of itself to `complete`.  In `serial_commit` the work AAG is what a restart reads; in
the coordinator, the tiered engine and the wave campaign, whose work AAG dies with the run,
it is the best checkpoint.  The pool and the campaign have one instance per circuit
(`PoolRemoval`, `TargetsImplementRemoval`): their other steps leave it alone.  In
`TieredEngine` and Algorithm 9 nothing compares a rewrite with the source, so the
refinement shows what the tiers and the control state must get right by themselves.

Bounds, and why they are enough for what they show:

* `MaxRuns` (1 or 2): campaigns of the pool one after the other.  With two, everything one
  leaves is resumed.  Coordinator and tiered engine have no such bound: their runs
  go on, and the saved histories keep the state space finite.
* `Jobs` 2: the least number at which tasks overlap with each other and with a
  barrier.  The findings need only one.
* `Budgets = {1}` with growth 2 and cap `MaxGeneratedBudget` 2: one configured and one
  generated rung, then none.  What the ladder does for any numbers is proved.  The
  tiered engine has two configured budgets and no generated ones.
* Circuits of at most 5 gates and 2 inputs: two redundancies that exclude each other beside one
  that is independent (`Mixed`), or an index that comes to mean another gate (`Dangling`,
  `Shifting`).  A commit, and with it a second generation, occurs in every run.
* `MaxProposals` 3: triples of interacting replacements; the recheck looks at one proposal
  at a time, so more only repeat it.
* `MaxPasses`, `RebuildAfter`, `RebuildRounds` 2: a pass and one more, a phase that is cut
  short and one that is not, and a rewrite of a rewrite.
* `Hard`: the candidates whose queries may time out are the redundant ones and those of one
  more gate; `Simulated`: simulation may reject the first gate's candidates.  Timeouts and
  rejections elsewhere repeat these.
* `MaxGenerations` 4 (2 in the campaign) is the code's parameter, small enough to be reached,
  so that a target needs more than one visit.
* `Deadlines`: the generations at which a run may be out of time.  `coordinator_faults` leaves
  out the first, since a torn save followed by it is finding 3; in the campaign, which
  has no torn saves, it may be any.
* `BatchSize` 2 leaves part of a frontier for the next generation; 4 in the campaign takes
  most of it, to keep visits short.
* `Inodes` 3 for two circuits: one free, so that each is used again at once.

Every property of a passing run has a mutant in `PROJECT.json`: a wrong form of a
mapped definition under which the run finds it violated.

## 4. Findings

Shown by a run:

1. **A failed circuit is not stopped** (`failed_is_stopped`).  `COMMANDS.md:329`
   says that a CEC failure or coordinator error stops the target for audit.  The
   scheduler sets `failed` and leaves the proposals, and `_finalize_proposals` has no test of
   `failed`: at the end of a campaign without deadline it rechecks them
   and replaces the work AAG.
2. **A late death of the commit process** (`late_barrier_death`).  Between
   `os.replace` in `_cec_transaction` and the delivery of the result the work AAG is
   new and the scheduler's frontier old.  When the process dies there, the
   final `_persist_state` saves the old frontier with the sha of the new AAG.  The next campaign
   trusts it; in the run it drops candidates of the new AAG it never tried, and reports
   COMPLETE with a redundant gate left.  The function of the circuit is
   still right.
3. **A stale frontier becomes a good one** (`stale_frontier`).  A crash between the two files
   of a save leaves the new AAG beside the old JSON part.  A coordinator run that
   begins there and is out of time before its first generation never asks whether the
   frontier fits, and its final save stamps it with the sha of the new AAG.
   `THESIS_ALGORITHM_PSEUDOCODE.md:542` requires it to match.
4. **Escalated candidates are lost** (`lost_escalated`).  An exactly resumed tfi frontier with
   the window tier off: `_run_window_miter_tier` returns at once without the telemetry key from which
   the exact path takes what goes on to the cone tier, so nothing does, and the run
   reports COMPLETE with a redundant gate left.

Seen with the other configurations of this directory.  Each is a property TLC finds violated;
they are not among the runs because the effect is smaller or the sentence in question leaves
room:

* `TornSave.cfg`, `RestartPointKept`: a crash between the two files of a save
  (`optimizer_alg10_tiered.py:735`) leaves a pair whose gate counts differ, which the
  pool's seed discovery rejects; a reduction that was saved is lost to later campaigns.
* `UnverifiedOutcome.cfg`, `CompleteMeansVerified`: the pool's status line
  (`alg10_dynamic_tfo_pool_campaign.py:1442`) tests `complete` before `failed`, so a circuit whose last
  equivalence check failed counts for ALL_TARGETS_COMPLETE.
* `CommitNotSaved.cfg`, `CommitIsCheckpointed`: under the policy `unresolved`, the
  coordinator's default (`alg10_parallel_commit_coordinator.py:34`), the protection refuses
  the checkpoint of a commit, since a new AAG has more unresolved candidates than the
  frontier it replaces; a crash loses the commit.
* `CompleteUnresolved.cfg`, `CompleteLeavesNothing`: with a streak limit the tiered engine's
  global tier stops with candidates left and a status that `solve_circuit` does not
  stop for (`optimizer_alg10_tiered.py:4553`); the run says COMPLETE with an unresolved
  count above zero, against `THESIS_ALGORITHM_PSEUDOCODE.md:580`.
* `FrontierNotSaved.cfg`, `FrontierIsSaved`: the protection keeps an older checkpoint with as
  few gates and a smaller unresolved count and drops the frontier a run leaves behind
  (`optimizer_alg10_tiered.py:728`).
* `InterruptedFrontier.cfg`, `FrontierIsResumable`: an interrupt during a tier may save
  a candidate both as pending and as passed on, which the loader refuses
  (`optimizer_alg10_tiered.py:586`); the next run begins its tiers again.

Two more without a run.  A verified-output seed that does not pass its fresh check raises
outside the handler that stops a target and ends the wave campaign for all of them
(`SeedRefused`), against `COMMANDS.md:329`.  And the `safe_batch` of Algorithm 8 is not
safe: two equal gates lie outside each other's fanout, each can be replaced, both cannot.
It is the verification that makes the output right and the fallback that makes it useful.

## 5. Proofs

Each theorem is about every circuit, every value of the constants and every set of
failures, unless it says what it assumes.  `PROJECT.json` lists the results; the rest
are lemmas.

| Module | Proves | Assumes |
|---|---|---|
| `GateProofs` | `TfoDecides`, `AuditHolds`, `StrashIs`: what a query, its audit and strash compute | well-formed circuits |
| | `EngineTypeOK`, `AcceptedTogetherSafe`, `CandidateWellFormed`, `TfoExact`, `AuditNeverRaises`, `NoProofIsWasted`, `OutputKeepsFunction`, `QuietPassLeavesNothing`, `CommitShrinks`, `ImplementsRemoval` | well-formed sources |
| `BudgetLadderProofs` | `NextBudgetAscends`, `RetryTargetsAscend` | |
| `DynamicPoolProofs` | `TypeOK`, `NeverStale`, `BarrierExclusive`, `InflightExact`, `WithinCapacity`, `HigherBudgetOnly`, `FunctionKept` | |
| `CoverageProofs` | `NothingLost`, `SavedFrontierCovers`, `CompleteIsIrredundant` | `NoLateDeath` |
| | `CleanRestart`, `RestartPointKept` | `NoLateDeath`, `NoTornSave` |
| | `ImplementsRemoval` | those and `HasGates` |
| `StoreProofs` | `SaveIsNotLost`, `SavesMoveOn` | (in the theorems) |
| `CoordinatorProofs` | `TypeOK`, `GenerationAdvances` | |
| | `FrontierKeepsARedundancy`, `ImplementsRemoval` | `NoStaleStamp` |
| | `CommitIsCheckpointed` | `GatesFirst` |
| | `CampaignTypeOK` | |
| | `TargetsImplementRemoval` | `NoStaleStamp` |
| `TieredProofs` | `TypeOK`, `AcceptedIsSafe` | |
| | `FrontierCoversRedundancies`, `ImplementsRemoval` | `NoTierSkipped` |
| | `CommitIsCheckpointed` | `GatesFirst` |
| `WorkerCacheProofs` | `TypeOK`, `SolvesTheSnapshot` | |

None of the assumptions in the last column is for the prover's sake: without it the
property is false.  The configuration named with it shows this.

* Well-formed sources (`SourcesAssumption`, see section 2): on gates out of order an evaluation in
  file order reads what is not there yet.

* `NoLateDeath`: the commit process does not die between its `os.replace` and its report
  (finding 2, `LateBarrierDeath.cfg`).
* `NoTornSave`: no crash comes between the two files of a save (`TornSave.cfg`).
* `HasGates`: no AAG of the instance is without gates.  Seed discovery does not count one that is,
  and goes back to the AAG before it.
* `NoStaleStamp`: torn saves and torn seeds are excluded, or every run gets as far as its first
  generation (finding 3, `StaleFrontier.cfg`).
* `NoTierSkipped`: when frontiers are resumed exactly, a tier that is on is not followed by
  one that is off (finding 4, `LostEscalated.cfg`).
* `GatesFirst`: the policy compares gates first, and no seed is torn, or it takes the newest
  checkpoint (`CommitNotSaved.cfg`).

Besides these the proofs use the `ASSUME`s of the modules, which TLC evaluates
in every run of the component: sizes and sources (`SizesAssumption`, `SourceAssumption`
and their like), and of `CircuitData` that there are finitely many candidates
(`CandidatesAssumption`), that a redundancy is a candidate of its AAG (`WorksAssumption`), that an AAG
has at most two per gate (`CandidateOrderAssumption`), and that replacing a safe set leads to a
smaller AAG of the same function (`RestructuredAssumption`), which is what
`OutputKeepsFunction` and `CommitShrinks` state on gates and `GateProofs` proves there.

### GateProofs

First the operators, for every well-formed circuit.  What a recursive function of `AIG`
computes takes an induction, and the induction theorems of the library take an operator;
`SetInduction` and `PositionInduction` replace them, with the claim given as a set.  For each
function an exists lemma (`TruthsToExist`, `ReachToExist`, `SliceToExist`, `PassToExist`) is
followed by what one step does.

* Evaluation.  A list of truths in which every gate is the AND of its fanins is an evaluation, and
  there is only one (`EvaluationUnique`); `Truths` is it (`TruthsEvaluate`).  Afterwards no proof looks at
  the order of evaluation again: two circuits are compared by giving an evaluation of each
  (`EquivalentIs`).
* Structure.  `Reach` is the least closed set (`ReachClosed`, `ReachLeast`), so the good cone is
  closed under fanins (`ConeIs`) and the slice under fanouts within the cone (`SliceIs`).
* One query.  A gate that does not depend on the target keeps its truth under the fault
  (`UnaffectedKept`); cone and slice therefore hold the real truths of the good and the faulty circuit,
  and `MiterIs` and `TfoDecides` conclude that the verdict is UNSAT exactly for a redundant candidate, and
  `AuditHolds` that the second derivation of the slice agrees with the first.
* Strash.  After each gate (`StrashGateKeeps`) the substitution is flat, goes to earlier literals
  of equal truth, and the unique gates are different, in order and read only what is kept.  The
  hash table is what makes the last part hold.  Collection keeps the cone of the roots by
  increasing id (`ByKeyIs`, `CollectedIs`).  `StrashIs` puts this together: same function, well-formed,
  no more gates; `StrashShrinks` adds that every gate replaced by a constant is gone, with its id.

Then the engines, by the inductive invariant

```
IInv == PlacesOK /\ CircuitsOK /\ ReplacedOK /\ ChosenOK /\ TogetherSafe /\ OutputSafe
        /\ BarrierProofs /\ BatchProofs /\ SweepProofs
```

`AcceptedTogetherSafe` says only that the working gates compute the source's function.  To keep it
the working gates must be exactly the work AAG with the accepted replacements (`ReplacedOK`), well-formed
like it, so that `TfoDecides` applies to the circuit the recheck asks about (`RecheckStep`).
The sweep's query is the same one put differently, a replacement on top of those accepted
(`WorkingMore`).

The converse facts need to know which proofs are still good.  `BarrierProofs`: the first proposal of
a barrier was proved on the very circuit it is rechecked on, so without timeouts it is
accepted again and no barrier ends with nothing (`ProofsUsed`).  `BatchProofs`: the conflict-free choice is not
empty when something was found (`ConflictFreeIs`), and the one-by-one trial accepts its first
candidate if it accepts nothing before it.  `SweepProofs`: as long as a pass has accepted nothing, the faults assumed are
those of its beginning, so what was refuted in it stays refuted; a quiet pass is therefore an
answer for all candidates at once (`NothingLeft`).

`CommitsShrink` and `RemovalImplemented` follow: what is installed is a strashed rewrite with
at least one replacement (`StrashShrinks`) and of the source's function.  `Commit` and `SweepRebuild` map to
`Commit` of `RedundancyRemoval`, a classification that finds nothing to `Finish`, every other step to a stutter.

### BudgetLadderProofs

`NextBudgetAscends`: for every configuration the next budget is absent or larger than the
last.  `RetryTargetsAscend`: the targets of a retry start with its budget, none is below it,
and they have a greatest one.  `RetryTargets` is a recursive function, so its existence and
uniqueness come first (`ClimbExists`, `ClimbUnique`).  The induction theorems of the library
take an operator parameter, so both argue by the least counterexample (`LeastOfNaturals`,
from the well-foundedness of `<` in the library).

### DynamicPoolProofs

The inductive invariant is

```
SafetyInv == TypeInv /\ TasksTracked /\ BarrierAlone /\ NeverStale
```

`TypeInv` is `TypeOK` with the two facts it needs to be inductive: the budgets of a
task have a maximum, so that the history stays a number, and what a
barrier accepted is a safe set of its AAG, so that the rewrite exists.
`NeverStale` alone is not inductive: a result could turn stale when a
barrier installs.  `TasksTracked` says that what a task holds is in the inflight
set and that no two tasks share a candidate, so removing one task's
candidates leaves the others' marked; `BarrierAlone` says that there is at most one
barrier, and that its circuit has nothing in flight and keeps its proposals.
Dispatch is barred while there are proposals, admission while there is something in
flight, and so the two exclude each other.  `Safety` follows, and from it `TypeCorrect`
(`TypeOK`), `ResultsNeverStale` (`NeverStale`) and `BarrierIsExclusive`
(`BarrierExclusive`).

`FunctionIsKept`: the work AAG and all checkpoints compute the source's function under every
failure, the late death of the commit process and torn saves included.  The induction needs
nothing but the types and the equivalence check in `CheckAndInstall`.

`InflightIsExact`: `SafetyInv` has one half of `InflightExact`, and `Ledger` adds
the other: what is in flight is held by some task (`InflightHeld`) and is open
(`InflightOpen`), and a worker answers only for its own candidates, and truly of the AAG of
its task (`AnswersHonest`).

`CapacityIsKept` counts: tasks are finite in number, a dispatch and an admission each see a free
slot, and no other step adds anything.

`RetriesAscend`: a batch is taken from one tier, so the budget is above the history
of each of its candidates (`NextBudgetAscends`), and the history of a candidate in flight
does not move: only its own result and a barrier of its circuit, which excludes tasks,
change it.

### CoverageProofs

`NothingIsLost`, `SavedFrontiersCover` and `CompleteIsRight` share one inductive invariant,

```
Inv   == SafetyInv /\ Ledger /\ Cover
Cover == BarrierHonest /\ NothingLost /\ SavedCover
```

A candidate leaves the frontier only on an answer SAT (`AnswersHonest`: it is not
redundant in the AAG of the task, which is the scheduler's by `NeverStale`), on a
recheck that accepted nothing (`BarrierHonest`), or with a new AAG, whose frontier
is all of its gates.  `SavedCover` speaks of the AAG named by the saved sha, whichever
AAG lies beside it, and so holds across torn saves.  A circuit is
marked complete when its frontier is empty, and `NothingLost` then says that it is
irredundant; it stays so because a complete circuit is left alone (`CompleteQuiet`).

What a later campaign begins with needs a second invariant,

```
Campaign == Inv /\ CompleteQuiet /\ FunctionKept /\ Progress
Progress == SavesWhole /\ SavesEarned /\ WorkEarned
```

An AAG that differs from the seed of its campaign is smaller and was committed in it
(`Earned`), be it at work, in the checkpoint, or installed by a barrier the scheduler has
not heard of (`Landed`).  So the checkpoint counts for seed discovery even with an empty
frontier, and ranks before the seed (`BestIsNewer`).  Together with what the save protection lets
through (`PersistedWork`) no step moves the restart point except down, to the AAG at hand
(`RestartMoves`), which is `RestartPointIsKept`.  `PoolRemoves` puts this together with
`FunctionKept` and `CompleteIsRight`: an install is a `Commit` of one circuit, a save a `Keep`,
a terminal mark a `Finish`, a launch a `Restart`, and every other step stutters.

`CleanlyRestarted` needs a third,

```
Known   == Campaign /\ Fitting
Fitting == SavesFit /\ RecheckOpen /\ FrontierFits
Closed  == \* from the drain on, the circuits behind the final loop are saved as they are
```

A frontier is part of the one in its seed and of the one saved last as long as the AAG is the
same, so the save of the final loop has at most as many gates and, with as many, at most as many open
candidates: the protection never refuses it (`CloseWrites`), and the seed never outranks it
(`EndIsPreferred`; here `CandidateOrderAssumption` counts, since a seed without frontier ranks as
two candidates per gate).  The final loop runs with all futures back, and the one
barrier it starts itself is about the circuit it is at, so what was saved stays
true until the campaign has ended (`ClosedStep`).

### StoreProofs

Facts about the directories of `CheckpointStore` for all contents: which checkpoint a run loads,
that a save leaves one that is loaded, when the protection keeps the old one.  `SaveIsNotLost` and
`SavesMoveOn` are what the two engines with such directories rely on.

### CoordinatorProofs

`TypeInv == Files /\ Run /\ Control` are the types in a form the actions can take apart.  `WaveHonest` follows
one generation through its phases: a wave asks of every candidate in its batch
more than it was ever asked, what it proposes is redundant, what the recheck accepts is safe as
a whole.  From it, `NoWaveInVain` (`GenerationAdvances`): what a generation leaves of its batch has
a raised history, unless it committed.

`TrustedFrontiersKeep` has `FrontierFits` (what is in memory or on disk was made for the AAG it
is saved with, from the first generation on) and `FrontierKeeps` (then it has a
redundancy if its AAG has one) in one invariant.  The coordinator keeps less than all
redundancies: after a refused equivalence check the frontier may be short of some, never of the last.

`AAGInv` is what the checks before each commit give: the source's function, and a run never
behind the AAG it would start with.  `CommitsAreCheckpointed` is the other direction, and
needs the policy.  `CoordinatorRemoves` maps `Transaction` to `Commit`, saves and torn saves to `Keep`
(`SavesMoveOn`), the generation that finds its frontier empty to `Finish`, a launch to `Restart`.

The rest of the module is the campaign over such runs.  `CampaignHonest == Honest /\ CampaignTyped`
gives `CampaignKeepsTypes`.  `Honest` is the coordinator's own invariant and is kept by every step of
a visit (`NextTyped`, `NextHonest`); `RunFinds` shows it for the beginning of a visit, which is a run
on directories that the campaign chooses.

`TargetsRemove` needs what a visit hands to the next one,

```
CampaignFits == FrontierInv /\ SameFunction /\ ParkedFits /\ VisitFits
```

The coordinator's `NotBehind` cannot be used here.  In its first visit a target begins with a seed that lies
in none of the directories the visit knows, so that the protection of the best checkpoint does not compare
with it and a save may be one that the seed outranks; and later visits look for the seed no more.  The campaign is right
because of three facts: AAGs in the directory of such a target are the seed's or smaller (`WithinSeed`),
a visit that leaves its target live has saved (`ReturnKeeps`), and a save either becomes what a run
would load that still knows the seed, or leaves that as it is (`SavedBesideSeed`; the rank is
an order, `RankOrder`).  So a visit begins with what the target would start from, or with a
smaller AAG of its own next to a seed that outranks it, which is a `Commit` (`VisitFinds`).  Then
`Begin` with an empty frontier maps to `Finish`, saves to `Keep`, the return of a visit to `Restart`, and steps of one
target stutter for all the others.

### TieredProofs

`TypeInv` again is `TypeOK` taken apart, with the disjointness of the lists of a tier.  `SafeInv`
gives `AcceptedTogether`: in the first tier what is accepted are constant gates, which are safe in
any number; later tiers compare on top of what was accepted.  No equivalence check is needed
for the function.

`CoverInv == MadeHere /\ PhaseCovers /\ SavedCovers /\ SaidComplete` gives `TieredFrontiersCover`.  As long as a
phase has accepted nothing, each tier has every redundancy before it or passes it on;
saved frontiers cover the AAG their JSON part speaks about; a checkpoint that says
COMPLETE is of an irredundant AAG, which is why a run may believe it.

`TieredCommitsAreCheckpointed` and `TieredRemoves` are as in the coordinator, with `SafeInv` in the
place of the equivalence check.

### WorkerCacheProofs

`IInv == Shapes /\ CachesFit /\ FilesAge /\ EntriesDated /\ TasksCurrent`.  A key names no content.  What
makes it good enough is the order of modification times: an entry is at most as old as its file,
one of the same age has its content, and what is about to replace a file is younger than
it.  While a task is out its file stays, since commits and tasks of a circuit exclude each other.

### Only model-checked

* The liveness properties (`CampaignEnds`, `Settles`, `RunSettles`, `EveryTargetSettles`) and
  everything about `ENABLED`, which are out of the prover's reach.
* The violated properties of the findings, which are false as the findings' runs are configured.
* That `MCCircuits` fits the assumptions of `CircuitData`: TLC evaluates these for the circuits
  of the runs.  For circuits in general they are what `GateProofs` shows of one commit.

All other invariants and action properties of the passing runs are proved for every value of the constants
that satisfies the assumptions in the table above.

## 6. Not modelled, and why

* Seconds: the EWMA estimates of solve and barrier times only decide whether
  something is admitted near the deadline.  In the runs with a deadline any
  estimate may fail to fit.  Candidates deferred campaign after campaign are
  therefore outside what can be shown.
* Telemetry, trace and summary files: written, never read back by a scheduler.
* CNF encodings and the solvers inside the tiers of Algorithm 10 (global miter with
  assumptions, cone groups, root partitions, windows): they are the verdicts of
  their tier.  So are the global engine of a worker or a recheck and
  `verify_equivalence`.
* The order of candidates is fixed per run of the tiered engine (`Rank`) and open in the
  coordinator and the pool.
* `PRE_SIM_AFTER_TFI` (off by default), `PHASE_LOCAL_RESUME` switched off, and extra checkpoint
  directories of the tiered engine.  The initial strash is made before its model begins.
* Algorithm 9's limits on the number of candidates and its random-signature filters for large
  circuits: they shorten the list of candidates, of which `SweepBegin` keeps any part that
  has the redundant ones; gates they leave out stay as they are.  That its output
  and that of Algorithm 8 are on disk before they are verified.
* `worker_cache` assumes that the clock of the file system moves during an equivalence check.
* Discovery of targets over several directories and of earlier outputs in the wave campaign,
  and worker sizing.
* Portfolio, native and ranked campaign drivers: sequences of engine processes under timeouts,
  next in the plan.
* Algorithms 1 to 7, front ends, reports, experiments, generators: they hold no state
  beyond one circuit and feed nothing back.  ABC and AIGER are third-party code.

## 7. Plan

Proofs: the assumptions of `CircuitData` as theorems about an instance of it made of
`AIG`'s circuits, which joins the two levels in one statement; the rank order of
checkpoints for the policies not configured.

Models: the activation literals of the global incremental solver and the cone groups (assert
after accept, stale cone after a commit); the portfolio and native drivers; CNF encodings
and the verifier against `Function`.
