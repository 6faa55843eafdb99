------------------------- MODULE CommitCoordinator -------------------------
(***************************************************************************)
(* The single-circuit coordinator (run_coordinator): generations of one    *)
(* worker wave, one serial recheck and at most one commit each, with a     *)
(* checkpoint at the end of every generation and of the run.               *)
(*                                                                         *)
(* The work AAG lives in a temporary directory, so a run that dies leaves  *)
(* nothing but its checkpoints.  Runs follow one another, as the visits of *)
(* the benchmark campaign do, each from the best checkpoint it finds.      *)
(***************************************************************************)
EXTENDS BudgetLadder, CheckpointStore

CONSTANTS
  Sources,                \* the AAGs that may be on the command line
  Seeds,                  \* what the extra checkpoint directory may hold
  WorkerEngine,           \* "global" or "tfo", the engine of the history
  BatchSize,
  ContinueUntilDeadline,  \* grow budgets beyond the configured ones
  MaxGenerations,
  Deadlines,              \* bound: generations at which a run may find its time over
  Hard,                   \* bound: candidates whose queries may time out
  Faults                  \* the failures this instance may suffer

AllFaults ==
  {"worker_error", "recheck_timeout", "cec_timeout", "crash", "torn_save"}

ASSUME CoordinatorAssumption ==
  /\ Sources \subseteq Works
  /\ Seeds \subseteq Checkpoints
  /\ \A ck \in Seeds :
       /\ \A f, g \in ck.resume : f = g
       /\ ck.about = ck.work => \A f \in ck.resume : Redundant(ck.work) \subseteq CandidatesOf(f)
  /\ WorkerEngine \in {"global", "tfo"}
  /\ BatchSize \in Nat \ {0} /\ MaxGenerations \in Nat \ {0}
  /\ ContinueUntilDeadline \in BOOLEAN /\ Deadlines \subseteq Nat
  /\ Faults \subseteq AllFaults /\ Hard \subseteq Candidate

(* The configured budgets are positive and given; a growth factor of at    *)
(* most one raises when it would be used.                                  *)
ASSUME LadderAssumption ==
  Budgets # {} /\ (ContinueUntilDeadline => GrowthNum > GrowthDen)

VARIABLES
  (* files *)
  source,       \* the AAG of every run's command line; never written
  active,       \* the checkpoint directory of the runs
  extern,       \* the extra directory, only read
  (* the run *)
  work,         \* current.aag in the temporary directory
  phase,        \* phase_state, with the AAG it was made for
  open,         \* telemetry["unresolved"]
  cands, hist,  \* the frontier of this generation
  batch, budget,
  sat,          \* candidates of the batch the workers or the recheck reject
  late,         \* candidates whose query or recheck timed out
  todo,         \* proposals still to be rechecked
  accepted,
  generation,
  committed,    \* whether this generation installed a new AAG
  status, pc

files == <<source, active, extern>>
wave  == <<batch, budget, sat, late, todo, accepted>>
run   == <<work, phase, open, cands, hist, generation, committed, status>>
vars  == <<files, wave, run, pc>>

Untried == [k \in Candidate |-> 0]

(* Checkpoints are found by the name of the circuit.                       *)
SeedsOf(w) == {ck \in Seeds : Meaning[ck.work] = Meaning[w]}

Init ==
  /\ source \in Sources /\ work = source
  /\ active = {}
  /\ extern \in {{}} \cup {{ck} : ck \in SeedsOf(source)}
  /\ phase = {} /\ open = 0
  /\ cands = {} /\ hist = Untried
  /\ batch = {} /\ budget = 0 /\ sat = {} /\ late = {} /\ todo = {} /\ accepted = {}
  /\ generation = 0 /\ committed = FALSE
  /\ status = "RUNNING" /\ pc = "off"

Ended == {"off", "done", "raised", "crashed"}

Bound(ck) == {[about |-> ck.about, frontier |-> f] : f \in ck.resume}

(* A run copies the AAG of the best checkpoint, or the source; whether the *)
(* frontier fits that AAG is only asked when a generation begins.          *)
RunOf(original, own, other) ==
  /\ \/ /\ Loaded(own, other) = {}
        /\ work' = original /\ phase' = {} /\ open' = 0
     \/ \E ck \in Loaded(own, other) :
          work' = ck.work /\ phase' = Bound(ck) /\ open' = ck.open
  /\ cands' = {} /\ hist' = Untried
  /\ batch' = {} /\ budget' = 0 /\ sat' = {} /\ late' = {} /\ todo' = {} /\ accepted' = {}
  /\ generation' = 1 /\ committed' = FALSE
  /\ status' = "RUNNING" /\ pc' = "generation"

Launch ==
  /\ pc \in Ended
  /\ RunOf(source, active, extern)
  /\ UNCHANGED files

-----------------------------------------------------------------------------
(* The head of a generation.                                               *)

OutOfTime ==
  /\ pc = "generation" /\ generation <= MaxGenerations
  /\ generation \in Deadlines
  /\ status' = "TIME_BUDGET_CHECKPOINT" /\ pc' = "final"
  /\ UNCHANGED <<files, wave, work, phase, open, cands, hist, generation, committed>>

OutOfGenerations ==
  /\ pc = "generation" /\ generation > MaxGenerations
  /\ status' = "MAX_GENERATIONS_REACHED" /\ pc' = "final"
  /\ UNCHANGED <<files, wave, work, phase, open, cands, hist, generation, committed>>

Trusted == {p.frontier : p \in {q \in phase : Resumable(q.about, work, q.frontier)}}

CurrentFrontier ==
  IF Trusted = {} THEN Frontier[work] ELSE UNION {CandidatesOf(f) : f \in Trusted}

(* A conflict history is comparable only within one engine.                *)
CurrentHistory ==
  IF \E f \in Trusted : f.engine = WorkerEngine
  THEN (CHOOSE f \in Trusted : TRUE).hist ELSE Untried

(* _select_budget_batch: the least configured budget above what some       *)
(* candidate was tried with, else one generated budget for all of them;    *)
(* 0 when neither has a candidate.                                         *)
Eligible(cs, h, b) == {k \in cs : b > h[k]}

GeneratedBudget(cs, h) ==
  LET base  == Larger(Greatest(Budgets), Least({h[k] : k \in cs}))
      grown == Generated(base)
  IN  IF MaxGeneratedBudget = 0 THEN grown ELSE Smaller(grown, MaxGeneratedBudget)

SelectedBudget(cs, h) ==
  LET useful == {b \in Budgets : Eligible(cs, h, b) # {}}
  IN  IF useful # {} THEN Least(useful)
      ELSE IF cs # {} /\ ContinueUntilDeadline
              /\ Eligible(cs, h, GeneratedBudget(cs, h)) # {}
           THEN GeneratedBudget(cs, h)
      ELSE 0

(* Any part of the eligible candidates of the right size: the order of the *)
(* frontier is a matter of configuration.                                  *)
Batches(cs, h, b) ==
  {B \in SUBSET Eligible(cs, h, b) :
     Cardinality(B) = Smaller(BatchSize, Cardinality(Eligible(cs, h, b)))}

NewFrontier(cs, h) ==
  [pending |-> cs, escalated |-> {},
   hist |-> [k \in Candidate |-> IF k \in cs THEN h[k] ELSE 0],
   engine |-> WorkerEngine]

Begin ==
  /\ pc = "generation" /\ generation <= MaxGenerations
  /\ cands' = CurrentFrontier /\ hist' = CurrentHistory
  /\ budget' = SelectedBudget(cands', hist')
  /\ committed' = FALSE
  /\ IF budget' > 0
     THEN /\ batch' \in Batches(cands', hist', budget')
          /\ phase' = {} /\ pc' = "wave"
          /\ UNCHANGED <<open, status>>
     ELSE /\ batch' = {}
          /\ status' = IF cands' = {} THEN "COMPLETE" ELSE "UNRESOLVED_BUDGETS_EXHAUSTED"
          /\ phase' = IF cands' = {} THEN {}
                      ELSE {[about |-> work, frontier |-> NewFrontier(cands', hist')]}
          /\ open' = Cardinality(cands')
          /\ pc' = "final"
  /\ sat' = {} /\ late' = {} /\ todo' = {} /\ accepted' = {}
  /\ UNCHANGED <<files, work, generation>>

-----------------------------------------------------------------------------
(* The wave of workers, the recheck and the commit of one generation.      *)

(* run_parallel returns when every shard is back.  A finished query is     *)
(* exact, and a hard query may time out.                                   *)
Wave ==
  /\ pc = "wave"
  /\ \E unsat \in SUBSET (batch \cap Redundant(work)) :
     \E rejected \in SUBSET (batch \ Redundant(work)) :
       /\ todo' = unsat /\ sat' = rejected /\ late' = batch \ (unsat \cup rejected)
       /\ late' \subseteq Hard
  /\ pc' = "recheck"
  /\ UNCHANGED <<files, batch, budget, accepted, run>>

(* One proposal, on the gates that carry those accepted before.  The order *)
(* of the batch is left open, so that of the proposals is.                 *)
Recheck(k) ==
  /\ pc = "recheck" /\ k \in todo
  /\ todo' = todo \ {k}
  /\ IF \E a \in accepted : a[1] = k[1]                     \* STALE_SAME_GATE
     THEN UNCHANGED <<accepted, sat, late>>
     ELSE \/ "recheck_timeout" \in Faults /\ k \in Hard
             /\ late' = late \cup {k} /\ UNCHANGED <<accepted, sat>>
          \/ IF accepted \cup {k} \in Safe[work]
             THEN accepted' = accepted \cup {k} /\ UNCHANGED <<sat, late>>
             ELSE sat' = sat \cup {k} /\ UNCHANGED <<accepted, late>>
  /\ UNCHANGED <<files, batch, budget, run, pc>>

Rewrite == Restructured[work][accepted]

\* Mutant of RaisedHistory: a timeout leaves the history as it was.
HistoryOfSatOnly == hist

RaisedHistory == [k \in Candidate |-> IF k \in late THEN Larger(hist[k], budget) ELSE hist[k]]

\* Mutant of Remaining: what timed out leaves the frontier too.
RemainingUntried == cands \ (sat \cup late)

Remaining == cands \ sat

(* A commit makes every index stale and leaves no frontier; the telemetry  *)
(* counts two candidates per gate.                                         *)
Committed ==
  /\ accepted # {} /\ Meaning[Rewrite] = Meaning[source]
  /\ work' = Rewrite
  /\ phase' = {} /\ open' = 2 * Gates[Rewrite]
  /\ committed' = TRUE
  /\ UNCHANGED status

(* Nothing accepted, or the equivalence check did not pass: rejected       *)
(* candidates leave the frontier and timeouts are remembered, those of a   *)
(* refused commit as well, after which the run stops.                      *)
NotCommitted ==
  /\ \/ accepted = {} /\ UNCHANGED status
     \/ /\ accepted # {}
        /\ Meaning[Rewrite] # Meaning[source] \/ "cec_timeout" \in Faults
        /\ status' = "CEC_FAILED_ROLLBACK"
  /\ phase' = {[about |-> work, frontier |-> NewFrontier(Remaining, RaisedHistory)]}
  /\ open' = Cardinality(Remaining)
  /\ UNCHANGED <<work, committed>>

Transaction ==
  /\ pc = "recheck" /\ todo = {}
  /\ Committed \/ NotCommitted
  /\ pc' = "save"
  /\ UNCHANGED <<files, wave, cands, hist, generation>>

Saving == Stamped(work, open, {p.frontier : p \in phase})

Save ==
  /\ pc = "save"
  /\ active' = SavedTo(active, extern, Saving)
  /\ generation' = generation + 1
  /\ pc' = IF status = "RUNNING" THEN "generation" ELSE "final"
  /\ UNCHANGED <<source, extern, wave, work, phase, open, cands, hist, committed, status>>

-----------------------------------------------------------------------------
(* The end of a run.                                                       *)

(* The output is checked once more; a run whose check does not pass raises *)
(* before its last save.                                                   *)
FinalCheck ==
  /\ pc = "final"
  /\ \/ Meaning[work] = Meaning[source] /\ pc' = "final_save"
     \/ /\ Meaning[work] # Meaning[source] \/ "cec_timeout" \in Faults
        /\ pc' = "raised"
  /\ open' = IF phase # {} THEN FrontierSize({p.frontier : p \in phase})
             ELSE IF status = "COMPLETE" THEN 0
             ELSE Larger(open, 2 * Gates[work])
  /\ UNCHANGED <<files, wave, work, phase, cands, hist, generation, committed, status>>

FinalSave ==
  /\ pc = "final_save"
  /\ active' = SavedTo(active, extern, Saving)
  /\ pc' = "done"
  /\ UNCHANGED <<source, extern, wave, run>>

-----------------------------------------------------------------------------
(* Failures.                                                               *)

(* An exception in a worker reaches the coordinator and ends the run.      *)
WorkerError ==
  /\ "worker_error" \in Faults
  /\ pc = "wave" /\ pc' = "raised"
  /\ UNCHANGED <<files, wave, run>>

Crash ==
  /\ "crash" \in Faults
  /\ pc \notin Ended /\ pc' = "crashed"
  /\ UNCHANGED <<files, wave, run>>

CrashInSave ==
  /\ "torn_save" \in Faults
  /\ pc \in {"save", "final_save"} /\ pc' = "crashed"
  /\ active' = TornTo(active, extern, Saving)
  /\ UNCHANGED <<source, extern, wave, run>>

Generation ==
  \/ OutOfGenerations \/ Begin \/ Wave
  \/ (\E k \in todo : Recheck(k)) \/ Transaction \/ Save
  \/ FinalCheck \/ FinalSave

Next == Launch \/ OutOfTime \/ Generation \/ WorkerError \/ Crash \/ CrashInSave

Spec == Init /\ [][Next]_vars

-----------------------------------------------------------------------------
(* The variables have their types: a run tries candidates of its frontier  *)
(* only, and the checkpoint directory holds one checkpoint of the circuit, *)
(* whatever a crash leaves of a save (run_coordinator, _save_checkpoint).  *)
TypeOK ==
  /\ active \subseteq Checkpoints /\ Cardinality(active) <= 1
  /\ extern \subseteq SeedsOf(source)
  /\ source \in Sources /\ work \in Works
  /\ phase \subseteq [about : Works, frontier : Frontiers] /\ Cardinality(phase) <= 1
  /\ open \in Nat
  /\ cands \subseteq Candidate /\ hist \in [Candidate -> Nat]
  /\ batch \subseteq cands /\ budget \in Nat
  /\ todo \cup accepted \cup sat \cup late \subseteq batch
  /\ generation \in 0 .. MaxGenerations + 1
  /\ committed \in BOOLEAN
  /\ status \in {"RUNNING", "TIME_BUDGET_CHECKPOINT", "MAX_GENERATIONS_REACHED", "COMPLETE",
                "UNRESOLVED_BUDGETS_EXHAUSTED", "CEC_FAILED_ROLLBACK"}
  /\ pc \in Ended \cup {"generation", "wave", "recheck", "save", "final", "final_save"}

(* The AAG a run would start with if it started now.                       *)
RestartPoint ==
  IF Loaded(active, extern) = {} THEN source
  ELSE (CHOOSE ck \in Loaded(active, extern) : TRUE).work

(* Every frontier a later generation or run would trust still has a        *)
(* redundancy of its AAG while there is one.  It need not have all: what   *)
(* the recheck rejects on top of others leaves the frontier although the   *)
(* commit may then be refused (run_coordinator, "if not accepted").        *)
RedundancyRemains(frontiers, w) ==
  \A f \in frontiers :
    CandidatesOf(f) \subseteq Frontier[w] /\ Redundant(w) # {} =>
      CandidatesOf(f) \cap Redundant(w) # {}

(* The frontier in hand and every saved one keep a redundancy.             *)
FrontierKeepsARedundancy ==
  /\ pc \notin Ended => RedundancyRemains(Trusted, work)
  /\ \A ck \in active : ck.about = ck.work => RedundancyRemains(ck.resume, ck.work)

(* A generation that goes on has committed, rejected a candidate or raised *)
(* a candidate's history: no wave is in vain, so the next batch differs.   *)
GenerationAdvances ==
  pc = "save" /\ status = "RUNNING" /\ ~committed =>
    \E p \in phase :
      \/ p.frontier.pending # cands
      \/ \E k \in cands : p.frontier.hist[k] > hist[k]

(* What a generation has committed is in a checkpoint when the next one    *)
(* begins: a restart never starts from an AAG with more gates.             *)
CommitIsCheckpointed ==
  pc \in {"generation", "final", "final_save", "done"} => Gates[RestartPoint] <= Gates[work]

-----------------------------------------------------------------------------
MeaningOf(w) == Meaning[w]
GatesOf(w) == Gates[w]
Irredundant(w) == Redundant(w) = {}

Removal == INSTANCE RedundancyRemoval WITH
  circuit <- work, kept <- RestartPoint, complete <- status = "COMPLETE"

(* The runs are a removal of redundancies from the source that keeps what  *)
(* their checkpoints keep: a commit may wait for its checkpoint, but no    *)
(* save and no restart goes back behind one; and COMPLETE is reported only *)
(* of an irredundant circuit, over all timeouts, refused commits, restarts *)
(* and histories of other engines (run_coordinator).                       *)
ImplementsRemoval == Removal!Spec
=============================================================================
