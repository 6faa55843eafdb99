---------------------------- MODULE TieredEngine ----------------------------
(***************************************************************************)
(* The sequential engine, Algorithm 10 (solve_circuit).  A run works in    *)
(* phases.  A phase takes the candidates of the work AAG through tiers of  *)
(* proofs, cheap and partial ones first; what a tier neither accepts nor   *)
(* rejects goes on to the next.  The first tier that accepts something     *)
(* ends the phase: the AAG is rewritten and saved, and all candidates are  *)
(* made anew.  A run out of time saves the frontier of the tier it is in,  *)
(* and the next run, from the best checkpoint, may go on there.            *)
(***************************************************************************)
EXTENDS BudgetLadder, CheckpointStore

CONSTANTS
  Source,        \* the circuit after the optional initial strash
  Constant,      \* candidates of a work AAG that are constant functions
  Rank,          \* the configured order of the candidates
  Tiers,         \* the tiers that are switched on
  ExactResume,   \* ALG10_EXACT_FRONTIER_RESUME
  RebuildAfter,  \* accepted replacements that end a phase
  MaxPhases,
  MaxStreak,     \* timeouts in a row that end the global tier; 0 for none
  Hard,          \* bound: candidates whose queries may time out
  Simulated,     \* bound: candidates simulation may reject
  Faults         \* what may happen to a run of this instance

AllTiers == LowerTiers \cup {"global"}

AllFaults == {"deadline", "interrupt", "crash", "torn_save"}

ASSUME EngineAssumption ==
  /\ Source \in Works
  /\ Rank \in [Candidate -> Nat]
  /\ \A j, k \in Candidate : Rank[j] = Rank[k] => j = k
  /\ Tiers \subseteq AllTiers /\ ExactResume \in BOOLEAN
  /\ RebuildAfter \in Nat \ {0} /\ MaxPhases \in Nat \ {0} /\ MaxStreak \in Nat
  /\ Hard \subseteq Candidate /\ Simulated \subseteq Candidate
  /\ Faults \subseteq AllFaults
  /\ Budgets # {}

(* Gates that are constant functions may be replaced together.             *)
ASSUME ConstantAssumption ==
  /\ Constant \in [Works -> SUBSET Candidate]
  /\ \A w \in Works : \A S \in SUBSET Constant[w] :
       (\A j, k \in S : j[1] = k[1] => j = k) => S \in Safe[w]

VARIABLES
  active,       \* the checkpoint directory
  work,         \* work.aag in the temporary directory
  resume,       \* a loaded frontier that the first phase may use
  left,         \* the frontier the last phase leaves behind
  open,         \* telemetry["unresolved"]
  status, pc,
  phases,       \* phases begun
  exact,        \* whether the phase goes on in a lower tier
  given,        \* candidates the tier, or the budget round, began with
  todo,         \* those it still has to look at
  later,        \* those it passes on to the next tier or round
  pruned,       \* candidates known not to be redundant
  hist, budget, streak,
  accepted,
  abort         \* abort_reason of the phase

phaseLists == <<exact, given, todo, later, pruned, hist, budget, streak, accepted>>
phase == <<phaseLists, abort>>
vars  == <<active, work, resume, left, open, status, pc, phases, phase>>

Untried == [k \in Candidate |-> 0]

Init ==
  /\ active = {} /\ work = Source /\ resume = {} /\ left = {} /\ open = 0
  /\ status = "RUNNING" /\ pc = "off" /\ phases = 0
  /\ exact = FALSE /\ given = {} /\ todo = {} /\ later = {} /\ pruned = {}
  /\ hist = Untried /\ budget = 0 /\ streak = 0 /\ accepted = {} /\ abort = "none"

Ended == {"off", "done", "crashed"}

NoPhase ==
  /\ exact' = FALSE /\ given' = {} /\ todo' = {} /\ later' = {} /\ pruned' = {}
  /\ hist' = Untried /\ budget' = 0 /\ streak' = 0 /\ accepted' = {} /\ abort' = "none"

(* A checkpoint that says COMPLETE with nothing unresolved is believed.    *)
SaysComplete(ck) == ck.status = "COMPLETE" /\ ck.open = 0

Launch ==
  /\ pc \in Ended
  /\ \/ /\ active = {}
        /\ work' = Source /\ resume' = {} /\ pc' = "phase"
     \/ \E ck \in active :
          /\ work' = ck.work
          /\ resume' = {f \in ck.resume : Resumable(ck.about, ck.work, f)}
          /\ pc' = IF SaysComplete(ck) THEN "complete" ELSE "phase"
  /\ open' = 0 /\ left' = {} /\ status' = "RUNNING" /\ phases' = 1
  /\ NoPhase
  /\ UNCHANGED active

AlreadyComplete ==
  /\ pc = "complete"
  /\ status' = "COMPLETE" /\ pc' = "final"
  /\ UNCHANGED <<active, work, resume, left, open, phases, phase>>

-----------------------------------------------------------------------------
(* The beginning of a phase.                                               *)

(* Patterns of earlier counterexamples and random ones reject candidates   *)
(* with a concrete mismatch, some of them and never a redundant one.       *)
Mismatching(S) == SUBSET ((S \cap Simulated) \ Redundant(work))

TierFrontier == {f \in resume : f.engine \in LowerTiers}
GlobalFrontier == {f \in resume : f.engine = "global"}

(* Without ExactResume a tier frontier is dropped and all candidates begin *)
(* again in the first tier; a global frontier waits for the global tier.   *)
BeginPhase ==
  /\ pc = "phase" /\ ~(ExactResume /\ resume # {})
  /\ \E rejected \in Mismatching(Frontier[work]) :
       /\ pruned' = rejected
       /\ given' = Frontier[work] \ rejected
  /\ todo' = given' /\ later' = {} /\ exact' = FALSE /\ pc' = "tfi"
  /\ UNCHANGED <<active, work, resume, left, open, status, phases>>
  /\ UNCHANGED <<hist, budget, streak, accepted, abort>>

ResumeTier ==
  /\ pc = "phase" /\ ExactResume
  /\ \E f \in TierFrontier :
       /\ given' = f.pending /\ todo' = f.pending /\ later' = f.escalated
       /\ pc' = f.engine
  /\ exact' = TRUE
  /\ UNCHANGED <<active, work, resume, left, open, status, phases>>
  /\ UNCHANGED <<pruned, hist, budget, streak, accepted, abort>>

(* The global tier begins with the least budget; GLOBAL_DISABLED leaves    *)
(* everything unresolved and no frontier.                                  *)
EnterGlobal(cands, history, unresolved) ==
  IF "global" \in Tiers
  THEN /\ given' = cands /\ todo' = cands /\ later' = {}
       /\ hist' = history /\ budget' = Least(Budgets) /\ streak' = 0
       /\ pc' = "global"
       /\ UNCHANGED <<open, abort>>
  ELSE /\ open' = unresolved /\ abort' = "GLOBAL_DISABLED" /\ pc' = "end"
       /\ UNCHANGED <<given, todo, later, hist, budget, streak>>

ResumeGlobal ==
  /\ pc = "phase" /\ ExactResume
  /\ \E f \in GlobalFrontier : \E rejected \in Mismatching(f.pending) :
       /\ pruned' = rejected
       /\ EnterGlobal(f.pending \ rejected, f.hist, Cardinality(f.pending \ rejected))
  /\ UNCHANGED <<active, work, resume, left, status, phases, exact, accepted>>

(* The deadline may pass while patterns are simulated, before any tier.    *)
LateForTiers ==
  /\ "deadline" \in Faults
  /\ pc = "phase" /\ ~(ExactResume /\ TierFrontier # {})
  /\ LET cands == IF ExactResume /\ resume # {} THEN UNION {f.pending : f \in resume}
                  ELSE Frontier[work]
     IN  \E rejected \in Mismatching(cands) : open' = Cardinality(cands \ rejected)
  /\ abort' = "TIME_BUDGET_CHECKPOINT" /\ pc' = "end"
  /\ UNCHANGED <<active, work, resume, left, status, phases>>
  /\ UNCHANGED <<exact, given, todo, later, pruned, hist, budget, streak, accepted>>

-----------------------------------------------------------------------------
(* One candidate.                                                          *)

First(S) == CHOOSE k \in S : \A j \in S : Rank[k] <= Rank[j]

Replaced == {k[1] : k \in accepted}
OnOthers(S) == {k \in S : k[1] \notin Replaced}

\* Mutant of Provable: each candidate is compared by itself.
ProvableAlone(k) == IF pc = "tfi" THEN k \in Constant[work] ELSE {k} \in Safe[work]

(* TFI asks of the unchanged AAG whether the gate is constant; the other   *)
(* tiers compare with the faulty copy on top of what is already accepted.  *)
Provable(k) ==
  IF pc = "tfi" THEN k \in Constant[work] ELSE accepted \cup {k} \in Safe[work]

(* Timeouts and circuits too large for a tier decide nothing; neither does *)
(* a satisfying assignment in a tier that only sees a part of the circuit. *)
Undecided(k) ==
  \/ k \in Hard
  \/ pc = "tfi" /\ k \notin Constant[work]
  \/ pc = "window"

(* In the global tier a candidate was tried with its budget already.       *)
TriedBefore(k) == pc = "global" /\ budget <= hist[k]

Looking == (pc \in LowerTiers \cap Tiers \/ pc = "global") /\ todo # {}

(* The second value of a gate that is replaced already.                    *)
PassOver ==
  /\ Looking /\ First(todo)[1] \in Replaced
  /\ todo' = todo \ {First(todo)}
  /\ UNCHANGED <<active, work, resume, left, open, status, pc, phases>>
  /\ UNCHANGED <<exact, given, later, pruned, hist, budget, streak, accepted, abort>>

(* REBUILD_COMMIT_LIMIT: enough accepted to rewrite the AAG.               *)
Accept(k) ==
  /\ Provable(k)
  /\ accepted' = accepted \cup {k} /\ todo' = todo \ {k} /\ streak' = 0
  /\ IF Cardinality(accepted') < RebuildAfter THEN UNCHANGED <<open, abort, pc>>
     ELSE /\ open' = Cardinality(OnOthers(todo' \cup IF pc = "global" THEN later ELSE {}))
          /\ abort' = "REBUILD_COMMIT_LIMIT" /\ pc' = "end"
  /\ UNCHANGED <<later, pruned, hist>>

\* Mutant of Rejectable: a satisfying assignment of the window rejects.
RejectableInPart(k) == pc = "window" \/ (pc \in {"cone", "global"} /\ ~Provable(k))

Rejectable(k) == pc \in {"cone", "global"} /\ ~Provable(k)

(* The counterexample may reject others too.                               *)
Reject(k) ==
  /\ Rejectable(k)
  /\ \E others \in Mismatching(IF pc = "global" THEN todo \cup later ELSE todo) :
       /\ todo' = todo \ (others \cup {k}) /\ later' = later \ others
       /\ pruned' = pruned \cup others \cup {k}
  /\ streak' = 0
  /\ UNCHANGED <<open, hist, accepted, abort, pc>>

(* The window's assignment, completed, may reject others as well.          *)
PassOn(k) ==
  /\ pc # "global" /\ Undecided(k)
  /\ \E others \in Mismatching(IF pc = "window" THEN todo \ {k} ELSE {}) :
       /\ todo' = todo \ (others \cup {k})
       /\ pruned' = pruned \cup others
  /\ later' = later \cup {k}
  /\ UNCHANGED <<open, hist, streak, accepted, abort, pc>>

Query ==
  /\ Looking
  /\ LET k == First(todo)
     IN  /\ k[1] \notin Replaced /\ ~TriedBefore(k)
         /\ Accept(k) \/ Reject(k) \/ PassOn(k)
  /\ UNCHANGED <<active, work, resume, left, status, phases, exact, given, budget>>

-----------------------------------------------------------------------------
(* From tier to tier, and from round to round of the global tier.          *)

NextTier == [tfi |-> "window", window |-> "cone", cone |-> "global"]

(* A tier that is switched off passes on what it was given, but nothing in *)
(* a phase that goes on in a lower tier.                                   *)
Passed ==
  IF pc \in Tiers THEN later \ pruned ELSE IF exact THEN {} ELSE given

(* The first tier that accepts something ends the phase.                   *)
LeaveTier ==
  /\ pc \in LowerTiers /\ (pc \in Tiers => todo = {})
  /\ CASE accepted # {} ->
            /\ open' = 0 /\ pc' = "end"
            /\ UNCHANGED <<given, todo, later, hist, budget, streak, abort>>
       [] accepted = {} /\ NextTier[pc] # "global" ->
            /\ given' = Passed \ pruned /\ todo' = given' /\ later' = {}
            /\ pc' = NextTier[pc]
            /\ UNCHANGED <<open, hist, budget, streak, abort>>
       [] accepted = {} /\ NextTier[pc] = "global" ->
            IF GlobalFrontier # {} /\ ~exact
            THEN \E f \in GlobalFrontier :
                   EnterGlobal(f.pending \ pruned, f.hist, Cardinality(Frontier[work] \ pruned))
            ELSE EnterGlobal(Passed \ pruned, Untried,
                             Cardinality((IF exact THEN Passed ELSE Frontier[work]) \ pruned))
  /\ UNCHANGED <<active, work, resume, left, status, phases, exact, pruned, accepted>>

Defer ==
  /\ Looking
  /\ LET k == First(todo)
     IN  /\ k[1] \notin Replaced /\ TriedBefore(k)
         /\ todo' = todo \ {k} /\ later' = later \cup {k}
  /\ UNCHANGED <<active, work, resume, left, open, status, pc, phases>>
  /\ UNCHANGED <<exact, given, pruned, hist, budget, streak, accepted, abort>>

GlobalState(cands, history) ==
  [pending |-> cands, escalated |-> {},
   hist |-> [k \in Candidate |-> IF k \in cands THEN history[k] ELSE 0],
   engine |-> "global"]

\* Mutant of TierState: only what the tier has not seen is saved.
TierStatePending(pending) ==
  [pending |-> pending, escalated |-> {}, hist |-> Untried, engine |-> pc]

TierState(pending) ==
  [pending |-> pending, escalated |-> later, hist |-> Untried, engine |-> pc]

(* An abort with something accepted in a lower tier leaves no frontier.    *)
Aborted(reason, remaining, state, keep) ==
  /\ abort' = reason /\ pc' = "end"
  /\ left' = IF keep THEN {state} ELSE {}
  /\ open' = IF keep THEN Larger(Cardinality(remaining), FrontierSize(left'))
             ELSE Cardinality(remaining)

\* Mutant of Tried: a timeout leaves the history as it was.
TriedInVain(k) == hist

Tried(k) == [hist EXCEPT ![k] = Larger(@, budget)]

(* A timeout of the global tier; a streak of them may end it.              *)
TimeOut ==
  /\ pc = "global" /\ todo # {}
  /\ LET k == First(todo)
     IN  /\ k[1] \notin Replaced /\ ~TriedBefore(k) /\ k \in Hard
         /\ hist' = Tried(k)
         /\ todo' = todo \ {k} /\ later' = later \cup {k}
  /\ streak' = IF MaxStreak = 0 THEN 0 ELSE streak + 1
  /\ IF MaxStreak > 0 /\ streak' >= MaxStreak
     THEN LET rest == OnOthers(todo' \cup later')
          IN  Aborted("GLOBAL_TIMEOUT_STREAK", rest, GlobalState(rest, hist'), TRUE)
     ELSE UNCHANGED <<left, open, abort, pc>>
  /\ UNCHANGED <<active, work, resume, status, phases, exact, given, pruned, budget, accepted>>

(* What a round leaves goes into the next one; what the last one leaves is *)
(* unresolved.                                                             *)
LeaveRound ==
  /\ pc = "global" /\ todo = {}
  /\ LET rest == OnOthers(later)
     IN  CASE rest = {} ->
                /\ open' = 0 /\ pc' = "end"
                /\ UNCHANGED <<left, given, todo, later, budget, abort>>
           [] rest # {} /\ Ahead(budget) # {} ->
                /\ given' = rest /\ todo' = rest /\ later' = {}
                /\ budget' = Least(Ahead(budget))
                /\ UNCHANGED <<left, open, abort, pc>>
           [] rest # {} /\ Ahead(budget) = {} ->
                /\ Aborted("UNRESOLVED_TIMEOUTS", rest, GlobalState(rest, hist), TRUE)
                /\ UNCHANGED <<given, todo, later, budget>>
  /\ UNCHANGED <<active, work, resume, status, phases, exact, pruned, hist, streak, accepted>>

(* The deadline is looked at before each candidate.                        *)
Deadline ==
  /\ "deadline" \in Faults
  /\ Looking
  /\ LET rest == OnOthers(todo \cup IF pc = "global" THEN later ELSE {})
     IN  Aborted("TIME_BUDGET_CHECKPOINT", rest,
                 IF pc = "global" THEN GlobalState(rest, hist) ELSE TierState(rest),
                 pc = "global" \/ accepted = {})
  /\ UNCHANGED <<active, work, resume, status, phases, phaseLists>>

(* A user's interrupt falls back to what the tier, or the round, was given.*)
Interrupt ==
  /\ "interrupt" \in Faults
  /\ Looking
  /\ LET rest == IF pc = "global" THEN given ELSE OnOthers(given \ pruned)
     IN  Aborted("USER_INTERRUPT_CHECKPOINT", rest,
                 IF pc = "global" THEN GlobalState(rest, hist) ELSE TierState(rest),
                 pc = "global" \/ accepted = {})
  /\ UNCHANGED <<active, work, resume, status, phases, phaseLists>>

-----------------------------------------------------------------------------
(* The end of a phase and of the run.                                      *)

Checkpoint(w, unresolved, frontier, state) ==
  [work |-> w, about |-> w, open |-> unresolved, resume |-> frontier, status |-> state]

Stops == {"TIME_BUDGET_CHECKPOINT", "USER_INTERRUPT_CHECKPOINT", "UNRESOLVED_TIMEOUTS"}

Rewrite == Restructured[work][accepted]

Commit ==
  /\ accepted # {}
  /\ work' = Rewrite /\ left' = {}
  /\ active' = SavedTo(active, {}, Checkpoint(Rewrite, open, {}, "CHECKPOINTED_AFTER_COMMITS"))

NoCommit == accepted = {} /\ UNCHANGED <<work, left, active>>

EndPhase ==
  /\ pc = "end"
  /\ Commit \/ NoCommit
  /\ CASE abort \in Stops ->
            status' = abort /\ pc' = "final" /\ UNCHANGED phases
       [] abort \notin Stops /\ accepted = {} ->
            status' = "COMPLETE" /\ pc' = "final" /\ UNCHANGED phases
       [] abort \notin Stops /\ accepted # {} /\ phases = MaxPhases ->
            status' = "MAX_PHASES_REACHED" /\ pc' = "final" /\ UNCHANGED phases
       [] abort \notin Stops /\ accepted # {} /\ phases < MaxPhases ->
            status' = "CHECKPOINTED_AFTER_COMMITS" /\ pc' = "phase" /\ phases' = phases + 1
  /\ resume' = {} /\ NoPhase
  /\ UNCHANGED open

FinalSave ==
  /\ pc = "final"
  /\ active' = SavedTo(active, {}, Checkpoint(work, open, left, status))
  /\ pc' = "done"
  /\ UNCHANGED <<work, resume, left, open, status, phases, phase>>

Crash ==
  /\ "crash" \in Faults
  /\ pc \notin Ended /\ pc' = "crashed"
  /\ resume' = {} /\ left' = {} /\ NoPhase
  /\ UNCHANGED <<active, work, open, status, phases>>

CrashInSave ==
  /\ "torn_save" \in Faults
  /\ \/ /\ pc = "end" /\ accepted # {}
        /\ work' = Rewrite
        /\ active' = TornTo(active, {},
                            Checkpoint(Rewrite, open, {}, "CHECKPOINTED_AFTER_COMMITS"))
     \/ /\ pc = "final"
        /\ active' = TornTo(active, {}, Checkpoint(work, open, left, status))
        /\ UNCHANGED work
  /\ pc' = "crashed"
  /\ resume' = {} /\ left' = {} /\ NoPhase
  /\ UNCHANGED <<open, status, phases>>

Working ==
  \/ AlreadyComplete \/ BeginPhase \/ ResumeTier \/ ResumeGlobal
  \/ PassOver \/ Query \/ Defer \/ TimeOut \/ LeaveTier \/ LeaveRound
  \/ EndPhase \/ FinalSave

Next ==
  \/ Launch \/ Working
  \/ LateForTiers \/ Deadline \/ Interrupt \/ Crash \/ CrashInSave

(* A run goes on by itself: solver calls end with their conflict budget.   *)
Spec == Init /\ [][Next]_vars /\ WF_vars(Working)

-----------------------------------------------------------------------------
EngineCheckpoints ==
  [work : Works, about : Works, open : Nat, resume : SUBSET Frontiers,
   status : Stops \cup {"CHECKPOINTED_AFTER_COMMITS", "COMPLETE", "MAX_PHASES_REACHED"}]

(* The variables have their types: a candidate is not both looked at again *)
(* and passed on, all indices are of the work AAG, and there is one        *)
(* checkpoint (solve_circuit, _save_checkpoint).                           *)
TypeOK ==
  /\ active \subseteq EngineCheckpoints /\ Cardinality(active) <= 1
  /\ work \in Works
  /\ resume \cup left \subseteq Frontiers
  /\ Cardinality(resume) <= 1 /\ Cardinality(left) <= 1
  /\ open \in Nat /\ phases \in 0 .. MaxPhases
  /\ status \in Stops \cup {"RUNNING", "CHECKPOINTED_AFTER_COMMITS", "COMPLETE",
                            "MAX_PHASES_REACHED"}
  /\ pc \in Ended \cup AllTiers \cup {"phase", "complete", "end", "final"}
  /\ exact \in BOOLEAN
  /\ given \cup todo \cup later \cup pruned \cup accepted \subseteq Frontier[work]
  /\ todo \subseteq given /\ todo \cap later = {}
  /\ hist \in [Candidate -> Nat] /\ budget \in Budgets \cup {0} /\ streak \in 0 .. MaxStreak
  /\ abort \in Stops \cup {"none", "GLOBAL_DISABLED", "GLOBAL_TIMEOUT_STREAK",
                           "REBUILD_COMMIT_LIMIT"}

(* What a phase accepts, tier by tier, keeps the function as a whole.      *)
AcceptedIsSafe == accepted \in Safe[work]

Covers(cands, w) == Redundant(w) \subseteq cands

(* Until something is accepted no redundancy is lost, whichever tiers it   *)
(* has passed and however often runs end and go on.                        *)
FrontierCoversRedundancies ==
  /\ Looking /\ accepted = {} => Covers(todo \cup later, work)
  /\ \A f \in resume : Covers(CandidatesOf(f), work)
  /\ pc \in {"final", "done"} => \A f \in left : Covers(CandidatesOf(f), work)
  /\ \A ck \in active : \A f \in ck.resume :
       ck.about = ck.work => Covers(CandidatesOf(f), ck.work)

Complete == status = "COMPLETE" /\ open = 0

(* COMPLETE with nothing unresolved is said only of an irredundant circuit,*)
(* which ImplementsRemoval contains.  Launch believes it of a checkpoint   *)
(* and does not look again.                                                *)
CompleteIsIrredundant == Complete => Redundant(work) = {}

(* The AAG a run would start with if it started now.                       *)
RestartPoint ==
  IF active = {} THEN Source ELSE (CHOOSE ck \in active : TRUE).work

(* What a phase has committed is in the checkpoint when the next begins.   *)
CommitIsCheckpointed ==
  pc \in {"phase", "final", "done"} => Gates[RestartPoint] <= Gates[work]

Exhausted == \A f \in left : \A k \in f.pending : f.hist[k] >= Greatest(Budgets)

Settled ==
  pc = "done" /\ (Complete \/ (status = "UNRESOLVED_TIMEOUTS" /\ Exhausted))

Stopped ==
  \/ pc = "crashed"
  \/ pc = "done" /\ status \in {"TIME_BUDGET_CHECKPOINT", "USER_INTERRUPT_CHECKPOINT"}

(* A run ends, and unless it was stopped from outside it leaves an         *)
(* irredundant circuit or has tried every budget on every candidate that is*)
(* left (_run_budgeted_global_sat skips what the history says was tried).  *)
RunSettles == (pc = "phase") ~> (Settled \/ Stopped)

(* COMPLETE means that nothing is unresolved.                              *)
CompleteLeavesNothing == pc = "done" /\ status = "COMPLETE" => open = 0

(* A frontier that a run leaves behind is the one the next run loads.      *)
FrontierIsSaved ==
  pc = "done" /\ left # {} => \E ck \in active : ck.work = work /\ ck.resume = left

(* A saved frontier of the saved AAG can be resumed.                       *)
FrontierIsResumable ==
  \A ck \in active : \A f \in ck.resume :
    ck.about = ck.work => Resumable(ck.about, ck.work, f)

-----------------------------------------------------------------------------
MeaningOf(w) == Meaning[w]
GatesOf(w) == Gates[w]
Irredundant(w) == Redundant(w) = {}

Removal == INSTANCE RedundancyRemoval WITH
  circuit <- work, kept <- RestartPoint, complete <- Complete

(* The runs are a removal of redundancies from the source that keeps what  *)
(* their checkpoint keeps, with no equivalence check at all: it rests on   *)
(* what the tiers accept and reject (solve_circuit).                       *)
ImplementsRemoval == Removal!Spec
=============================================================================
