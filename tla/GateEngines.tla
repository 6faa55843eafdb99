----------------------------- MODULE GateEngines -----------------------------
(***************************************************************************)
(* The three ways in which the repository turns stuck-at proofs into a     *)
(* smaller circuit, on concrete gates: the proposal barriers of            *)
(* SerialCommit; the batch of Algorithm 8, which proves candidates one by  *)
(* one, replaces an independent set of them at once and falls back to one  *)
(* after the other when the result does not verify; and the sweep of       *)
(* Algorithm 9, which keeps accepted faults switched on in one incremental *)
(* solver and rewrites without any equivalence check.                      *)
(***************************************************************************)
EXTENDS SerialCommit

CONSTANTS
  MaxPasses,      \* ALG9_MAX_PASSES
  RebuildAfter,   \* ALG9_REBUILD_AFTER_COMMITS
  RebuildRounds   \* ALG9_REBUILD_ROUNDS

ASSUME SweepAssumption ==
  MaxPasses \in Nat \ {0} /\ RebuildAfter \in Nat \ {0} /\ RebuildRounds \in Nat \ {0}

VARIABLES
  engine,    \* "barrier", "batch" or "sweep"
  pass,      \* passes of the sweep over its candidates
  changed,   \* whether this pass has accepted something
  round      \* phases of the sweep

sweep == <<pass, changed, round>>
engineVars == <<vars, engine, sweep>>

(* Only the sweep may strash what it begins with.                          *)
EngineInit ==
  /\ \/ engine \in {"barrier", "batch"} /\ Init
     \/ engine = "sweep" /\ (Init \/ InitWith(Strash(source)))
  /\ pass = 0 /\ changed = FALSE /\ round = 1

(* All candidates of S, gate by gate, value 0 before value 1 but for ones. *)
InOrder(S, ones) ==
  ByKey(S, [k \in S |-> 2 * k[1] + (IF k[1] \in ones THEN 1 - k[2] ELSE k[2])])

(* The miter of the good circuit and its copy with configurable faults, on *)
(* the original gates: unsatisfiable under these faults.                   *)
ProvedWith(constants) == Equivalent(work, Rewritten(work, constants))

ProvedAlone == {k \in Candidates(work) : ProvedWith(StuckAt(k[1], k[2]))}

Stuck(S) == [i \in {k[1] : k \in S} |-> (CHOOSE k \in S : k[1] = i)[2]]

-----------------------------------------------------------------------------
(* Algorithm 8.  The input file is never written; candidate is the output. *)

(* The second value of a gate is only asked when the first is not proved.  *)
FirstValues(S) == {k \in S : k[2] = 0 \/ <<k[1], 0>> \notin S}

InFanout(i, j) == i # j /\ j \in Reach(Fanout(work.gates), {i})

(* compute_tfo_conflict_graph: greedy, in gate order, nothing in the       *)
(* fanout of anything else.                                                *)
ConflictFree(S) ==
  LET queue == InOrder(S, {})
      chosen[n \in 0 .. Len(queue)] ==
        IF n = 0 THEN {}
        ELSE LET before == chosen[n - 1]
                 k      == queue[n]
             IN  IF \E o \in before : InFanout(o[1], k[1]) \/ InFanout(k[1], o[1])
                 THEN before ELSE before \cup {k}
  IN  chosen[Len(queue)]

(* The whole batch is replaced and written to the output, before it is     *)
(* verified.                                                               *)
BatchSweep ==
  /\ engine = "batch" /\ pc = "classify"
  /\ \E answered \in (IF slow THEN SUBSET ProvedAlone ELSE {ProvedAlone}) :
       found' = FirstValues(answered)
  /\ proposals' = InOrder(ConflictFree(found'), {})
  /\ accepted' = Stuck(ToSet(proposals'))
  /\ working' = ApplyAccepts(work.gates, accepted')
  /\ candidate' = Strash(Rewritten(work, accepted'))
  /\ pc' = IF proposals' = <<>> THEN "written" ELSE "verify"
  /\ UNCHANGED <<slow, source, work, engine, sweep>>

\* Mutant of TakenBack: the trials begin with the whole batch still replaced.
TakenBackInPart == UNCHANGED working /\ accepted' = <<>>

TakenBack == working' = work.gates /\ accepted' = <<>>

(* Not verified, be it refuted or timed out: everything is taken back.     *)
BatchVerify ==
  /\ pc = "verify"
  /\ \E verdict \in CecVerdict :
       IF verdict = "PASS"
       THEN pc' = "written" /\ UNCHANGED <<working, accepted>>
       ELSE pc' = "fallback" /\ TakenBack
  /\ UNCHANGED <<slow, source, work, found, proposals, candidate, engine, sweep>>

(* A trial is verified against the input circuit.                          *)
TrialVerdict(trial) ==
  {IF Equivalent(source, Strash(trial)) THEN "PASS" ELSE "FAIL"}
    \cup (IF slow THEN {"TIMEOUT"} ELSE {})

BatchTrial ==
  /\ pc = "fallback" /\ proposals # <<>>
  /\ LET idx   == Head(proposals)[1]
         value == Head(proposals)[2]
         trial == ApplyAccepts(working, StuckAt(idx, value))
     IN  \E verdict \in TrialVerdict([work EXCEPT !.gates = trial]) :
           IF verdict = "PASS"
           THEN working' = trial /\ accepted' = With(accepted, idx, value)
           ELSE UNCHANGED <<working, accepted>>
  /\ proposals' = Tail(proposals)
  /\ UNCHANGED <<slow, source, work, found, candidate, pc, engine, sweep>>

BatchWrite ==
  /\ pc = "fallback" /\ proposals = <<>>
  /\ candidate' = Strash(Working) /\ pc' = "written"
  /\ UNCHANGED <<slow, source, work, found, proposals, working, accepted, engine, sweep>>

Batch == BatchSweep \/ BatchVerify \/ BatchTrial \/ BatchWrite

-----------------------------------------------------------------------------
(* Algorithm 9.                                                            *)

(* In the exhaustive mode a gate that is always 1 in simulation is asked   *)
(* for that value first.                                                   *)
Queue(S) ==
  InOrder(S, IF S # Candidates(work) THEN {}
             ELSE LET truths == Truths(work)
                  IN  {i \in DOMAIN work.gates :
                         truths[Lhs(work.gates[i])] = Assignments(work)})

(* Simulation rejects candidates with a concrete mismatch, at best all     *)
(* others than the redundant ones; in the exhaustive mode none.            *)
SweepBegin ==
  /\ engine = "sweep" /\ pc = "classify"
  /\ \E missed \in SUBSET (Candidates(work) \ ProvedAlone) : found' = ProvedAlone \cup missed
  /\ proposals' = Queue(found')
  /\ working' = work.gates /\ accepted' = <<>>
  /\ pass' = 1 /\ changed' = FALSE
  /\ pc' = IF found' = {} THEN "rebuild" ELSE "sweep"
  /\ UNCHANGED <<slow, source, work, candidate, engine, round>>

\* Mutant of SweepFaults: accepted faults are not kept in the control state.
FaultAlone(idx, value) == StuckAt(idx, value)

(* The assumptions of a query: every accepted fault and the one in         *)
(* question, all others off.                                               *)
SweepFaults(idx, value) == With(accepted, idx, value)

\* Mutant of Unasked: a gate whose first value was refuted is not asked again.
UnaskedGates(queue) == SelectSeq(Tail(queue), LAMBDA k : k[1] # Head(queue)[1])

Unasked(queue) == Tail(queue)

SweepQuery ==
  /\ pc = "sweep" /\ proposals # <<>>
  /\ proposals' = Unasked(proposals)
  /\ LET idx   == Head(proposals)[1]
         value == Head(proposals)[2]
     IN  \/ /\ idx \notin DOMAIN accepted
            /\ ProvedWith(SweepFaults(idx, value))
            /\ accepted' = With(accepted, idx, value)
            /\ working' = ApplyAccepts(working, StuckAt(idx, value))
            /\ changed' = TRUE
            /\ pc' = IF Cardinality(DOMAIN accepted') >= RebuildAfter THEN "rebuild" ELSE "sweep"
         \/ /\ idx \in DOMAIN accepted \/ slow \/ ~ProvedWith(SweepFaults(idx, value))
            /\ UNCHANGED <<accepted, working, changed, pc>>
  /\ UNCHANGED <<slow, source, work, found, candidate, engine, pass, round>>

(* Too many timeouts, or the time for solving is over.                     *)
SweepAborts ==
  /\ slow /\ pc = "sweep"
  /\ pc' = "aborted"
  /\ UNCHANGED <<slow, source, work, found, proposals, working, accepted, candidate>>
  /\ UNCHANGED <<engine, sweep>>

(* A phase that raises leaves nothing of what it had accepted.             *)
SweepRaises ==
  /\ slow /\ pc = "sweep"
  /\ working' = work.gates /\ accepted' = <<>>
  /\ pc' = "aborted"
  /\ UNCHANGED <<slow, source, work, found, proposals, candidate, engine, sweep>>

SweepPassEnds ==
  /\ pc = "sweep" /\ proposals = <<>>
  /\ IF changed /\ pass < MaxPasses
     THEN /\ proposals' = Queue(found) /\ pass' = pass + 1 /\ changed' = FALSE
          /\ UNCHANGED pc
     ELSE pc' = "rebuild" /\ UNCHANGED <<proposals, pass, changed>>
  /\ UNCHANGED <<slow, source, work, found, working, accepted, candidate, engine, round>>

(* Whatever was accepted is rewritten, and the next phase begins unless    *)
(* the last one gave up or the rounds are used.                            *)
SweepRebuild ==
  /\ pc \in {"rebuild", "aborted"}
  /\ IF accepted = <<>>
     THEN /\ candidate' = work /\ pc' = "written"
          /\ UNCHANGED <<work, working, accepted, round>>
     ELSE /\ work' = Strash(Rewritten(work, accepted))
          /\ working' = work'.gates /\ candidate' = work' /\ accepted' = <<>>
          /\ round' = round + 1
          /\ pc' = IF pc = "aborted" \/ round = RebuildRounds THEN "written" ELSE "classify"
  /\ found' = {} /\ proposals' = <<>>
  /\ UNCHANGED <<slow, source, engine, pass, changed>>

Sweep == SweepBegin \/ SweepQuery \/ SweepAborts \/ SweepRaises
  \/ SweepPassEnds \/ SweepRebuild

-----------------------------------------------------------------------------
Barrier == engine = "barrier" /\ Next /\ UNCHANGED <<engine, sweep>>

EngineNext == Barrier \/ Batch \/ Sweep

EngineSpec == EngineInit /\ [][EngineNext]_engineVars

(* The variables of SerialCommit keep their types; the other engines look  *)
(* only at candidates they found (solve_circuit of Algorithms 8 and 9).    *)
EngineTypeOK ==
  /\ engine \in {"barrier", "batch", "sweep"}
  /\ pass \in 0 .. MaxPasses /\ changed \in BOOLEAN /\ round \in 1 .. RebuildRounds + 1
  /\ engine = "barrier" => TypeOK
  /\ engine # "barrier" =>
       /\ slow \in BOOLEAN
       /\ pc \in {"classify", "verify", "fallback", "sweep", "aborted", "rebuild", "written"}
       /\ ToSet(proposals) \subseteq found /\ found \subseteq Candidates(work)
       /\ Len(working) = Len(work.gates)
       /\ DOMAIN accepted \subseteq {k[1] : k \in found}

(* What any engine leaves behind computes the source: the barrier's rewrite*)
(* already before the equivalence check looks at it; the output of         *)
(* Algorithm 8 because it verifies; that of Algorithm 9 because every query*)
(* carries all accepted faults, over all passes and rewrites, with no check*)
(* at all.                                                                 *)
OutputKeepsFunction ==
  /\ CecNeverRefutes
  /\ pc = "written" => Equivalent(source, candidate)

(* No proof is wasted: a barrier accepts a proposal, and Algorithm 8, when *)
(* its batch does not verify, still replaces at least the first candidate. *)
NoProofIsWasted ==
  /\ EveryBarrierCommits
  /\ engine = "batch" /\ ~slow /\ pc = "written" /\ found # {} => accepted # <<>>

(* After a pass of Algorithm 9 that accepts nothing, no candidate it asks  *)
(* for is redundant on top of what it has accepted, and if that is nothing *)
(* the circuit is irredundant.  Only this justifies ending the passes.     *)
QuietPassLeavesNothing ==
  engine = "sweep" /\ pc = "sweep" /\ proposals = <<>> /\ ~changed /\ ~slow =>
    \A k \in Candidates(work) :
      (k \in found \/ accepted = <<>>) /\ k[1] \notin DOMAIN accepted =>
        ~Redundant(Working, k)
=============================================================================
