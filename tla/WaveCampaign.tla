---------------------------- MODULE WaveCampaign ----------------------------
(***************************************************************************)
(* The round-robin campaign over several circuits (run_campaign of the     *)
(* parallel TFO benchmark campaign).  In every round each target that is   *)
(* neither complete nor failed is visited once: a coordinator run of one   *)
(* time slice, on checkpoints in a directory of the target's own.  The     *)
(* first visit begins with the target's seed, which is a checkpoint found  *)
(* elsewhere or the verified output of an earlier campaign; later ones     *)
(* with what the visits before have saved.                                 *)
(*                                                                         *)
(* The variables of CommitCoordinator are those of the visit in progress.  *)
(***************************************************************************)
EXTENDS CommitCoordinator, Sequences

CONSTANTS
  TargetSources,   \* the source AAGs of the targets, in the campaign's order
  Outputs          \* the seeds that are outputs, with no frontier

Targets == DOMAIN TargetSources

ASSUME CampaignAssumption ==
  /\ TargetSources \in Seq(Sources) \ {<<>>}
  /\ \A t \in Targets : SeedsOf(TargetSources[t]) # {}
  /\ Outputs \subseteq {ck \in Seeds : ck.resume = {}}

VARIABLES
  target,    \* the target being visited, 0 for none
  queue,     \* targets of this round still to be visited, in list order
  seed,      \* the checkpoint each target was discovered with
  parked,    \* what each target's checkpoint directory holds between visits
  visited,   \* whether a visit has ended, so that the seed is used no more
  outcome,   \* of the last visit: "none", "slice", "exhausted", "complete", "failed"
  ended      \* "no", or how the campaign ended: "deadline", "idle", "raised"

campaign == <<target, queue, seed, parked, visited, outcome, ended>>
campaignVars == <<vars, campaign>>

(* The variables of a visit before it begins.                              *)
NoVisit ==
  /\ source' = TargetSources[1] /\ active' = {} /\ extern' = {}
  /\ work' = TargetSources[1] /\ phase' = {} /\ open' = 0
  /\ cands' = {} /\ hist' = Untried
  /\ batch' = {} /\ budget' = 0 /\ sat' = {} /\ late' = {} /\ todo' = {} /\ accepted' = {}
  /\ generation' = 0 /\ committed' = FALSE
  /\ status' = "RUNNING" /\ pc' = "off"

CampaignInit ==
  /\ Init /\ source = TargetSources[1] /\ extern = {}
  /\ target = 0 /\ queue = {}
  /\ seed \in [Targets -> Seeds] /\ \A t \in Targets : seed[t] \in SeedsOf(TargetSources[t])
  /\ parked = [t \in Targets |-> {}]
  /\ visited = [t \in Targets |-> FALSE]
  /\ outcome = [t \in Targets |-> "none"]
  /\ ended = "no"

InProgress == target # 0
Between == ~InProgress /\ ended = "no"

Live(t) == outcome[t] \notin {"complete", "failed"}

NewRound ==
  /\ Between /\ queue = {}
  /\ queue' = {t \in Targets : Live(t)}
  /\ ended' = IF queue' = {} THEN "idle" ELSE "no"
  /\ UNCHANGED <<vars, target, seed, parked, visited, outcome>>

(* The seed as a later run would find it in the target's own directory.    *)
SeedInPlace(t) == {seed[t]} \cap Outputs

\* Mutant of BeginsWithSeed: every visit is given the seed.
BeginsWithSeedAgain(t) == TRUE

BeginsWithSeed(t) == ~visited[t]

(* A first visit begins with the seed, whatever the directory holds.  An   *)
(* output is checked first and entered into the target's directory, where  *)
(* it stays.                                                               *)
Visit ==
  /\ Between /\ queue # {}
  /\ LET t == Least(queue)
     IN  /\ IF BeginsWithSeed(t) THEN RunOf(TargetSources[t], {}, {seed[t]})
            ELSE RunOf(TargetSources[t], parked[t], SeedInPlace(t))
         /\ source' = TargetSources[t] /\ active' = parked[t]
         /\ extern' = SeedInPlace(t)
         /\ target' = t /\ queue' = queue \ {t}
  /\ UNCHANGED <<seed, parked, visited, outcome, ended>>

(* A seed that does not pass its check ends the campaign, not its target:  *)
(* the check is made outside the handler of coordinator errors.            *)
SeedRefused ==
  /\ Between /\ queue # {}
  /\ LET t == Least(queue)
     IN  /\ ~visited[t] /\ SeedInPlace(t) # {}
         /\ \/ "cec_timeout" \in Faults
            \/ Meaning[seed[t].work] # Meaning[TargetSources[t]]
  /\ ended' = "raised"
  /\ UNCHANGED <<vars, target, queue, seed, parked, visited, outcome>>

OutcomeOf ==
  CASE pc = "raised" \/ status = "CEC_FAILED_ROLLBACK" -> "failed"
    [] pc = "done" /\ status = "COMPLETE" -> "complete"
    [] pc = "done" /\ status = "UNRESOLVED_BUDGETS_EXHAUSTED" -> "exhausted"
    [] OTHER -> "slice"

\* Mutant of NextInRound: every visit starts the round again.
RoundAgain == {}

NextInRound == queue

(* The visit returns, or raises and is caught.                             *)
Return ==
  /\ InProgress /\ pc \in {"done", "raised"}
  /\ parked' = [parked EXCEPT ![target] = active]
  /\ visited' = [visited EXCEPT ![target] = TRUE]
  /\ outcome' = [outcome EXCEPT ![target] = OutcomeOf]
  /\ queue' = NextInRound
  /\ target' = 0
  /\ NoVisit
  /\ UNCHANGED <<seed, ended>>

(* The campaign's deadline is looked at between visits.                    *)
Expire ==
  /\ Between
  /\ ended' = "deadline"
  /\ UNCHANGED <<vars, target, queue, seed, parked, visited, outcome>>

During(A) == InProgress /\ A /\ UNCHANGED campaign

Scheduler == NewRound \/ Visit \/ Return

CampaignNext ==
  \/ Scheduler \/ SeedRefused \/ Expire
  \/ During(Generation) \/ During(OutOfTime) \/ During(WorkerError)

(* The campaign is one process; a visit goes on by itself; and the slices  *)
(* are such that each target now and then begins a generation in one.      *)
WaveSpec ==
  /\ CampaignInit /\ [][CampaignNext]_campaignVars
  /\ WF_campaignVars(Scheduler) /\ WF_campaignVars(During(Generation))
  /\ \A t \in Targets : SF_campaignVars(During(Begin) /\ target = t)

-----------------------------------------------------------------------------
(* The variables have their types, and a visit runs on the files of its    *)
(* target (run_campaign).                                                  *)
CampaignTypeOK ==
  /\ TypeOK
  /\ target \in Targets \cup {0}
  /\ queue \subseteq Targets \ {target}
  /\ \A t \in Targets : seed[t] \in SeedsOf(TargetSources[t])
  /\ parked \in [Targets -> SUBSET Checkpoints]
  /\ visited \in [Targets -> BOOLEAN]
  /\ outcome \in [Targets -> {"none", "slice", "exhausted", "complete", "failed"}]
  /\ ended \in {"no", "deadline", "idle", "raised"}
  /\ InProgress => source = TargetSources[target]

(* However short the slices and whatever becomes of the other targets, a   *)
(* campaign with time brings each target to an end: complete, stopped, or  *)
(* with every budget tried.  Only the deadline, or a seed that does not    *)
(* pass its check, can end the campaign before (run_campaign).             *)
EveryTargetSettles ==
  \A t \in Targets :
    <>(outcome[t] \in {"complete", "failed", "exhausted"} \/ ended \in {"deadline", "raised"})

-----------------------------------------------------------------------------
DirectoryOf(t) == IF t = target THEN active ELSE parked[t]

(* The AAG the next visit of a target would start with, or the next        *)
(* campaign, which finds the seed where it was found before.               *)
StartOf(t) == (CHOOSE ck \in Loaded(DirectoryOf(t), {seed[t]}) : TRUE).work

CircuitOf(t) == IF t = target THEN work ELSE StartOf(t)

CompletedNow(t) == t = target /\ status = "COMPLETE"

TargetRemoval(t) == INSTANCE RedundancyRemoval WITH
  circuit <- CircuitOf(t), kept <- StartOf(t), complete <- CompletedNow(t)

TargetStep(t) ==
  TargetRemoval(t)!Next \/ UNCHANGED <<CircuitOf(t), StartOf(t), CompletedNow(t)>>

(* Each target, over all its visits, is a removal of redundancies that     *)
(* never falls back behind its seed or its last save, whatever the other   *)
(* targets and its own slices do: \A t \in Targets : TargetRemoval(t)!Spec *)
(* with one box as TLC reads it.                                           *)
TargetsImplementRemoval ==
  /\ \A t \in Targets : TargetRemoval(t)!Init
  /\ [][\A t \in Targets : TargetStep(t)]_campaignVars
=============================================================================
