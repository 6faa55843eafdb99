--------------------------- MODULE CoordinatorProofs ---------------------------
(***************************************************************************)
(* The single-circuit coordinator keeps what it promises for all circuits, *)
(* budgets, checkpoints found on the way and failures.  Two of its claims  *)
(* need an assumption, each with a run that shows why: the policy must     *)
(* compare gates first or take the newest (CommitNotSaved), and no run may *)
(* stop before it has looked at a frontier that does not fit               *)
(* (StaleFrontier).                                                        *)
(*                                                                         *)
(* The second half is about the wave-based campaign, for any number of     *)
(* targets, seeds and slices.  What is proved of the coordinator holds of  *)
(* every visit; what is new is what a visit hands to the next one: the     *)
(* directory of its target, next to the seed the target came with.         *)
(***************************************************************************)
EXTENDS WaveCampaign, StoreProofs, BudgetLadderProofs

(* The types, with the shapes the actions take apart.                      *)
Files ==
  /\ source \in Sources
  /\ active \subseteq Checkpoints /\ AtMostOne(active)
  /\ extern \subseteq SeedsOf(source) /\ AtMostOne(extern)
  /\ \A ck \in active : AtMostOne(ck.resume)

Run ==
  /\ work \in Works /\ open \in Nat
  /\ phase \subseteq [about : Works, frontier : Frontiers] /\ AtMostOne(phase)
  /\ cands \subseteq Candidate /\ hist \in [Candidate -> Nat]
  /\ batch \subseteq cands /\ budget \in Nat
  /\ todo \cup accepted \cup sat \cup late \subseteq batch
  /\ committed \in BOOLEAN

Control ==
  /\ generation \in 0 .. MaxGenerations + 1
  /\ pc \in {"wave", "recheck", "save"} => generation <= MaxGenerations
  /\ pc = "generation" => generation >= 1
  /\ pc \in {"generation", "wave", "recheck"} => status = "RUNNING"
  /\ status \in {"RUNNING", "TIME_BUDGET_CHECKPOINT", "MAX_GENERATIONS_REACHED", "COMPLETE",
                "UNRESOLVED_BUDGETS_EXHAUSTED", "CEC_FAILED_ROLLBACK"}
  /\ pc \in Ended \cup {"generation", "wave", "recheck", "save", "final", "final_save"}

TypeInv == Files /\ Run /\ Control

(* Every AAG in memory or in a checkpoint computes the function of the     *)
(* source, and no run is behind the AAG the next one would begin with.     *)
SameFunction ==
  /\ Meaning[work] = Meaning[source]
  /\ \A ck \in active : Meaning[ck.work] = Meaning[source]

NotBehind == pc \notin Ended => Gates[work] <= Gates[RestartPoint]

(* A wave has a batch of untried candidates; its proposals are redundant,  *)
(* together when accepted; and until one is accepted nothing that was      *)
(* rejected is redundant.                                                  *)
WaveHonest ==
  /\ pc \in {"wave", "recheck"} =>
       batch # {} /\ \A k \in batch : hist[k] < budget
  /\ pc = "wave" => accepted = {}
  /\ pc = "recheck" =>
       /\ todo \cup accepted \subseteq Redundant(work)
       /\ sat \cap (todo \cup accepted) = {}
       /\ accepted = {} => sat \cap Redundant(work) = {} /\ batch = todo \cup sat \cup late
       /\ accepted # {} => accepted \in Safe[work]

(* Frontiers are saved with the AAG they were made for: no run stops       *)
(* before it has looked at what it loaded, or what it loads fits.          *)
NoStaleStamp ==
  \/ 1 \notin Deadlines
  \/ "torn_save" \notin Faults /\ \A ck \in Seeds : ck.about = ck.work

SavesWhole == "torn_save" \notin Faults /\ \A ck \in Seeds : ck.about = ck.work

FrontierFits ==
  /\ pc \notin Ended /\ ~ (pc = "generation" /\ generation = 1) =>
       \A p \in phase : p.about = work
  /\ SavesWhole => /\ pc \notin Ended => \A p \in phase : p.about = work
                   /\ \A ck \in active : ck.about = ck.work

FrontierKeeps ==
  /\ pc \notin Ended =>
       \A p \in phase : p.about = work => RedundancyRemains({p.frontier}, work)
  /\ pc \in {"wave", "recheck"} /\ Redundant(work) # {} => cands \cap Redundant(work) # {}
  /\ \A ck \in active : RedundancyRemains(ck.resume, ck.about)
-----------------------------------------------------------------------------
(* Operators of the generation.                                            *)

(* _select_budget_batch answers 0 or a budget that some candidate of the   *)
(* frontier was not tried with.                                            *)
LEMMA SelectedIsUntried ==
  ASSUME NEW cs \in SUBSET Candidate, NEW h \in [Candidate -> Nat]
  PROVE  /\ SelectedBudget(cs, h) \in Nat
         /\ SelectedBudget(cs, h) > 0 => Eligible(cs, h, SelectedBudget(cs, h)) # {}
<1> DEFINE useful == {b \in Budgets : Eligible(cs, h, b) # {}}
           grown  == GeneratedBudget(cs, h)
<1>1. CASE useful # {}
  <2>1. useful \in SUBSET Nat
    BY BudgetsAssumption
  <2>2. Least(useful) \in useful
    BY <1>1, <2>1, LeastOfNaturals
  <2>3. SelectedBudget(cs, h) = Least(useful)
    BY <1>1 DEF SelectedBudget
  <2> QED BY <2>1, <2>2, <2>3
<1>2. CASE useful = {} /\ cs # {}
  <2>1. PICK k \in cs : TRUE
    BY <1>2
  <2>2. Greatest(Budgets) \in Nat
    <3>1. Budgets \in SUBSET Nat /\ h[k] \in Nat
      BY BudgetsAssumption
    <3>2. \A b \in Budgets : b <= h[k]
      BY <1>2, <3>1 DEF Eligible
    <3> QED BY <3>1, <3>2, LadderAssumption, GreatestOfBounded
  <2> DEFINE least == Least({h[j] : j \in cs})
             base  == Larger(Greatest(Budgets), least)
  <2>3. least \in Nat
    <3>1. {h[j] : j \in cs} \in SUBSET Nat /\ {h[j] : j \in cs} # {}
      BY <2>1
    <3> QED BY <3>1, LeastOfNaturals
  <2>4. base \in Nat
    BY <2>2, <2>3 DEF Larger
  <2>5. (base * GrowthNum + GrowthDen - 1) \div GrowthDen \in Int
    BY <2>4, GrowthAssumption
  <2>6. Generated(base) \in Nat
    BY <2>4, <2>5 DEF Generated, Larger
  <2>7. grown = IF MaxGeneratedBudget = 0 THEN Generated(base)
                ELSE Smaller(Generated(base), MaxGeneratedBudget)
    BY DEF GeneratedBudget
  <2>8. grown \in Nat
    BY <2>6, <2>7, CapAssumption DEF Smaller
  <2>9. SelectedBudget(cs, h) =
          IF ContinueUntilDeadline /\ Eligible(cs, h, grown) # {} THEN grown ELSE 0
    BY <1>2 DEF SelectedBudget
  <2> QED BY <2>8, <2>9
<1>3. CASE useful = {} /\ cs = {}
  <2>1. SelectedBudget(cs, h) = 0
    BY <1>3 DEF SelectedBudget
  <2> QED BY <2>1
<1> QED BY <1>1, <1>2, <1>3

LEMMA BatchIsUntried ==
  ASSUME NEW cs \in SUBSET Candidate, NEW h \in [Candidate -> Nat], NEW b \in Nat,
         Eligible(cs, h, b) # {}, NEW B \in Batches(cs, h, b)
  PROVE  B # {} /\ B \subseteq cs /\ \A k \in B : h[k] < b
<1>1. B \subseteq Eligible(cs, h, b)
      /\ Cardinality(B) = Smaller(BatchSize, Cardinality(Eligible(cs, h, b)))
  BY DEF Batches
<1>2. Eligible(cs, h, b) \subseteq cs /\ \A k \in Eligible(cs, h, b) : h[k] < b
  BY DEF Eligible
<1>3. IsFiniteSet(Eligible(cs, h, b))
  BY <1>2, CandidatesAssumption, FS_Subset
<1>4. Cardinality(Eligible(cs, h, b)) \in Nat \ {0}
  BY <1>3, FS_CardinalityType, FS_EmptySet
<1>5. Cardinality(B) # 0
  BY <1>1, <1>4, CoordinatorAssumption DEF Smaller
<1>6. B # {}
  BY <1>5, FS_EmptySet
<1> QED BY <1>1, <1>2, <1>6

LEMMA NewFrontierTyped ==
  ASSUME NEW cs \in SUBSET Candidate, NEW h \in [Candidate -> Nat]
  PROVE  /\ NewFrontier(cs, h) \in Frontiers
         /\ CandidatesOf(NewFrontier(cs, h)) = cs
         /\ NewFrontier(cs, h).pending = cs
         /\ NewFrontier(cs, h).hist = [k \in Candidate |-> IF k \in cs THEN h[k] ELSE 0]
<1>1. [k \in Candidate |-> IF k \in cs THEN h[k] ELSE 0] \in [Candidate -> Nat]
  OBVIOUS
<1> QED BY <1>1, CoordinatorAssumption DEF NewFrontier, Frontiers, CandidatesOf

(* What a frontier found in a checkpoint gives the next generation.        *)
LEMMA CurrentTyped ==
  ASSUME Run
  PROVE  /\ CurrentFrontier \in SUBSET Candidate
         /\ CurrentHistory \in [Candidate -> Nat]
<1>1. Trusted \subseteq Frontiers
  BY DEF Run, Trusted
<1>2. \A f \in Frontiers : CandidatesOf(f) \in SUBSET Candidate /\ f.hist \in [Candidate -> Nat]
  BY DEF Frontiers, CandidatesOf
<1>3. CurrentFrontier \in SUBSET Candidate
  BY <1>1, <1>2, WorksAssumption DEF CurrentFrontier, Run
<1>4. Trusted # {} => (CHOOSE f \in Trusted : TRUE) \in Trusted
  OBVIOUS
<1>5. CurrentHistory \in [Candidate -> Nat]
  BY <1>1, <1>2, <1>4 DEF CurrentHistory, Untried
<1> QED BY <1>3, <1>5

(* While the AAG has a redundancy, a frontier that keeps one gives the     *)
(* next generation one.                                                    *)
LEMMA CurrentKeeps ==
  ASSUME Run,
         \A p \in phase : p.about = work => RedundancyRemains({p.frontier}, work)
  PROVE  Redundant(work) # {} => CurrentFrontier \cap Redundant(work) # {}
<1> SUFFICES ASSUME Redundant(work) # {}
             PROVE  CurrentFrontier \cap Redundant(work) # {}
  OBVIOUS
<1>1. CASE Trusted = {}
  BY <1>1, WorksAssumption DEF CurrentFrontier, Run
<1>2. ASSUME NEW f \in Trusted
      PROVE  CurrentFrontier \cap Redundant(work) # {}
  <2>1. CandidatesOf(f) \subseteq Frontier[work] /\ RedundancyRemains({f}, work)
    BY DEF Trusted, Resumable
  <2>2. CandidatesOf(f) \cap Redundant(work) # {}
    BY <2>1 DEF RedundancyRemains
  <2>3. CandidatesOf(f) \subseteq CurrentFrontier
    BY DEF CurrentFrontier
  <2> QED BY <2>2, <2>3
<1> QED BY <1>1, <1>2

-----------------------------------------------------------------------------
(* The checkpoint directories.                                             *)

LEMMA StoreOfRuns ==
  ASSUME Files
  PROVE  /\ Store(active, extern)
         /\ extern \subseteq Checkpoints
         /\ \A ck \in extern : AtMostOne(ck.resume) /\ Meaning[ck.work] = Meaning[source]
<1>1. extern \subseteq Checkpoints
      /\ \A ck \in extern : AtMostOne(ck.resume) /\ Meaning[ck.work] = Meaning[source]
  BY CoordinatorAssumption DEF Files, SeedsOf, AtMostOne
<1>2. \A ck \in Checkpoints : Readable(ck)
  BY DEF Checkpoints, Readable
<1> QED BY <1>1, <1>2 DEF Files, Store

LEMMA Tears ==
  ASSUME NEW dir \in SUBSET Checkpoints, NEW new, new.work \in Works
  PROVE  TearsApart(dir, new) /\ \A ck \in dir : Torn(ck, new) \in Checkpoints
BY DEF TearsApart, Torn, Checkpoints

LEMMA SavingTyped ==
  ASSUME Run
  PROVE  /\ Saving \in Checkpoints /\ Readable(Saving)
         /\ Saving.work = work /\ Saving.about = work
         /\ Saving.resume = {p.frontier : p \in phase} /\ AtMostOne(Saving.resume)
<1>1. {p.frontier : p \in phase} \in SUBSET Frontiers
  BY DEF Run
<1>2. ManyOf(open, FrontierSize({p.frontier : p \in phase})) \in Nat
  BY <1>1, FrontierSizeNat DEF Run, ManyOf
<1>3. Saving = [work |-> work, about |-> work,
                open |-> ManyOf(open, FrontierSize({p.frontier : p \in phase})),
                resume |-> {p.frontier : p \in phase}]
  BY DEF Saving, Stamped
<1>4. AtMostOne({p.frontier : p \in phase})
  BY DEF Run, AtMostOne
<1> QED BY <1>1, <1>2, <1>3, <1>4 DEF Run, Checkpoints, Readable

(* A checkpoint of the new directory is the one saved or one of the old    *)
(* directory, whole or torn.                                               *)
LEMMA NewDirectory ==
  ASSUME Files, Run
  PROVE  /\ \A ck \in SavedTo(active, extern, Saving) : ck = Saving \/ ck \in active
         /\ \A ck \in TornTo(active, extern, Saving) :
              \E old \in active : ck = old \/ ck = Torn(old, Saving)
BY DEF SavedTo, TornTo, Torn

LEMMA SaveTyped ==
  ASSUME Files, Run, UNCHANGED <<source, extern>>,
         active' = SavedTo(active, extern, Saving)
  PROVE  Files'
<1>1. Store(active', extern)
  BY StoreOfRuns, SavingTyped, SavedStore
<1>2. \A ck \in active' : ck \in Checkpoints /\ AtMostOne(ck.resume)
  BY NewDirectory, SavingTyped DEF Files
<1> QED BY <1>1, <1>2 DEF Files, Store, SeedsOf

LEMMA TornTyped ==
  ASSUME Files, Run, UNCHANGED <<source, extern>>,
         active' = TornTo(active, extern, Saving)
  PROVE  Files'
<1>1. TearsApart(active, Saving) /\ \A ck \in active : Torn(ck, Saving) \in Checkpoints
  BY Tears, SavingTyped DEF Files, Run
<1>2. Store(active', extern)
  BY <1>1, StoreOfRuns, SavingTyped, TornStore
<1>3. \A ck \in active' : ck \in Checkpoints /\ AtMostOne(ck.resume)
  BY <1>1, NewDirectory DEF Files, TearsApart
<1> QED BY <1>2, <1>3 DEF Files, Store, SeedsOf

(* A run begins with the best checkpoint, or with the source.              *)
LEMMA RunBegins ==
  ASSUME Files, RunOf(source, active, extern)
  PROVE  /\ work' = RestartPoint
         /\ \/ Loaded(active, extern) = {} /\ phase' = {} /\ open' = 0 /\ work' = source
            \/ \E ck \in active \cup extern :
                 work' = ck.work /\ phase' = Bound(ck) /\ open' = ck.open
<1>1. RestartPoint = StartFrom(active, extern, source)
  BY DEF RestartPoint, StartFrom
<1> QED BY <1>1, StoreOfRuns, StartIsLoaded, LoadedIsBest DEF RunOf

-----------------------------------------------------------------------------
(* The types.                                                              *)

LEMMA InitTyped == Init => TypeInv
<1> SUFFICES ASSUME Init PROVE TypeInv
  OBVIOUS
<1>1. Files
  BY CoordinatorAssumption DEF Init, Files, AtMostOne, SeedsOf
<1>2. Run
  BY CoordinatorAssumption DEF Init, Run, AtMostOne, Untried
<1>3. Control
  BY CoordinatorAssumption DEF Init, Control, Ended
<1> QED BY <1>1, <1>2, <1>3 DEF TypeInv

LEMMA LaunchTyped ==
  ASSUME TypeInv, Launch
  PROVE  TypeInv'
<1>1. Files /\ RunOf(source, active, extern) /\ UNCHANGED files
  BY DEF TypeInv, Launch
<1>2. Files'
  BY <1>1 DEF Files, files, SeedsOf
<1>3. work' \in Works /\ open' \in Nat
      /\ phase' \subseteq [about : Works, frontier : Frontiers] /\ AtMostOne(phase')
  <2>1. CASE phase' = {} /\ open' = 0 /\ work' = source
    BY <1>1, <2>1, CoordinatorAssumption DEF Files, AtMostOne
  <2>2. ASSUME NEW ck \in active \cup extern,
               work' = ck.work, phase' = Bound(ck), open' = ck.open
        PROVE  <1>3!1 /\ <1>3!2
    <3>1. ck \in Checkpoints /\ AtMostOne(ck.resume)
      BY <1>1, StoreOfRuns DEF Files
    <3> QED BY <2>2, <3>1 DEF Checkpoints, Bound, AtMostOne
  <2> QED BY <1>1, <2>1, <2>2, RunBegins
<1>4. Run'
  BY <1>1, <1>3 DEF Run, RunOf, Untried
<1>5. Control'
  BY <1>1, CoordinatorAssumption DEF Control, RunOf, Ended
<1> QED BY <1>2, <1>4, <1>5 DEF TypeInv

LEMMA BeginTyped ==
  ASSUME TypeInv, Begin
  PROVE  TypeInv'
<1> DEFINE cs == CurrentFrontier
           h  == CurrentHistory
           b  == SelectedBudget(cs, h)
<1>1. Files /\ Run /\ Control
  BY DEF TypeInv
<1>2. cs \in SUBSET Candidate /\ h \in [Candidate -> Nat]
  BY <1>1, CurrentTyped
<1>3. b \in Nat /\ (b > 0 => Eligible(cs, h, b) # {})
  BY <1>2, SelectedIsUntried
<1>4. /\ cands' = cs /\ hist' = h /\ budget' = b /\ committed' = FALSE
      /\ sat' = {} /\ late' = {} /\ todo' = {} /\ accepted' = {}
      /\ UNCHANGED <<files, work, generation>>
  BY DEF Begin
<1>5. Files'
  BY <1>1, <1>4 DEF Files, files, SeedsOf
<1> HIDE DEF cs, h, b
<1>6. CASE b > 0
  <2>1. batch' \in Batches(cs, h, b) /\ phase' = {} /\ open' = open
    BY <1>4, <1>6 DEF Begin
  <2>2. batch' \subseteq cs
    BY <1>2, <1>3, <1>6, <2>1, BatchIsUntried
  <2> QED BY <1>1, <1>2, <1>3, <1>4, <1>5, <1>6, <2>1, <2>2
          DEF TypeInv, Run, Control, Begin, AtMostOne, Ended
<1>7. CASE ~(b > 0)
  <2>1. /\ batch' = {} /\ open' = Cardinality(cs)
        /\ phase' = IF cs = {} THEN {} ELSE {[about |-> work, frontier |-> NewFrontier(cs, h)]}
    BY <1>4, <1>7 DEF Begin
  <2>2. open' \in Nat
    BY <1>2, <2>1, CandidatesAssumption, FS_Subset, FS_CardinalityType
  <2>3. phase' \subseteq [about : Works, frontier : Frontiers] /\ AtMostOne(phase')
    <3>1. NewFrontier(cs, h) \in Frontiers /\ work \in Works
      BY <1>1, <1>2, NewFrontierTyped DEF Run
    <3>2. CASE phase' = {}
      BY <3>2 DEF AtMostOne
    <3>3. CASE phase' = {[about |-> work, frontier |-> NewFrontier(cs, h)]}
      BY <3>1, <3>3 DEF AtMostOne
    <3> QED BY <2>1, <3>2, <3>3
  <2>4. Run'
    BY <1>1, <1>2, <1>3, <1>4, <2>1, <2>2, <2>3 DEF Run
  <2>5. Control'
    BY <1>1, <1>4, <1>7 DEF Control, Begin, Ended
  <2> QED BY <1>5, <2>4, <2>5 DEF TypeInv
<1> QED BY <1>6, <1>7

(* What a commit installs is an AAG, and what it leaves a frontier.        *)
LEMMA TransactionTyped ==
  ASSUME TypeInv, WaveHonest, Transaction
  PROVE  TypeInv'
<1>1. Files /\ Run /\ Control /\ pc = "recheck"
  BY DEF TypeInv, Transaction
<1>2. Files'
  BY <1>1 DEF Transaction, Files, files, SeedsOf
<1>3. Control'
  BY <1>1 DEF Transaction, Committed, NotCommitted, Control, Ended
<1>4. ASSUME Committed
      PROVE  Run'
  <2>1. accepted \in Safe[work] \ {{}}
    BY <1>1, <1>4 DEF WaveHonest, Committed
  <2>2. Rewrite \in Works /\ 2 * Gates[Rewrite] \in Nat
    BY <1>1, <2>1, RestructuredAssumption, WorksAssumption DEF Run, Rewrite
  <2> QED BY <1>1, <1>4, <2>2 DEF Transaction, Committed, Run, wave, AtMostOne
<1>5. ASSUME NotCommitted
      PROVE  Run'
  <2>1. Remaining \in SUBSET Candidate /\ RaisedHistory \in [Candidate -> Nat]
    BY <1>1 DEF Run, Remaining, RaisedHistory, Larger
  <2>2. Cardinality(Remaining) \in Nat
    BY <2>1, CandidatesAssumption, FS_Subset, FS_CardinalityType
  <2>3. NewFrontier(Remaining, RaisedHistory) \in Frontiers
    BY <2>1, NewFrontierTyped
  <2> QED BY <1>1, <1>5, <2>2, <2>3 DEF Transaction, NotCommitted, Run, wave, AtMostOne
<1> QED BY <1>1, <1>2, <1>3, <1>4, <1>5 DEF Transaction, TypeInv

LEMMA FinalCheckTyped ==
  ASSUME TypeInv, FinalCheck
  PROVE  TypeInv'
<1>1. Files /\ Run /\ Control
  BY DEF TypeInv
<1>2. {p.frontier : p \in phase} \in SUBSET Frontiers /\ Gates[work] \in Nat
  BY <1>1, WorksAssumption DEF Run
<1>3. FrontierSize({p.frontier : p \in phase}) \in Nat
  BY <1>2, FrontierSizeNat
<1>4. open' \in Nat
  BY <1>1, <1>2, <1>3 DEF FinalCheck, Run, Larger
<1>5. Files'
  BY <1>1 DEF FinalCheck, Files, files, SeedsOf
<1>6. Run'
  BY <1>1, <1>4 DEF FinalCheck, Run, wave
<1>7. Control'
  BY <1>1 DEF FinalCheck, Control, Ended
<1> QED BY <1>5, <1>6, <1>7 DEF TypeInv

LEMMA SaveStepTyped ==
  ASSUME TypeInv, Save \/ FinalSave \/ CrashInSave
  PROVE  TypeInv'
<1>1. Files /\ Run /\ Control
  BY DEF TypeInv
<1>2. CASE Save
  <2>1. Files'
    BY <1>1, <1>2, SaveTyped DEF Save
  <2>2. Run'
    BY <1>1, <1>2 DEF Save, Run, wave
  <2>3. Control'
    BY <1>1, <1>2, CoordinatorAssumption DEF Save, Control, Ended
  <2> QED BY <2>1, <2>2, <2>3 DEF TypeInv
<1>3. CASE FinalSave
  <2>1. Files'
    BY <1>1, <1>3, SaveTyped DEF FinalSave
  <2>2. Run'
    BY <1>1, <1>3 DEF FinalSave, Run, wave, run
  <2>3. Control'
    BY <1>1, <1>3 DEF FinalSave, Control, Ended, run
  <2> QED BY <2>1, <2>2, <2>3 DEF TypeInv
<1>4. CASE CrashInSave
  <2>1. Files'
    BY <1>1, <1>4, TornTyped DEF CrashInSave
  <2>2. Run'
    BY <1>1, <1>4 DEF CrashInSave, Run, wave, run
  <2>3. Control'
    BY <1>1, <1>4 DEF CrashInSave, Control, Ended, run
  <2> QED BY <2>1, <2>2, <2>3 DEF TypeInv
<1> QED BY <1>2, <1>3, <1>4

(* The steps that touch no file: the wave and its recheck, and the ends of *)
(* a run.                                                                  *)
Stop == OutOfTime \/ OutOfGenerations \/ WorkerError \/ Crash

Rechecked == \E k \in todo : Recheck(k)

LEMMA WaveTyped ==
  ASSUME TypeInv, Wave \/ Rechecked \/ Stop
  PROVE  TypeInv'
<1>1. Files /\ Run /\ Control
  BY DEF TypeInv
<1>2. CASE Wave
  <2>1. Files' /\ Control'
    BY <1>1, <1>2 DEF Wave, Files, files, SeedsOf, Control, Ended, run
  <2>2. Run'
    BY <1>1, <1>2 DEF Wave, Run, run
  <2> QED BY <2>1, <2>2 DEF TypeInv
<1>3. ASSUME NEW k \in todo, Recheck(k)
      PROVE  TypeInv'
  <2>1. Files' /\ Control'
    BY <1>1, <1>3 DEF Recheck, Files, files, SeedsOf, Control, Ended, run
  <2>2. todo' \cup accepted' \cup sat' \cup late' \subseteq batch
    BY <1>1, <1>3 DEF Recheck, Run
  <2>3. Run'
    BY <1>1, <1>3, <2>2 DEF Recheck, Run, run
  <2> QED BY <2>1, <2>3 DEF TypeInv
<1>4. CASE Stop
  <2>1. Files'
    BY <1>1, <1>4
       DEF Stop, OutOfTime, OutOfGenerations, WorkerError, Crash, Files, files, SeedsOf
  <2>2. Run'
    BY <1>1, <1>4
       DEF Stop, OutOfTime, OutOfGenerations, WorkerError, Crash, Run, run, wave
  <2>3. Control'
    BY <1>1, <1>4
       DEF Stop, OutOfTime, OutOfGenerations, WorkerError, Crash, Control, Ended, run
  <2> QED BY <2>1, <2>2, <2>3 DEF TypeInv
<1> QED BY <1>2, <1>3, <1>4 DEF Rechecked

-----------------------------------------------------------------------------
(* The wave and the recheck.                                               *)

LEMMA BeginHonest ==
  ASSUME TypeInv, Begin
  PROVE  WaveHonest'
<1> DEFINE cs == CurrentFrontier
           h  == CurrentHistory
           b  == SelectedBudget(cs, h)
<1>1. cs \in SUBSET Candidate /\ h \in [Candidate -> Nat]
  BY CurrentTyped DEF TypeInv
<1>2. b \in Nat /\ (b > 0 => Eligible(cs, h, b) # {})
  BY <1>1, SelectedIsUntried
<1>3. hist' = h /\ budget' = b /\ accepted' = {}
  BY DEF Begin
<1>4. b > 0 => batch' \in Batches(cs, h, b)
  BY DEF Begin
<1>5. pc' = "wave" => b > 0
  BY DEF Begin
<1>6. pc' \in {"wave", "final"}
  BY DEF Begin
<1> HIDE DEF cs, h, b
<1>7. b > 0 => batch' # {} /\ \A k \in batch' : h[k] < b
  BY <1>1, <1>2, <1>4, BatchIsUntried
<1> QED BY <1>3, <1>5, <1>6, <1>7 DEF WaveHonest

LEMMA RecheckHonest ==
  ASSUME TypeInv, WaveHonest, NEW k \in todo, Recheck(k)
  PROVE  WaveHonest'
<1>1. /\ pc = "recheck" /\ pc' = "recheck" /\ todo' = todo \ {k}
      /\ UNCHANGED <<batch, budget, hist, work>>
  BY DEF Recheck, run
<1>2. /\ todo \cup accepted \subseteq Redundant(work) /\ sat \cap (todo \cup accepted) = {}
      /\ accepted = {} => sat \cap Redundant(work) = {} /\ batch = todo \cup sat \cup late
      /\ accepted # {} => accepted \in Safe[work]
      /\ batch # {} /\ \A j \in batch : hist[j] < budget
  BY <1>1 DEF WaveHonest
<1>3. k \in Redundant(work) /\ {k} \in Safe[work]
  BY <1>2 DEF Redundant
<1>4. CASE \E a \in accepted : a[1] = k[1]
  <2>1. UNCHANGED <<accepted, sat, late>> /\ accepted # {}
    BY <1>4 DEF Recheck
  <2> QED BY <1>1, <1>2, <2>1 DEF WaveHonest, Redundant
<1>5. CASE ~ \E a \in accepted : a[1] = k[1]
  <2>1. k \notin accepted
    BY <1>5
  <2>2. CASE late' = late \cup {k} /\ UNCHANGED <<accepted, sat>>
    BY <1>1, <1>2, <2>2 DEF WaveHonest, Redundant
  <2>3. CASE /\ accepted \cup {k} \in Safe[work]
             /\ accepted' = accepted \cup {k} /\ UNCHANGED <<sat, late>>
    BY <1>1, <1>2, <1>3, <2>3 DEF WaveHonest, Redundant
  <2>4. CASE /\ accepted \cup {k} \notin Safe[work]
             /\ sat' = sat \cup {k} /\ UNCHANGED <<accepted, late>>
    <3>1. accepted # {}
      BY <1>3, <2>4
    <3> QED BY <1>1, <1>2, <2>1, <2>4, <3>1 DEF WaveHonest, Redundant
  <2> QED BY <1>5, <2>2, <2>3, <2>4 DEF Recheck
<1> QED BY <1>4, <1>5

LEMMA WaveSolvesHonest ==
  ASSUME TypeInv, WaveHonest, Wave
  PROVE  WaveHonest'
<1>1. /\ pc = "wave" /\ pc' = "recheck" /\ accepted = {}
      /\ UNCHANGED <<batch, budget, accepted, hist, work>>
  BY DEF Wave, WaveHonest, run
<1>2. PICK unsat \in SUBSET (batch \cap Redundant(work)),
           rejected \in SUBSET (batch \ Redundant(work)) :
        todo' = unsat /\ sat' = rejected /\ late' = batch \ (unsat \cup rejected)
  BY DEF Wave
<1> QED BY <1>1, <1>2 DEF WaveHonest, Redundant

LEMMA NextHonest ==
  ASSUME TypeInv, WaveHonest, [Next]_vars
  PROVE  WaveHonest'
<1>1. CASE Begin
  BY <1>1, BeginHonest
<1>2. CASE Wave
  BY <1>2, WaveSolvesHonest
<1>3. CASE \E k \in todo : Recheck(k)
  BY <1>3, RecheckHonest
<1>4. CASE pc' \notin {"wave", "recheck"}
  BY <1>4 DEF WaveHonest
<1>5. CASE UNCHANGED vars
  BY <1>5 DEF vars, wave, run, WaveHonest, Redundant
<1>6. Launch \/ Transaction \/ FinalCheck \/ Save \/ FinalSave \/ CrashInSave \/ Stop
        => pc' \notin {"wave", "recheck"}
  BY DEF Launch, RunOf, Transaction, FinalCheck, Save, FinalSave, CrashInSave, Stop,
         OutOfTime, OutOfGenerations, WorkerError, Crash
<1> QED BY <1>1, <1>2, <1>3, <1>4, <1>5, <1>6 DEF Next, Generation, Stop

LEMMA NextTyped ==
  ASSUME TypeInv, WaveHonest, [Next]_vars
  PROVE  TypeInv'
<1>1. CASE UNCHANGED vars
  BY <1>1 DEF vars, files, wave, run, TypeInv, Files, Run, Control, SeedsOf
<1> QED BY <1>1, LaunchTyped, BeginTyped, WaveTyped, TransactionTyped, SaveStepTyped,
           FinalCheckTyped DEF Next, Generation, Stop, Rechecked

Honest == TypeInv /\ WaveHonest

LEMMA Honesty == Spec => []Honest
<1>1. Init => Honest
  BY InitTyped DEF Init, Honest, WaveHonest
<1>2. Honest /\ [Next]_vars => Honest'
  BY NextTyped, NextHonest DEF Honest
<1> QED BY <1>1, <1>2, PTL DEF Spec

(* The variables of run_coordinator keep their types, and the checkpoint   *)
(* directory one checkpoint of the circuit, for every circuit and every    *)
(* configuration, whatever a crash leaves of a save.                       *)
THEOREM CoordinatorTyped == Spec => []TypeOK
<1>1. Honest => TypeOK
  <2> SUFFICES ASSUME Honest PROVE TypeOK
    OBVIOUS
  <2>1. Cardinality(active) <= 1 /\ Cardinality(phase) <= 1
    BY AtMostOneCounted DEF Honest, TypeInv, Files, Run
  <2> QED BY <2>1 DEF Honest, TypeInv, Files, Run, Control, TypeOK
<1> QED BY <1>1, Honesty, PTL

-----------------------------------------------------------------------------
(* No generation of run_coordinator is in vain: a wave that commits        *)
(* nothing takes a candidate from the frontier or raises its history above *)
(* what it was tried with, so the next batch differs.                      *)
LEMMA TransactionAdvances ==
  ASSUME Honest, Transaction
  PROVE  GenerationAdvances'
<1> SUFFICES ASSUME NotCommitted, status' = "RUNNING"
             PROVE  \E p \in phase' :
                      \/ p.frontier.pending # cands
                      \/ \E k \in cands : p.frontier.hist[k] > hist[k]
  BY DEF Transaction, Committed, GenerationAdvances
<1>1. pc = "recheck" /\ todo = {} /\ accepted = {} /\ Run
  BY DEF Transaction, NotCommitted, Honest, TypeInv
<1>2. batch # {} /\ batch = sat \cup late /\ \A k \in batch : hist[k] < budget
  BY <1>1 DEF Honest, WaveHonest
<1>3. batch \subseteq cands /\ cands \subseteq Candidate
      /\ hist \in [Candidate -> Nat] /\ budget \in Nat
  BY <1>1 DEF Run
<1>4. Remaining \in SUBSET Candidate /\ RaisedHistory \in [Candidate -> Nat]
  BY <1>3 DEF Remaining, RaisedHistory, Larger
<1> DEFINE f == NewFrontier(Remaining, RaisedHistory)
<1>5. /\ f.pending = Remaining
      /\ f.hist = [k \in Candidate |-> IF k \in Remaining THEN RaisedHistory[k] ELSE 0]
  BY <1>4, NewFrontierTyped
<1>6. [about |-> work, frontier |-> f] \in phase'
  BY DEF NotCommitted
<1> HIDE DEF f
<1>7. ASSUME NEW k \in sat
      PROVE  f.pending # cands
  BY <1>2, <1>3, <1>5 DEF Remaining
<1>8. ASSUME NEW k \in late, sat = {}
      PROVE  f.hist[k] > hist[k] /\ k \in cands
  <2>1. k \in cands /\ k \in Remaining /\ k \in Candidate /\ hist[k] < budget /\ hist[k] \in Nat
    BY <1>2, <1>3, <1>8 DEF Remaining
  <2>2. RaisedHistory[k] = budget
    BY <1>3, <2>1 DEF RaisedHistory, Larger
  <2> QED BY <1>3, <1>5, <2>1, <2>2
<1> QED BY <1>2, <1>6, <1>7, <1>8

(* No wave is in vain (run_coordinator, _select_budget_batch).             *)
THEOREM NoWaveInVain == Spec => []GenerationAdvances
<1>1. Init => GenerationAdvances
  BY DEF Init, GenerationAdvances
<1>2. Honest /\ GenerationAdvances /\ [Next]_vars => GenerationAdvances'
  <2> SUFFICES ASSUME Honest, GenerationAdvances, [Next]_vars
               PROVE  GenerationAdvances'
    OBVIOUS
  <2>1. CASE Transaction
    BY <2>1, TransactionAdvances
  <2>2. CASE UNCHANGED vars
    BY <2>2 DEF vars, run, GenerationAdvances
  <2>3. CASE pc' # "save"
    BY <2>3 DEF GenerationAdvances
  <2>4. Launch \/ Begin \/ Wave \/ Rechecked \/ FinalCheck \/ Save \/ FinalSave
          \/ CrashInSave \/ Stop => pc' # "save"
    BY DEF Launch, RunOf, Begin, Wave, FinalCheck, Save, FinalSave, CrashInSave, Stop,
           OutOfTime, OutOfGenerations, WorkerError, Crash, Recheck, Rechecked
  <2> QED BY <2>1, <2>2, <2>3, <2>4 DEF Next, Generation, Stop, Rechecked
<1> QED BY <1>1, <1>2, Honesty, PTL DEF Spec

-----------------------------------------------------------------------------
(* The frontiers.                                                          *)

FrontierInv == FrontierFits /\ FrontierKeeps

LEMMA OneFrontierRemains ==
  ASSUME NEW frontiers, NEW w
  PROVE  RedundancyRemains(frontiers, w) <=> \A f \in frontiers : RedundancyRemains({f}, w)
BY DEF RedundancyRemains

LEMMA LaunchKeeps ==
  ASSUME Honest, FrontierInv, Launch
  PROVE  FrontierInv'
<1>1. Files /\ RunOf(source, active, extern) /\ UNCHANGED <<active, extern>>
  BY DEF Honest, TypeInv, Launch, files
<1>2. pc' = "generation" /\ generation' = 1
  BY <1>1 DEF RunOf
<1>3. CASE phase' = {}
  BY <1>1, <1>2, <1>3 DEF FrontierInv, FrontierFits, FrontierKeeps
<1>4. ASSUME NEW ck \in active \cup extern, work' = ck.work, phase' = Bound(ck)
      PROVE  FrontierInv'
  <2>1. SavesWhole => ck.about = ck.work
    BY <1>1 DEF FrontierInv, FrontierFits, Files, SeedsOf, SavesWhole
  <2>2. ck.about = ck.work => RedundancyRemains(ck.resume, ck.work)
    <3>1. CASE ck \in active
      BY <3>1 DEF FrontierInv, FrontierKeeps
    <3>2. CASE ck \in extern
      <4>1. ck.about = ck.work =>
              \A f \in ck.resume : Redundant(ck.work) \subseteq CandidatesOf(f)
        BY <1>1, <3>2, CoordinatorAssumption DEF Files, SeedsOf
      <4> QED BY <4>1 DEF RedundancyRemains
    <3> QED BY <3>1, <3>2
  <2>3. \A p \in phase' : p.about = ck.about /\ p.frontier \in ck.resume
    BY <1>4 DEF Bound
  <2>4. \A p \in phase' : p.about = work' => RedundancyRemains({p.frontier}, work')
    BY <1>4, <2>2, <2>3, OneFrontierRemains
  <2> QED BY <1>1, <1>2, <1>4, <2>1, <2>3, <2>4 DEF FrontierInv, FrontierFits, FrontierKeeps
<1> QED BY <1>1, <1>3, <1>4, RunBegins

(* The end of a generation that saves what it made for its own AAG.        *)
LEMMA StopKeeps ==
  ASSUME NoStaleStamp, Honest, FrontierInv, Stop
  PROVE  FrontierInv'
<1>1. UNCHANGED <<work, phase, active>>
  BY DEF Stop, OutOfTime, OutOfGenerations, WorkerError, Crash, files, run
<1>2. CASE OutOfTime
  <2>1. pc = "generation" /\ generation \in Deadlines /\ pc' = "final"
    BY <1>2 DEF OutOfTime
  <2>2. \A p \in phase : p.about = work
    BY <2>1 DEF NoStaleStamp, SavesWhole, FrontierInv, FrontierFits, Ended
  <2> QED BY <1>1, <2>1, <2>2 DEF FrontierInv, FrontierFits, FrontierKeeps, Ended
<1>3. CASE OutOfGenerations
  <2>1. pc = "generation" /\ generation > MaxGenerations /\ pc' = "final"
    BY <1>3 DEF OutOfGenerations
  <2>2. generation # 1
    BY <2>1, CoordinatorAssumption
  <2> QED BY <1>1, <2>1, <2>2 DEF FrontierInv, FrontierFits, FrontierKeeps, Ended
<1>4. CASE WorkerError \/ Crash
  <2>1. pc' \in Ended /\ pc' \notin {"wave", "recheck"}
    BY <1>4 DEF WorkerError, Crash, Ended
  <2> QED BY <1>1, <2>1 DEF FrontierInv, FrontierFits, FrontierKeeps
<1> QED BY <1>2, <1>3, <1>4 DEF Stop

LEMMA NewFrontierKeeps ==
  ASSUME NEW cs \in SUBSET Candidate, NEW h \in [Candidate -> Nat], NEW w,
         Redundant(w) # {} => cs \cap Redundant(w) # {}
  PROVE  RedundancyRemains({NewFrontier(cs, h)}, w)
BY NewFrontierTyped DEF RedundancyRemains

LEMMA BeginKeeps ==
  ASSUME Honest, FrontierInv, Begin
  PROVE  FrontierInv'
<1>1. Run /\ CurrentFrontier \in SUBSET Candidate /\ CurrentHistory \in [Candidate -> Nat]
  BY CurrentTyped DEF Honest, TypeInv
<1>2. /\ pc = "generation" /\ cands' = CurrentFrontier /\ hist' = CurrentHistory
      /\ UNCHANGED <<active, work>> /\ pc' \in {"wave", "final"}
  BY DEF Begin, files
<1>3. \A p \in phase : p.about = work => RedundancyRemains({p.frontier}, work)
  BY <1>2 DEF FrontierInv, FrontierKeeps, Ended
<1>4. Redundant(work) # {} => CurrentFrontier \cap Redundant(work) # {}
  BY <1>1, <1>3, CurrentKeeps
<1>5. \A p \in phase' : p.about = work /\ p.frontier = NewFrontier(cands', hist')
  BY DEF Begin
<1>6. RedundancyRemains({NewFrontier(cands', hist')}, work)
  BY <1>1, <1>2, <1>4, NewFrontierKeeps
<1>7. FrontierFits'
  BY <1>2, <1>5 DEF FrontierInv, FrontierFits
<1>8. FrontierKeeps'
  BY <1>2, <1>4, <1>5, <1>6 DEF FrontierInv, FrontierKeeps, Redundant
<1> QED BY <1>7, <1>8 DEF FrontierInv

LEMMA TransactionKeeps ==
  ASSUME Honest, FrontierInv, Transaction
  PROVE  FrontierInv'
<1>1. pc = "recheck" /\ todo = {} /\ pc' = "save" /\ UNCHANGED active /\ Run
  BY DEF Transaction, files, Honest, TypeInv
<1>2. CASE Committed
  <2>1. phase' = {}
    BY <1>2 DEF Committed
  <2> QED BY <1>1, <2>1 DEF FrontierInv, FrontierFits, FrontierKeeps
<1>3. CASE NotCommitted
  <2>1. Remaining \in SUBSET Candidate /\ RaisedHistory \in [Candidate -> Nat]
    BY <1>1 DEF Run, Remaining, RaisedHistory, Larger
  <2>2. Redundant(work) # {} => Remaining \cap Redundant(work) # {}
    <3>1. Redundant(work) # {} => cands \cap Redundant(work) # {}
      BY <1>1 DEF FrontierInv, FrontierKeeps
    <3>2. CASE accepted = {}
      <4>1. sat \cap Redundant(work) = {}
        BY <1>1, <3>2 DEF Honest, WaveHonest
      <4> QED BY <3>1, <4>1 DEF Remaining
    <3>3. CASE accepted # {}
      <4>1. accepted \subseteq Redundant(work) /\ sat \cap accepted = {}
        BY <1>1 DEF Honest, WaveHonest
      <4>2. accepted \subseteq cands
        BY <1>1 DEF Run
      <4> QED BY <3>3, <4>1, <4>2 DEF Remaining
    <3> QED BY <3>2, <3>3
  <2>3. RedundancyRemains({NewFrontier(Remaining, RaisedHistory)}, work)
    BY <2>1, <2>2, NewFrontierKeeps
  <2>4. /\ phase' = {[about |-> work, frontier |-> NewFrontier(Remaining, RaisedHistory)]}
        /\ UNCHANGED work
    BY <1>3 DEF NotCommitted
  <2>5. \A p \in phase' : p.about = work
                          /\ p.frontier = NewFrontier(Remaining, RaisedHistory)
    BY <2>4
  <2> QED BY <1>1, <2>3, <2>4, <2>5 DEF FrontierInv, FrontierFits, FrontierKeeps
<1> QED BY <1>2, <1>3 DEF Transaction

(* What is saved is about the AAG it is saved with.                        *)
LEMMA SaveKeeps ==
  ASSUME Honest, FrontierInv, Save \/ FinalSave \/ CrashInSave
  PROVE  FrontierInv'
<1>1. Files /\ Run /\ Control
  BY DEF Honest, TypeInv
<1>2. pc \in {"save", "final_save"} /\ UNCHANGED <<work, phase>>
  BY DEF Save, FinalSave, CrashInSave, run
<1>3. \A p \in phase : p.about = work /\ RedundancyRemains({p.frontier}, work)
  BY <1>2 DEF FrontierInv, FrontierFits, FrontierKeeps, Ended
<1>4. RedundancyRemains(Saving.resume, work)
  BY <1>1, <1>3, SavingTyped, OneFrontierRemains
<1>5. \A ck \in active' : RedundancyRemains(ck.resume, ck.about)
  <2>1. CASE active' = SavedTo(active, extern, Saving)
    BY <1>1, <1>4, <2>1, NewDirectory, SavingTyped DEF FrontierInv, FrontierKeeps
  <2>2. CASE active' = TornTo(active, extern, Saving)
    <3>1. TearsApart(active, Saving)
      BY <1>1, Tears, SavingTyped DEF Files, Run
    <3> QED BY <1>1, <2>2, <3>1, NewDirectory DEF FrontierInv, FrontierKeeps, TearsApart
  <2> QED BY <2>1, <2>2 DEF Save, FinalSave, CrashInSave
<1>6. SavesWhole => \A ck \in active' : ck.about = ck.work
  <2> SUFFICES ASSUME SavesWhole, NEW ck \in active'
               PROVE  ck.about = ck.work
    OBVIOUS
  <2>1. active' = SavedTo(active, extern, Saving)
    BY DEF SavesWhole, Save, FinalSave, CrashInSave
  <2> QED BY <1>1, <2>1, NewDirectory, SavingTyped DEF FrontierInv, FrontierFits
<1>7. pc' \notin {"wave", "recheck"}
  BY DEF Save, FinalSave, CrashInSave
<1> QED BY <1>2, <1>3, <1>5, <1>6, <1>7 DEF FrontierInv, FrontierFits, FrontierKeeps

LEMMA QuietKeeps ==
  ASSUME Honest, FrontierInv, Wave \/ Rechecked \/ FinalCheck
  PROVE  FrontierInv'
<1>1. UNCHANGED <<work, phase, active, cands>>
  BY DEF Wave, Rechecked, Recheck, FinalCheck, files, run
<1>2. /\ pc \notin Ended /\ pc # "generation"
      /\ pc' \in {"wave", "recheck"} => pc \in {"wave", "recheck"}
  BY DEF Wave, Rechecked, Recheck, FinalCheck, Ended
<1> QED BY <1>1, <1>2 DEF FrontierInv, FrontierFits, FrontierKeeps, Redundant

LEMMA NextKeeps ==
  ASSUME NoStaleStamp, Honest, FrontierInv, [Next]_vars
  PROVE  FrontierInv'
<1>1. CASE UNCHANGED vars
  BY <1>1 DEF vars, files, run, FrontierInv, FrontierFits, FrontierKeeps, Redundant
<1> QED BY <1>1, LaunchKeeps, StopKeeps, BeginKeeps, TransactionKeeps, SaveKeeps,
           QuietKeeps DEF Next, Generation, Stop, Rechecked

LEMMA FrontiersInHand == ASSUME NoStaleStamp PROVE Spec => []FrontierInv
<1>1. Init => FrontierInv
  BY DEF Init, FrontierInv, FrontierFits, FrontierKeeps, Ended
<1>2. Honest /\ FrontierInv /\ [Next]_vars => FrontierInv'
  BY NextKeeps
<1> QED BY <1>1, <1>2, Honesty, PTL DEF Spec

(* While its AAG has a redundancy, so has every frontier that              *)
(* run_coordinator or a later run trusts, over all timeouts, refused       *)
(* commits, torn saves and restarts; unless a run stops before it has      *)
(* looked at a frontier that does not fit, and saves it as if it did.      *)
THEOREM TrustedFrontiersKeep ==
  ASSUME NoStaleStamp
  PROVE  Spec => []FrontierKeepsARedundancy
<1>1. FrontierInv => FrontierKeepsARedundancy
  <2> SUFFICES ASSUME FrontierInv PROVE FrontierKeepsARedundancy
    OBVIOUS
  <2>1. ASSUME pc \notin Ended PROVE RedundancyRemains(Trusted, work)
    <3>1. \A f \in Trusted : RedundancyRemains({f}, work)
      BY <2>1 DEF FrontierInv, FrontierKeeps, Trusted, Resumable
    <3> QED BY <3>1, OneFrontierRemains
  <2> QED BY <2>1 DEF FrontierInv, FrontierKeeps, FrontierKeepsARedundancy
<1> QED BY <1>1, FrontiersInHand, PTL

-----------------------------------------------------------------------------
(* The AAGs: what a run works on and what the next one would begin with.   *)

AAGInv == SameFunction /\ NotBehind

LEMMA RestartFrame ==
  ASSUME UNCHANGED files
  PROVE  RestartPoint' = RestartPoint
BY DEF files, RestartPoint

LEMMA RestartTyped ==
  ASSUME Files
  PROVE  RestartPoint \in Works /\ Gates[RestartPoint] \in Nat
<1>1. source \in Works
  BY CoordinatorAssumption DEF Files
<1>2. \A ck \in Loaded(active, extern) : ck.work \in Works
  BY StoreOfRuns, LoadedIsBest DEF Store, Readable
<1>3. RestartPoint \in Works
  BY <1>1, <1>2 DEF RestartPoint
<1> QED BY <1>3, WorksAssumption

(* An accepted set of replacements leads to a smaller AAG.                 *)
LEMMA CommitIsSmaller ==
  ASSUME Honest, Transaction, Committed
  PROVE  /\ Meaning[work'] = Meaning[work] /\ Gates[work'] < Gates[work]
         /\ Gates[work'] \in Nat /\ Gates[work] \in Nat
<1>1. pc = "recheck" /\ accepted # {} /\ work' = Restructured[work][accepted] /\ work \in Works
  BY DEF Transaction, Committed, Rewrite, Honest, TypeInv, Run
<1>2. accepted \in Safe[work] \ {{}}
  BY <1>1 DEF Honest, WaveHonest
<1> QED BY <1>1, <1>2, RestructuredAssumption, WorksAssumption

LEMMA SaveMovesOn ==
  ASSUME Honest, NotBehind, Save \/ FinalSave \/ CrashInSave
  PROVE  RestartPoint' \in {RestartPoint, work} /\ Gates[work] <= Gates[RestartPoint]
<1>1. Files /\ Run
  BY DEF Honest, TypeInv
<1>2. Gates[work] <= Gates[RestartPoint]
  BY DEF Save, FinalSave, CrashInSave, NotBehind, Ended
<1>3. /\ RestartPoint = StartFrom(active, extern, source)
      /\ RestartPoint' = StartFrom(active', extern, source)
  <2>1. source' = source /\ extern' = extern
    BY DEF Save, FinalSave, CrashInSave
  <2> QED BY <2>1 DEF RestartPoint, StartFrom
<1>4. Store(active, extern) /\ Readable(Saving) /\ Saving.work = work
      /\ TearsApart(active, Saving)
  BY <1>1, StoreOfRuns, SavingTyped, Tears DEF Files, Run
<1>5. active' = SavedTo(active, extern, Saving) \/ active' = TornTo(active, extern, Saving)
  BY DEF Save, FinalSave, CrashInSave
<1> QED BY <1>2, <1>3, <1>4, <1>5, SavesMoveOn

(* Of a step that changes AAGs or checkpoints.                             *)
LEMMA MovesTheAAG ==
  ASSUME [Next]_vars
  PROVE  \/ Launch
         \/ Transaction /\ Committed
         \/ Save \/ FinalSave \/ CrashInSave
         \/ UNCHANGED <<files, work>> /\ pc \notin Ended
         \/ UNCHANGED <<files, work, pc, status>>
<1>1. CASE Launch \/ (Transaction /\ Committed) \/ Save \/ FinalSave \/ CrashInSave
  BY <1>1
<1>2. CASE Transaction /\ NotCommitted
  BY <1>2 DEF Transaction, NotCommitted, Ended
<1>3. CASE OutOfTime \/ OutOfGenerations \/ Begin \/ Wave \/ Rechecked \/ FinalCheck
           \/ WorkerError \/ Crash
  BY <1>3 DEF OutOfTime, OutOfGenerations, Begin, Wave, Rechecked, Recheck, FinalCheck,
              WorkerError, Crash, Ended, run
<1>4. CASE UNCHANGED vars
  BY <1>4 DEF vars, run
<1> QED BY <1>1, <1>2, <1>3, <1>4 DEF Next, Generation, Rechecked, Transaction

LEMMA NextAAGs ==
  ASSUME Honest, AAGInv, [Next]_vars
  PROVE  AAGInv'
<1>1. Files /\ Run
  BY DEF Honest, TypeInv
<1>2. CASE Launch
  <2>1. RunOf(source, active, extern) /\ UNCHANGED files
    BY <1>2 DEF Launch
  <2>2. \A ck \in active \cup extern : Meaning[ck.work] = Meaning[source]
    BY <1>1, StoreOfRuns DEF AAGInv, SameFunction
  <2>3. Meaning[work'] = Meaning[source] /\ work' = RestartPoint
    BY <1>1, <2>1, <2>2, RunBegins
  <2>4. RestartPoint' = RestartPoint /\ Gates[RestartPoint] \in Nat
    BY <1>1, <2>1, RestartFrame, RestartTyped
  <2> QED BY <2>1, <2>3, <2>4 DEF AAGInv, SameFunction, NotBehind, files
<1>3. CASE Transaction /\ Committed
  <2>1. Meaning[work'] = Meaning[work] /\ Gates[work'] <= Gates[work]
        /\ Gates[work'] \in Nat /\ Gates[work] \in Nat
    BY <1>3, CommitIsSmaller
  <2>2. RestartPoint' = RestartPoint /\ Gates[RestartPoint] \in Nat
    BY <1>1, <1>3, RestartFrame, RestartTyped DEF Transaction
  <2>3. Gates[work] <= Gates[RestartPoint]
    BY <1>3 DEF Transaction, AAGInv, NotBehind, Ended
  <2> QED BY <1>3, <2>1, <2>2, <2>3 DEF Transaction, AAGInv, SameFunction, NotBehind, files
<1>4. CASE Save \/ FinalSave \/ CrashInSave
  <2>1. RestartPoint' \in {RestartPoint, work} /\ Gates[work] <= Gates[RestartPoint]
    BY <1>4, SaveMovesOn DEF AAGInv
  <2>2. work' = work /\ source' = source
    BY <1>4 DEF Save, FinalSave, CrashInSave, run
  <2>3. Gates[work] \in Nat
    BY <1>1, WorksAssumption DEF Run
  <2>4. \A ck \in active' : ck.work = work \/ ck \in active
    <3>1. TearsApart(active, Saving)
      BY <1>1, Tears, SavingTyped DEF Files, Run
    <3> QED BY <1>1, <1>4, <3>1, NewDirectory, SavingTyped
            DEF Save, FinalSave, CrashInSave, TearsApart
  <2> QED BY <2>1, <2>2, <2>3, <2>4 DEF AAGInv, SameFunction, NotBehind
<1>5. CASE UNCHANGED <<files, work>> /\ (pc \notin Ended \/ UNCHANGED pc)
  BY <1>5, RestartFrame DEF AAGInv, SameFunction, NotBehind, files
<1> QED BY <1>2, <1>3, <1>4, <1>5, MovesTheAAG

LEMMA AAGs == Spec => []AAGInv
<1>1. Init => AAGInv
  BY DEF Init, AAGInv, SameFunction, NotBehind, Ended
<1> QED BY <1>1, NextAAGs, Honesty, PTL DEF Spec

(* The policy compares gates before anything else, and no seed is torn; or *)
(* it takes the newest checkpoint.                                         *)
GatesFirst ==
  \/ Policy = "recent"
  \/ Policy = "gates" /\ \A ck \in Seeds : Forward(ck)

Checkpointed == ComparesGates(active, extern) /\ CommitIsCheckpointed

LEMMA NextCheckpointed ==
  ASSUME Honest, Checkpointed, [Next]_vars
  PROVE  Checkpointed'
<1>1. Files /\ Run
  BY DEF Honest, TypeInv
<1>2. CASE Launch
  <2>1. RunOf(source, active, extern) /\ UNCHANGED files
    BY <1>2 DEF Launch
  <2>2. work' = RestartPoint /\ RestartPoint' = RestartPoint /\ Gates[RestartPoint] \in Nat
    BY <1>1, <2>1, RunBegins, RestartFrame, RestartTyped
  <2> QED BY <2>1, <2>2 DEF Checkpointed, CommitIsCheckpointed, files
<1>3. CASE Transaction
  BY <1>3 DEF Transaction, Checkpointed, CommitIsCheckpointed, files
<1>4. CASE Save \/ FinalSave \/ CrashInSave
  <2>1. /\ Store(active, extern) /\ Readable(Saving)
        /\ Saving.work = work /\ Saving.about = work /\ TearsApart(active, Saving)
    BY <1>1, StoreOfRuns, SavingTyped, Tears DEF Files, Run
  <2>2. ComparesGates(active', extern)
    BY <1>4, <2>1, StillForward DEF Save, FinalSave, CrashInSave, Checkpointed
  <2>3. extern' = extern /\ source' = source /\ work' = work
    BY <1>4 DEF Save, FinalSave, CrashInSave, run
  <2>4. CASE active' = SavedTo(active, extern, Saving)
    <3>1. /\ Loaded(active', extern) # {}
          /\ \A ck \in Loaded(active', extern) : Gates[ck.work] <= Gates[work]
      BY <2>1, <2>4, SaveIsNotLost DEF Checkpointed
    <3>2. Gates[RestartPoint'] <= Gates[work]
      BY <2>3, <3>1 DEF RestartPoint
    <3> QED BY <2>2, <2>3, <3>2 DEF Checkpointed, CommitIsCheckpointed
  <2>5. CASE pc' = "crashed"
    BY <2>2, <2>3, <2>5 DEF Checkpointed, CommitIsCheckpointed
  <2> QED BY <1>4, <2>4, <2>5 DEF Save, FinalSave, CrashInSave
<1>5. CASE OutOfTime \/ OutOfGenerations \/ Begin \/ FinalCheck
  <2>1. UNCHANGED <<files, work>> /\ pc \in {"generation", "final"}
    BY <1>5 DEF OutOfTime, OutOfGenerations, Begin, FinalCheck
  <2> QED BY <2>1, RestartFrame DEF Checkpointed, CommitIsCheckpointed, files
<1>6. CASE Wave \/ Rechecked \/ WorkerError \/ Crash
  <2>1. UNCHANGED files /\ pc' \notin {"generation", "final", "final_save", "done"}
    BY <1>6 DEF Wave, Rechecked, Recheck, WorkerError, Crash
  <2> QED BY <2>1 DEF Checkpointed, CommitIsCheckpointed, files
<1>7. CASE UNCHANGED vars
  <2>1. UNCHANGED <<files, work, pc>>
    BY <1>7 DEF vars, run
  <2> QED BY <2>1, RestartFrame DEF Checkpointed, CommitIsCheckpointed, files
<1> QED BY <1>2, <1>3, <1>4, <1>5, <1>6, <1>7 DEF Next, Generation, Rechecked

(* What a generation of run_coordinator has committed is in a checkpoint   *)
(* when the next one begins, torn saves and seeds included: a run that is  *)
(* started again never starts from an AAG with more gates.                 *)
THEOREM CommitsAreCheckpointed ==
  ASSUME GatesFirst
  PROVE  Spec => []CommitIsCheckpointed
<1>1. Init => Checkpointed
  <2> SUFFICES ASSUME Init PROVE Checkpointed
    OBVIOUS
  <2>1. active = {} /\ extern \subseteq Seeds /\ pc = "off"
    BY DEF Init, SeedsOf
  <2> QED BY <2>1 DEF Checkpointed, CommitIsCheckpointed, ComparesGates, GatesFirst
<1>2. Honest /\ Checkpointed /\ [Next]_vars => Checkpointed'
  BY NextCheckpointed
<1>3. Spec => []Checkpointed
  BY <1>1, <1>2, Honesty, PTL DEF Spec
<1>4. Checkpointed => CommitIsCheckpointed
  BY DEF Checkpointed
<1> QED BY <1>3, <1>4, PTL

-----------------------------------------------------------------------------
(* The refinement.                                                         *)

(* COMPLETE is said of an empty frontier, and that of an irredundant AAG.  *)
LEMMA CompleteIsIrredundant ==
  ASSUME Honest, FrontierInv, Begin, status' = "COMPLETE"
  PROVE  Redundant(work) = {}
<1>1. Run /\ pc = "generation" /\ status = "RUNNING"
  BY DEF Honest, TypeInv, Control, Begin
<1>2. CurrentFrontier = {}
  BY <1>1 DEF Begin
<1>3. \A p \in phase : p.about = work => RedundancyRemains({p.frontier}, work)
  BY <1>1 DEF FrontierInv, FrontierKeeps, Ended
<1> QED BY <1>1, <1>2, <1>3, CurrentKeeps

LEMMA NextRemoves ==
  ASSUME Honest, FrontierInv, AAGInv, [Next]_vars
  PROVE  [Removal!Next]_(Removal!vars)
<1>1. Files /\ Control
  BY DEF Honest, TypeInv
<1>2. CASE Launch
  <2>1. RunOf(source, active, extern) /\ UNCHANGED files /\ status' = "RUNNING"
    BY <1>2 DEF Launch, RunOf
  <2>2. work' = RestartPoint /\ RestartPoint' = RestartPoint
    BY <1>1, <2>1, RunBegins, RestartFrame
  <2>3. Removal!Restart
    BY <2>1, <2>2 DEF Removal!Restart
  <2> QED BY <2>3 DEF Removal!Next
<1>3. CASE Transaction /\ Committed
  <2>1. Meaning[work'] = Meaning[work] /\ Gates[work'] < Gates[work]
    BY <1>3, CommitIsSmaller
  <2>2. RestartPoint' = RestartPoint /\ status' = "RUNNING"
    BY <1>1, <1>3, RestartFrame DEF Transaction, Committed, Control
  <2>3. Removal!Commit
    BY <2>1, <2>2 DEF Removal!Commit, MeaningOf, GatesOf
  <2> QED BY <2>3 DEF Removal!Next
<1>4. CASE Save \/ FinalSave \/ CrashInSave
  <2>1. RestartPoint' \in {RestartPoint, work} /\ Gates[work] <= Gates[RestartPoint]
    BY <1>4, SaveMovesOn DEF AAGInv
  <2>2. UNCHANGED <<work, status>>
    BY <1>4 DEF Save, FinalSave, CrashInSave, run
  <2>3. Removal!Keep \/ UNCHANGED Removal!vars
    BY <2>1, <2>2 DEF Removal!Keep, Removal!vars, GatesOf
  <2> QED BY <2>3 DEF Removal!Next
<1>5. CASE Begin
  <2>1. RestartPoint' = RestartPoint /\ UNCHANGED work /\ status = "RUNNING"
    BY <1>1, <1>5, RestartFrame DEF Begin, Control
  <2>2. CASE status' = "COMPLETE"
    <3>1. Redundant(work) = {}
      BY <1>5, <2>2, CompleteIsIrredundant
    <3>2. Removal!Finish
      BY <2>1, <2>2, <3>1 DEF Removal!Finish, Irredundant
    <3> QED BY <3>2 DEF Removal!Next
  <2>3. CASE status' # "COMPLETE"
    BY <2>1, <2>3 DEF Removal!vars
  <2> QED BY <2>2, <2>3
<1>6. CASE Transaction /\ NotCommitted
  <2>1. UNCHANGED <<files, work>> /\ status = "RUNNING" /\ status' # "COMPLETE"
    BY <1>1, <1>6 DEF Transaction, NotCommitted, Control
  <2> QED BY <2>1, RestartFrame DEF Removal!vars
<1>7. CASE OutOfTime \/ OutOfGenerations
  <2>1. UNCHANGED <<files, work>> /\ status = "RUNNING" /\ status' # "COMPLETE"
    BY <1>1, <1>7 DEF OutOfTime, OutOfGenerations, Control
  <2> QED BY <2>1, RestartFrame DEF Removal!vars
<1>8. CASE Wave \/ Rechecked \/ FinalCheck \/ WorkerError \/ Crash \/ UNCHANGED vars
  <2>1. UNCHANGED <<files, work, status>>
    BY <1>8 DEF Wave, Rechecked, Recheck, FinalCheck, WorkerError, Crash, vars, run
  <2> QED BY <2>1, RestartFrame DEF Removal!vars
<1> QED BY <1>2, <1>3, <1>4, <1>5, <1>6, <1>7, <1>8
        DEF Next, Generation, Rechecked, Transaction

(* The runs of run_coordinator, one after another, are a removal of        *)
(* redundancies from the source: commits shrink the AAG within its         *)
(* function, no save and no restart goes back, and COMPLETE is said of an  *)
(* irredundant circuit only.                                               *)
THEOREM CoordinatorRemoves ==
  ASSUME NoStaleStamp
  PROVE  Spec => ImplementsRemoval
<1>1. Init => Removal!Init
  <2> SUFFICES ASSUME Init PROVE Removal!Init
    OBVIOUS
  <2>1. Files
    BY InitTyped DEF TypeInv
  <2>2. \A ck \in active \cup extern : Meaning[ck.work] = Meaning[source]
    BY <2>1, StoreOfRuns DEF Init
  <2>3. Loaded(active, extern) \subseteq active \cup extern
    BY <2>1, StoreOfRuns, LoadedIsBest
  <2>4. Meaning[RestartPoint] = Meaning[source]
    BY <2>2, <2>3 DEF RestartPoint
  <2> QED BY <2>4 DEF Init, Removal!Init, MeaningOf
<1>2. Honest /\ FrontierInv /\ AAGInv /\ [Next]_vars => [Removal!Next]_(Removal!vars)
  BY NextRemoves
<1>3. Spec => Removal!Spec
  BY <1>1, <1>2, Honesty, FrontiersInHand, AAGs, PTL DEF Spec, Removal!Spec
<1> QED BY <1>3 DEF ImplementsRemoval

-----------------------------------------------------------------------------
(* The wave-based campaign.                                                *)

(* Of the campaign and of the files a visit runs on.                       *)
CampaignTyped ==
  /\ target \in Targets \cup {0}
  /\ queue \subseteq Targets \ {target}
  /\ \A t \in Targets : seed[t] \in SeedsOf(TargetSources[t])
  /\ parked \in [Targets -> SUBSET Checkpoints]
  /\ \A t \in Targets : AtMostOne(parked[t]) /\ \A ck \in parked[t] : AtMostOne(ck.resume)
  /\ visited \in [Targets -> BOOLEAN]
  /\ outcome \in [Targets -> {"none", "slice", "exhausted", "complete", "failed"}]
  /\ ended \in {"no", "deadline", "idle", "raised"}
  /\ InProgress => source = TargetSources[target] /\ extern = SeedInPlace(target)

CampaignHonest == Honest /\ CampaignTyped

Visited == During(Generation) \/ During(OutOfTime) \/ During(WorkerError)

-----------------------------------------------------------------------------
(* Targets, seeds and directories.                                         *)

LEMMA TargetsAreNumbered ==
  /\ Targets \subseteq Nat \ {0} /\ 1 \in Targets
  /\ \A t \in Targets : TargetSources[t] \in Sources
<1>1. TargetSources \in Seq(Sources) /\ TargetSources # <<>>
  BY CampaignAssumption
<1>2. PICK n \in Nat : DOMAIN TargetSources = 1 .. n /\ TargetSources \in [1 .. n -> Sources]
  BY <1>1
<1>3. n # 0
  BY <1>1, <1>2
<1> QED BY <1>2, <1>3 DEF Targets

LEMMA SeedsTyped ==
  ASSUME CampaignTyped, NEW t \in Targets
  PROVE  /\ seed[t] \in Checkpoints /\ seed[t] \in Seeds
         /\ AtMostOne(seed[t].resume)
         /\ Meaning[seed[t].work] = Meaning[TargetSources[t]]
         /\ SeedInPlace(t) \in {{}, {seed[t]}}
<1>1. seed[t] \in Seeds /\ Meaning[seed[t].work] = Meaning[TargetSources[t]]
  BY DEF CampaignTyped, SeedsOf
<1>2. seed[t] \in Checkpoints /\ AtMostOne(seed[t].resume)
  BY <1>1, CoordinatorAssumption DEF AtMostOne
<1> QED BY <1>1, <1>2 DEF SeedInPlace

(* A checkpoint directory beside another.                                  *)
Directory(dir) ==
  dir \subseteq Checkpoints /\ AtMostOne(dir) /\ \A ck \in dir : AtMostOne(ck.resume)

LEMMA DirectoriesStore ==
  ASSUME NEW own, NEW other, Directory(own), Directory(other)
  PROVE  Store(own, other)
BY DEF Directory, Store, Checkpoints, Readable

LEMMA Directories ==
  ASSUME TypeInv, CampaignTyped, NEW t \in Targets
  PROVE  /\ Directory(parked[t]) /\ Directory(DirectoryOf(t))
         /\ Directory({seed[t]}) /\ Directory(SeedInPlace(t)) /\ Directory({})
<1>1. Directory(parked[t])
  BY DEF CampaignTyped, Directory
<1>2. Directory(active)
  BY DEF TypeInv, Files, Directory
<1>3. Directory({seed[t]}) /\ Directory({})
  BY SeedsTyped DEF Directory, AtMostOne
<1> QED BY <1>1, <1>2, <1>3, SeedsTyped DEF DirectoryOf

(* A run begins with the best checkpoint it finds, or with the original.   *)
LEMMA RunFinds ==
  ASSUME NEW original \in Sources, NEW own, NEW other, Directory(own), Directory(other),
         RunOf(original, own, other)
  PROVE  /\ Run' /\ Control' /\ WaveHonest'
         /\ pc' = "generation" /\ generation' = 1 /\ status' = "RUNNING"
         /\ \/ Loaded(own, other) = {} /\ work' = original /\ phase' = {}
            \/ \E ck \in Loaded(own, other) : work' = ck.work /\ phase' = Bound(ck)
<1>1. Store(own, other)
  BY DirectoriesStore
<1>2. /\ pc' = "generation" /\ generation' = 1 /\ status' = "RUNNING"
      /\ cands' = {} /\ hist' = Untried /\ committed' = FALSE
      /\ batch' = {} /\ budget' = 0 /\ sat' = {} /\ late' = {} /\ todo' = {} /\ accepted' = {}
  BY DEF RunOf
<1>3. /\ work' \in Works /\ open' \in Nat
      /\ phase' \subseteq [about : Works, frontier : Frontiers] /\ AtMostOne(phase')
  <2>1. CASE phase' = {} /\ open' = 0 /\ work' = original
    BY <2>1, CoordinatorAssumption DEF AtMostOne
  <2>2. ASSUME NEW ck \in Loaded(own, other),
               work' = ck.work, phase' = Bound(ck), open' = ck.open
        PROVE  <1>3!1 /\ <1>3!2
    <3>1. ck \in Checkpoints /\ AtMostOne(ck.resume)
      BY <1>1, LoadedIsBest DEF Directory
    <3> QED BY <2>2, <3>1 DEF Checkpoints, Bound, AtMostOne
  <2> QED BY <2>1, <2>2 DEF RunOf
<1>4. Run'
  BY <1>2, <1>3 DEF Run, Untried
<1>5. Control' /\ WaveHonest'
  BY <1>2, CoordinatorAssumption DEF Control, Ended, WaveHonest
<1> QED BY <1>2, <1>4, <1>5 DEF RunOf

-----------------------------------------------------------------------------
(* The types.                                                              *)

LEMMA VisitedSteps ==
  ASSUME Visited
  PROVE  Next /\ InProgress /\ UNCHANGED <<campaign, source, extern>>
<1>1. Generation \/ OutOfTime \/ WorkerError
  BY DEF Visited, During
<1>2. UNCHANGED <<source, extern>>
  BY <1>1 DEF Generation, OutOfTime, WorkerError, OutOfGenerations, Begin, Wave, Recheck,
              Transaction, Save, FinalCheck, FinalSave, files
<1> QED BY <1>1, <1>2 DEF Visited, During, Next

LEMMA VisitTyped ==
  ASSUME CampaignHonest, Visit
  PROVE  CampaignHonest'
<1>1. TypeInv /\ CampaignTyped /\ Between /\ queue # {}
  BY DEF CampaignHonest, Honest, Visit
<1> DEFINE t == Least(queue)
<1>2. t \in queue /\ t \in Targets
  BY <1>1, TargetsAreNumbered, LeastOfNaturals DEF CampaignTyped
<1>3. /\ source' = TargetSources[t] /\ active' = parked[t] /\ extern' = SeedInPlace(t)
      /\ target' = t /\ queue' = queue \ {t}
      /\ UNCHANGED <<seed, parked, visited, outcome, ended>>
      /\ \/ RunOf(TargetSources[t], {}, {seed[t]})
         \/ RunOf(TargetSources[t], parked[t], SeedInPlace(t))
  BY DEF Visit
<1> HIDE DEF t
<1>4. TargetSources[t] \in Sources /\ Directory(parked[t])
      /\ Directory({seed[t]}) /\ Directory(SeedInPlace(t)) /\ Directory({})
  BY <1>1, <1>2, TargetsAreNumbered, Directories
<1>5. Run' /\ Control' /\ WaveHonest'
  BY <1>3, <1>4, RunFinds
<1>6. SeedInPlace(t) \subseteq SeedsOf(TargetSources[t])
  BY <1>1, <1>2 DEF CampaignTyped, SeedInPlace
<1>7. Files'
  BY <1>3, <1>4, <1>6 DEF Files, Directory, SeedsOf
<1>8. CampaignTyped'
  BY <1>1, <1>2, <1>3 DEF CampaignTyped, InProgress, SeedInPlace
<1> QED BY <1>5, <1>7, <1>8 DEF CampaignHonest, Honest, TypeInv

LEMMA NoVisitTyped ==
  ASSUME NoVisit
  PROVE  TypeInv' /\ WaveHonest'
<1>1. TargetSources[1] \in Sources
  BY TargetsAreNumbered
<1>2. Files'
  BY <1>1 DEF NoVisit, Files, AtMostOne
<1>3. Run'
  BY <1>1, CoordinatorAssumption DEF NoVisit, Run, AtMostOne, Untried
<1>4. Control' /\ WaveHonest'
  BY CoordinatorAssumption DEF NoVisit, Control, Ended, WaveHonest
<1> QED BY <1>2, <1>3, <1>4 DEF TypeInv

LEMMA ReturnTyped ==
  ASSUME CampaignHonest, Return
  PROVE  CampaignHonest'
<1>1. TypeInv /\ CampaignTyped /\ target \in Targets
  BY DEF CampaignHonest, Honest, Return, InProgress, CampaignTyped
<1>2. TypeInv' /\ WaveHonest'
  BY NoVisitTyped DEF Return
<1>3. /\ parked' = [parked EXCEPT ![target] = active]
      /\ visited' = [visited EXCEPT ![target] = TRUE]
      /\ outcome' = [outcome EXCEPT ![target] = OutcomeOf]
      /\ target' = 0 /\ queue' = queue /\ UNCHANGED <<seed, ended>>
  BY DEF Return, NextInRound
<1>4. Directory(active)
  BY <1>1 DEF TypeInv, Files, Directory
<1>5. OutcomeOf \in {"none", "slice", "exhausted", "complete", "failed"}
  BY DEF OutcomeOf
<1>6. 0 \notin Targets
  BY TargetsAreNumbered
<1>7. parked' \in [Targets -> SUBSET Checkpoints]
      /\ \A t \in Targets :
           AtMostOne(parked'[t]) /\ \A ck \in parked'[t] : AtMostOne(ck.resume)
  BY <1>1, <1>3, <1>4 DEF CampaignTyped, Directory
<1>8. CampaignTyped'
  BY <1>1, <1>3, <1>5, <1>6, <1>7 DEF CampaignTyped, InProgress, SeedsOf
<1> QED BY <1>2, <1>8 DEF CampaignHonest, Honest

(* Steps of the campaign between visits, of which no target is aware.      *)
Bookkeeping == NewRound \/ SeedRefused \/ Expire

LEMMA NextCampaignTyped ==
  ASSUME CampaignHonest, [CampaignNext]_campaignVars
  PROVE  CampaignHonest'
<1>1. TypeInv /\ WaveHonest /\ CampaignTyped
  BY DEF CampaignHonest, Honest
<1>2. CASE Visited
  <2>1. Next /\ UNCHANGED <<campaign, source, extern>>
    BY <1>2, VisitedSteps
  <2>2. TypeInv' /\ WaveHonest'
    BY <1>1, <2>1, NextTyped, NextHonest
  <2>3. CampaignTyped'
    BY <1>1, <2>1 DEF CampaignTyped, campaign, InProgress, SeedInPlace, SeedsOf
  <2> QED BY <2>2, <2>3 DEF CampaignHonest, Honest
<1>3. CASE Bookkeeping \/ UNCHANGED campaignVars
  <2>1. UNCHANGED <<vars, target, seed, parked, visited, outcome>>
    BY <1>3 DEF Bookkeeping, NewRound, SeedRefused, Expire, campaignVars, campaign
  <2>2. TypeInv' /\ WaveHonest'
    BY <1>1, <2>1, NextTyped, NextHonest
  <2>3. queue' \subseteq Targets \ {target} /\ ended' \in {"no", "deadline", "idle", "raised"}
    <3>1. 0 \notin Targets
      BY TargetsAreNumbered
    <3> QED BY <1>1, <1>3, <3>1
            DEF Bookkeeping, NewRound, SeedRefused, Expire, campaignVars, campaign,
                CampaignTyped, Between, InProgress
  <2>4. UNCHANGED <<source, extern>>
    BY <2>1 DEF vars, files
  <2>5. CampaignTyped'
    BY <1>1, <2>1, <2>3, <2>4 DEF CampaignTyped, InProgress, SeedInPlace, SeedsOf
  <2> QED BY <2>2, <2>5 DEF CampaignHonest, Honest
<1> QED BY <1>2, <1>3, VisitTyped, ReturnTyped
        DEF CampaignNext, Scheduler, Visited, Bookkeeping

LEMMA InitCampaignTyped == CampaignInit => CampaignHonest
<1> SUFFICES ASSUME CampaignInit PROVE CampaignHonest
  OBVIOUS
<1>1. TypeInv /\ WaveHonest
  BY InitTyped DEF CampaignInit, Init, WaveHonest
<1>2. CampaignTyped
  BY DEF CampaignInit, CampaignTyped, InProgress, AtMostOne
<1> QED BY <1>1, <1>2 DEF CampaignHonest, Honest

LEMMA CampaignHonesty == WaveSpec => []CampaignHonest
<1>1. CampaignHonest /\ [CampaignNext]_campaignVars => CampaignHonest'
  BY NextCampaignTyped
<1> QED BY <1>1, InitCampaignTyped, PTL DEF WaveSpec

(* The variables of run_campaign keep their types, a round visits a target *)
(* at most once, and a visit runs on the files of its own target, whose    *)
(* directory holds one checkpoint, for any targets and slices.             *)
THEOREM CampaignKeepsTypes == WaveSpec => []CampaignTypeOK
<1>1. CampaignHonest => CampaignTypeOK
  <2> SUFFICES ASSUME CampaignHonest PROVE CampaignTypeOK
    OBVIOUS
  <2>1. Cardinality(active) <= 1 /\ Cardinality(phase) <= 1
    BY AtMostOneCounted DEF CampaignHonest, Honest, TypeInv, Files, Run
  <2>2. TypeOK
    BY <2>1 DEF CampaignHonest, Honest, TypeInv, Files, Run, Control, TypeOK
  <2> QED BY <2>2 DEF CampaignHonest, CampaignTyped, CampaignTypeOK
<1> QED BY <1>1, CampaignHonesty, PTL
-----------------------------------------------------------------------------
(* Seeds and saves.                                                        *)

(* A later visit of a target whose seed is not in its directory looks for  *)
(* it no more.  What it finds there is the seed's AAG or a smaller one.    *)
WithinSeed(t, w) == w = seed[t].work \/ Gates[w] < Gates[seed[t].work]

ParkedFits ==
  \A t \in Targets :
    /\ \A ck \in parked[t] :
         /\ Meaning[ck.work] = Meaning[TargetSources[t]]
         /\ SeedInPlace(t) = {} => WithinSeed(t, ck.work)
         /\ RedundancyRemains(ck.resume, ck.about)
         /\ SavesWhole => ck.about = ck.work
    /\ ~visited[t] => parked[t] = {}
    /\ visited[t] /\ Live(t) /\ SeedInPlace(t) = {} => parked[t] # {}

VisitFits ==
  /\ \A t \in queue : Live(t)
  /\ pc = "done" => active \cup extern # {}
  /\ InProgress =>
       /\ Gates[work] <= Gates[StartOf(target)]
       /\ SeedInPlace(target) = {} =>
            WithinSeed(target, work) /\ \A ck \in active : WithinSeed(target, ck.work)

CampaignFits == FrontierInv /\ SameFunction /\ ParkedFits /\ VisitFits

(* What the next visit of a target begins with, were there no more saves.  *)
LEMMA Starts ==
  ASSUME TypeInv, CampaignTyped, NEW t \in Targets
  PROVE  /\ Store(DirectoryOf(t), {seed[t]})
         /\ Loaded(DirectoryOf(t), {seed[t]}) # {}
         /\ \A ck \in Loaded(DirectoryOf(t), {seed[t]}) : StartOf(t) = ck.work
         /\ StartOf(t) \in Works /\ Gates[StartOf(t)] \in Nat
<1> DEFINE found == Loaded(DirectoryOf(t), {seed[t]})
<1>1. Store(DirectoryOf(t), {seed[t]})
  BY Directories, DirectoriesStore
<1>2. found # {} /\ AtMostOne(found) /\ \A ck \in found : ck.work \in Works
  <2>1. \A ck \in DirectoryOf(t) \cup {seed[t]} : ck.work \in Works
    BY <1>1 DEF Store, Readable
  <2>2. /\ AtMostOne(found) /\ found \subseteq DirectoryOf(t) \cup {seed[t]}
        /\ found = {} => {seed[t]} = {}
    BY <1>1, LoadedIsBest
  <2> QED BY <2>1, <2>2
<1>3. (CHOOSE ck \in found : TRUE) \in found
  BY <1>2
<1>4. \A ck \in found : StartOf(t) = ck.work
  BY <1>2, <1>3 DEF StartOf, AtMostOne
<1> QED BY <1>1, <1>2, <1>3, <1>4, WorksAssumption

(* A save leaves what a run would load that still knows the seed, or is    *)
(* what it would load, whether the visit itself knows the seed or not.     *)
LEMMA SavedBesideSeed ==
  ASSUME NEW own, NEW s, Store(own, {s}), NEW new, Readable(new),
         NEW other \in {{}, {s}},
         NEW ck \in Loaded(SavedTo(own, other, new), {s})
  PROVE  ck = new \/ ck \in Loaded(own, {s})
<1>1. CASE Protected(own, other, new)
  BY <1>1 DEF SavedTo
<1>2. CASE ~Protected(own, other, new)
  <2>1. SavedTo(own, other, new) = {new} /\ \A a \in own : ~RankedBefore(a, new)
    BY <1>2 DEF SavedTo, Protected
  <2>2. CASE ck = s /\ RankedBefore(s, new)
    <3>1. ASSUME NEW a \in own
          PROVE  RankedBefore(s, a)
      <4>1. Readable(a) /\ Readable(s)
        BY DEF Store
      <4> QED BY <2>1, <2>2, <4>1, RankOrder
    <3> QED BY <2>2, <3>1 DEF Loaded
  <2> QED BY <2>1, <2>2 DEF Loaded
<1> QED BY <1>1, <1>2

(* Within a visit, AAGs and files are changed by commits and saves only.   *)
LEMMA VisitedMoves ==
  ASSUME Visited
  PROVE  /\ pc \notin Ended
         /\ \/ Transaction /\ Committed /\ UNCHANGED active /\ pc' # "done"
            \/ (Save \/ FinalSave) /\ UNCHANGED <<work, status>>
            \/ UNCHANGED <<active, work>> /\ pc' # "done"
<1>1. CASE During(Save) \/ During(FinalSave)
  BY <1>1 DEF During, Save, FinalSave, Ended, run
<1>2. CASE During(Transaction)
  BY <1>2 DEF During, Transaction, NotCommitted, Ended, files
<1>3. CASE During(OutOfTime \/ OutOfGenerations \/ Begin \/ Wave \/ Rechecked \/ FinalCheck
                  \/ WorkerError)
  BY <1>3 DEF During, OutOfTime, OutOfGenerations, Begin, Wave, Rechecked, Recheck, FinalCheck,
              WorkerError, Ended, run, files
<1> QED BY <1>1, <1>2, <1>3 DEF Visited, During, Generation, Rechecked

LEMMA VisitSaves ==
  ASSUME CampaignHonest, VisitFits, Visited, Save \/ FinalSave
  PROVE  /\ StartOf(target)' \in {StartOf(target), work}
         /\ Gates[work] <= Gates[StartOf(target)]
         /\ \A ck \in active' : ck.work = work \/ ck \in active
         /\ active' \cup extern' # {}
<1>1. TypeInv /\ CampaignTyped /\ InProgress /\ target \in Targets
  BY VisitedSteps DEF CampaignHonest, Honest, CampaignTyped, InProgress
<1>2. UNCHANGED <<target, seed, extern>> /\ active' = SavedTo(active, extern, Saving)
  BY VisitedSteps DEF campaign, Save, FinalSave
<1>3. Readable(Saving) /\ Saving.work = work
  BY <1>1, SavingTyped DEF TypeInv
<1>4. DirectoryOf(target) = active /\ DirectoryOf(target)' = active'
  BY <1>2 DEF DirectoryOf
<1>5. extern \in {{}, {seed[target]}}
  BY <1>1, SeedsTyped DEF CampaignTyped
<1>6. /\ Store(active, {seed[target]})
      /\ \A ck \in Loaded(active, {seed[target]}) : StartOf(target) = ck.work
  BY <1>1, <1>4, Starts
<1>7. \A ck \in Loaded(active', {seed[target]}) : ck.work \in {StartOf(target), work}
  BY <1>2, <1>3, <1>5, <1>6, SavedBesideSeed
<1>8. StartOf(target)' \in {StartOf(target), work}
  <2>1. Loaded(active', {seed[target]}) # {}
    <3>1. Store(active', {seed[target]})
      BY <1>2, <1>3, <1>6 DEF SavedTo, Store, AtMostOne
    <3> QED BY <3>1, LoadedIsBest
  <2>2. (CHOOSE ck \in Loaded(active', {seed[target]}) : TRUE)
          \in Loaded(active', {seed[target]})
    BY <2>1
  <2>3. StartOf(target)' = (CHOOSE ck \in Loaded(active', {seed[target]}) : TRUE).work
    BY <1>2, <1>4 DEF StartOf
  <2> QED BY <1>7, <2>2, <2>3
<1>9. \A ck \in active' : ck.work = work \/ ck \in active
  BY <1>2, <1>3 DEF SavedTo
<1>10. active' \cup extern' # {}
  BY <1>2 DEF SavedTo, Protected
<1> QED BY <1>1, <1>8, <1>9, <1>10 DEF VisitFits

(* What a visit begins with is what a run would begin with that still      *)
(* knows the seed; or that is the seed, and the visit, which no longer     *)
(* knows it, begins with a smaller AAG of its own.                         *)
LEMMA VisitFinds ==
  ASSUME CampaignHonest, ParkedFits, VisitFits, Visit, NEW t, t = Least(queue)
  PROVE  /\ t \in queue /\ t \in Targets /\ target = 0 /\ DirectoryOf(t) = parked[t]
         /\ pc' = "generation" /\ generation' = 1 /\ status' = "RUNNING"
         /\ \E ck \in parked[t] \cup {seed[t]} :
              /\ work' = ck.work /\ phase' = Bound(ck)
              /\ \/ ck.work = StartOf(t)
                 \/ /\ SeedInPlace(t) = {} /\ ck \in parked[t]
                    /\ StartOf(t) = seed[t].work
              /\ SeedInPlace(t) = {} => WithinSeed(t, ck.work)
<1>1. TypeInv /\ CampaignTyped /\ target = 0 /\ queue # {}
  BY DEF CampaignHonest, Honest, Visit, Between, InProgress
<1>2. t \in queue /\ t \in Targets /\ t # 0
  BY <1>1, TargetsAreNumbered, LeastOfNaturals DEF CampaignTyped
<1>3. DirectoryOf(t) = parked[t]
  BY <1>1, <1>2 DEF DirectoryOf
<1> DEFINE found == Loaded(parked[t], {seed[t]})
<1>4. /\ TargetSources[t] \in Sources /\ SeedInPlace(t) \in {{}, {seed[t]}}
      /\ Directory(parked[t]) /\ Directory({seed[t]}) /\ Directory(SeedInPlace(t))
      /\ Directory({})
  BY <1>1, <1>2, TargetsAreNumbered, Directories, SeedsTyped
<1>5. found # {} /\ found \subseteq parked[t] \cup {seed[t]}
      /\ \A ck \in found : StartOf(t) = ck.work
  BY <1>1, <1>2, <1>3, Starts, LoadedIsBest
<1>6. IF ~visited[t] THEN RunOf(TargetSources[t], {}, {seed[t]})
      ELSE RunOf(TargetSources[t], parked[t], SeedInPlace(t))
  BY DEF Visit, BeginsWithSeed
<1>7. pc' = "generation" /\ generation' = 1 /\ status' = "RUNNING"
  BY <1>6 DEF RunOf
<1>8. \A ck \in parked[t] \cup {seed[t]} : SeedInPlace(t) = {} => WithinSeed(t, ck.work)
  BY <1>2 DEF ParkedFits, WithinSeed
<1> DEFINE Begun(ck) ==
      /\ work' = ck.work /\ phase' = Bound(ck)
      /\ \/ ck.work = StartOf(t)
         \/ SeedInPlace(t) = {} /\ ck \in parked[t] /\ StartOf(t) = seed[t].work
<1>9. CASE RunOf(TargetSources[t], parked[t], {seed[t]})
  <2>1. \E ck \in found : work' = ck.work /\ phase' = Bound(ck)
    BY <1>4, <1>5, <1>9, RunFinds
  <2> QED BY <1>1, <1>2, <1>3, <1>5, <1>7, <1>8, <2>1
<1>10. CASE ~visited[t]
  <2>1. parked[t] = {}
    BY <1>2, <1>10 DEF ParkedFits
  <2> QED BY <1>6, <1>9, <1>10, <2>1
<1>11. CASE visited[t] /\ SeedInPlace(t) # {}
  BY <1>4, <1>6, <1>9, <1>11
<1>12. CASE visited[t] /\ SeedInPlace(t) = {}
  <2>1. parked[t] # {}
    BY <1>2, <1>12 DEF ParkedFits, VisitFits
  <2>2. Store(parked[t], {})
    BY <1>4, DirectoriesStore
  <2>3. PICK ck \in parked[t] : work' = ck.work /\ phase' = Bound(ck)
    <3>1. Loaded(parked[t], {}) \subseteq parked[t] /\ Loaded(parked[t], {}) # {}
      BY <2>1, <2>2, LoadedIsBest
    <3> QED BY <1>4, <1>6, <1>12, <3>1, RunFinds
  <2>4. ck.work = StartOf(t) \/ StartOf(t) = seed[t].work
    <3>1. \A other \in parked[t] : other = ck
      BY <1>4 DEF Directory, AtMostOne
    <3> QED BY <1>5, <3>1
  <2> QED BY <1>1, <1>2, <1>3, <1>7, <1>8, <1>12, <2>3, <2>4
<1> QED BY <1>10, <1>11, <1>12

LEMMA VisitKeeps ==
  ASSUME CampaignHonest, CampaignFits, Visit
  PROVE  CampaignFits'
<1>0. PICK t : t = Least(queue)
  OBVIOUS
<1>1. TypeInv /\ CampaignTyped /\ FrontierInv /\ ParkedFits /\ VisitFits
  BY DEF CampaignHonest, Honest, CampaignFits
<1>2. /\ source' = TargetSources[t] /\ active' = parked[t] /\ extern' = SeedInPlace(t)
      /\ target' = t /\ queue' = queue \ {t}
      /\ UNCHANGED <<seed, parked, visited, outcome>>
  BY <1>0 DEF Visit
<1>3. /\ t \in Targets /\ t \in queue /\ target = 0 /\ DirectoryOf(t) = parked[t]
      /\ pc' = "generation" /\ generation' = 1
  BY <1>0, <1>1, VisitFinds
<1>4. PICK ck \in parked[t] \cup {seed[t]} :
        /\ work' = ck.work /\ phase' = Bound(ck)
        /\ \/ ck.work = StartOf(t)
           \/ /\ SeedInPlace(t) = {} /\ ck \in parked[t]
              /\ StartOf(t) = seed[t].work
        /\ SeedInPlace(t) = {} => WithinSeed(t, ck.work)
  BY <1>0, <1>1, VisitFinds
<1>5. /\ seed[t] \in Checkpoints /\ seed[t] \in Seeds
      /\ Meaning[seed[t].work] = Meaning[TargetSources[t]]
  BY <1>1, <1>3, SeedsTyped
<1>6. \A other \in parked[t] :
        /\ Meaning[other.work] = Meaning[TargetSources[t]]
        /\ RedundancyRemains(other.resume, other.about)
        /\ SavesWhole => other.about = other.work
  BY <1>1, <1>3 DEF ParkedFits
<1>7. ck.about = ck.work => RedundancyRemains(ck.resume, ck.work)
  <2>1. CASE ck = seed[t]
    BY <1>5, <2>1, CoordinatorAssumption DEF RedundancyRemains
  <2> QED BY <1>6, <2>1
<1>8. SavesWhole => ck.about = ck.work
  BY <1>5, <1>6 DEF SavesWhole
<1>9. FrontierInv'
  <2>1. \A p \in phase' : p.about = ck.about /\ p.frontier \in ck.resume
    BY <1>4 DEF Bound
  <2>2. \A p \in phase' : p.about = work' => RedundancyRemains({p.frontier}, work')
    BY <1>4, <1>7, <2>1, OneFrontierRemains
  <2>3. FrontierFits'
    BY <1>2, <1>3, <1>4, <1>6, <1>8, <2>1 DEF FrontierFits
  <2>4. FrontierKeeps'
    BY <1>2, <1>3, <1>6, <2>2 DEF FrontierKeeps
  <2> QED BY <2>3, <2>4 DEF FrontierInv
<1>10. SameFunction'
  BY <1>2, <1>4, <1>5, <1>6 DEF SameFunction
<1>11. ParkedFits'
  BY <1>1, <1>2 DEF ParkedFits, Live, SeedInPlace, WithinSeed
<1>12. VisitFits'
  <2>1. StartOf(t)' = StartOf(t)
    BY <1>2, <1>3 DEF StartOf, DirectoryOf
  <2>2. Gates[work'] <= Gates[StartOf(t)]
    <3>1. Gates[StartOf(t)] \in Nat
      BY <1>1, <1>3, Starts
    <3>2. ck.work \in Works
      BY <1>1, <1>3, <1>5 DEF CampaignTyped, Checkpoints
    <3> QED BY <1>4, <3>1, <3>2, WorksAssumption DEF WithinSeed
  <2>3. SeedInPlace(t) = {} => \A other \in parked[t] : WithinSeed(t, other.work)
    BY <1>1, <1>3 DEF ParkedFits
  <2>4. /\ Gates[work'] <= Gates[StartOf(target)']
        /\ SeedInPlace(t)' = {} =>
             WithinSeed(t, work)' /\ \A other \in active' : WithinSeed(t, other.work)'
    BY <1>2, <1>4, <2>1, <2>2, <2>3 DEF SeedInPlace, WithinSeed
  <2>5. \A u \in queue' : Live(u)'
    BY <1>1, <1>2 DEF VisitFits, Live
  <2> QED BY <1>2, <1>3, <2>4, <2>5 DEF VisitFits, InProgress
<1> QED BY <1>9, <1>10, <1>11, <1>12 DEF CampaignFits

(* A visit that leaves its target live has saved, or the seed is in place. *)
LEMMA ReturnKeeps ==
  ASSUME CampaignHonest, CampaignFits, Return
  PROVE  CampaignFits'
<1>1. CampaignTyped /\ FrontierInv /\ SameFunction /\ ParkedFits /\ VisitFits
      /\ target \in Targets
  BY DEF CampaignHonest, Honest, CampaignFits, Return, CampaignTyped, InProgress
<1>2. /\ parked' = [parked EXCEPT ![target] = active]
      /\ visited' = [visited EXCEPT ![target] = TRUE]
      /\ outcome' = [outcome EXCEPT ![target] = OutcomeOf]
      /\ queue' = queue /\ target' = 0 /\ UNCHANGED seed
      /\ NoVisit /\ InProgress
  BY DEF Return, NextInRound
<1>3. source = TargetSources[target] /\ extern = SeedInPlace(target)
  BY <1>1, <1>2 DEF CampaignTyped
<1>4. FrontierInv'
  BY <1>2 DEF NoVisit, FrontierInv, FrontierFits, FrontierKeeps, Ended
<1>5. SameFunction'
  BY <1>2 DEF NoVisit, SameFunction
<1>6. \A ck \in active :
        /\ Meaning[ck.work] = Meaning[TargetSources[target]]
        /\ SeedInPlace(target) = {} => WithinSeed(target, ck.work)
        /\ RedundancyRemains(ck.resume, ck.about)
        /\ SavesWhole => ck.about = ck.work
  BY <1>1, <1>2, <1>3 DEF SameFunction, VisitFits, FrontierInv, FrontierFits, FrontierKeeps
<1>7. OutcomeOf \notin {"complete", "failed"} /\ SeedInPlace(target) = {} => active # {}
  <2>1. OutcomeOf # "failed" => pc = "done"
    BY DEF Return, OutcomeOf
  <2> QED BY <1>1, <1>3, <2>1 DEF VisitFits
<1>8. ParkedFits'
  <2> SUFFICES ASSUME NEW t \in Targets
               PROVE  /\ \A ck \in parked'[t] :
                           /\ Meaning[ck.work] = Meaning[TargetSources[t]]
                           /\ SeedInPlace(t) = {} => WithinSeed(t, ck.work)
                           /\ RedundancyRemains(ck.resume, ck.about)
                           /\ SavesWhole => ck.about = ck.work
                      /\ ~visited'[t] => parked'[t] = {}
                      /\ visited'[t] /\ outcome'[t] \notin {"complete", "failed"}
                           /\ SeedInPlace(t) = {} => parked'[t] # {}
    BY <1>2 DEF ParkedFits, SeedInPlace, WithinSeed, Live
  <2>1. CASE t = target
    <3>1. parked'[t] = active /\ visited'[t] = TRUE /\ outcome'[t] = OutcomeOf
      BY <1>1, <1>2, <2>1 DEF CampaignTyped
    <3> QED BY <1>6, <1>7, <2>1, <3>1
  <2>2. CASE t # target
    <3>1. parked'[t] = parked[t] /\ visited'[t] = visited[t] /\ outcome'[t] = outcome[t]
      BY <1>1, <1>2, <2>2 DEF CampaignTyped
    <3> QED BY <1>1, <3>1 DEF ParkedFits, Live
  <2> QED BY <2>1, <2>2
<1>9. VisitFits'
  <2>1. \A t \in queue : t \in Targets \ {target} /\ Live(t)
    BY <1>1 DEF CampaignTyped, VisitFits
  <2>2. \A t \in queue' : Live(t)'
    BY <1>1, <1>2, <2>1 DEF Live, CampaignTyped
  <2>3. pc' # "done"
    BY <1>2 DEF NoVisit
  <2> QED BY <1>2, <2>2, <2>3 DEF VisitFits, InProgress
<1> QED BY <1>4, <1>5, <1>8, <1>9 DEF CampaignFits

LEMMA VisitedKeeps ==
  ASSUME NoStaleStamp, CampaignHonest, CampaignFits, Visited
  PROVE  CampaignFits'
<1>1. TypeInv /\ Honest /\ CampaignTyped /\ FrontierInv /\ SameFunction /\ ParkedFits /\ VisitFits
  BY DEF CampaignHonest, Honest, CampaignFits
<1>2. Next /\ InProgress /\ UNCHANGED <<campaign, source, extern>>
  BY VisitedSteps
<1>3. target \in Targets
  BY <1>1, <1>2 DEF CampaignTyped, InProgress
<1>4. FrontierInv'
  BY <1>1, <1>2, NextKeeps
<1>5. ParkedFits'
  BY <1>1, <1>2 DEF campaign, ParkedFits, SeedInPlace, WithinSeed, Live
<1>6. /\ Meaning[work'] = Meaning[work]
      /\ \A ck \in active' : ck.work = work \/ ck \in active
      /\ Gates[work'] <= Gates[StartOf(target)']
      /\ SeedInPlace(target) = {} => WithinSeed(target, work')
      /\ pc' = "done" => active' \cup extern' # {}
  <2>1. work \in Works /\ seed[target].work \in Works /\ Gates[StartOf(target)] \in Nat
        /\ Gates[work] \in Nat /\ Gates[seed[target].work] \in Nat
    <3>1. work \in Works /\ seed[target].work \in Works /\ Gates[StartOf(target)] \in Nat
      BY <1>1, <1>3, Starts, SeedsTyped DEF TypeInv, Run, Checkpoints
    <3> QED BY <3>1, WorksAssumption
  <2>2. /\ Gates[work] <= Gates[StartOf(target)]
        /\ SeedInPlace(target) = {} => WithinSeed(target, work)
    BY <1>1, <1>2 DEF VisitFits
  <2>3. UNCHANGED active => StartOf(target)' = StartOf(target)
    BY <1>2 DEF campaign, StartOf, DirectoryOf
  <2>4. CASE Transaction /\ Committed /\ UNCHANGED active /\ pc' # "done"
    <3>1. Meaning[work'] = Meaning[work] /\ Gates[work'] < Gates[work] /\ Gates[work'] \in Nat
      BY <1>1, <2>4, CommitIsSmaller
    <3> QED BY <2>1, <2>2, <2>3, <2>4, <3>1, <1>2 DEF WithinSeed, campaign
  <2>5. CASE (Save \/ FinalSave) /\ UNCHANGED <<work, status>>
    <3>1. /\ StartOf(target)' \in {StartOf(target), work}
          /\ \A ck \in active' : ck.work = work \/ ck \in active
          /\ active' \cup extern' # {}
      BY <1>1, <2>5, VisitSaves
    <3> QED BY <1>2, <2>1, <2>2, <2>5, <3>1 DEF WithinSeed, campaign
  <2>6. CASE UNCHANGED <<active, work>> /\ pc' # "done"
    BY <1>2, <2>2, <2>3, <2>6 DEF WithinSeed, campaign
  <2> QED BY <2>4, <2>5, <2>6, VisitedMoves
<1>7. SameFunction'
  BY <1>1, <1>2, <1>6 DEF SameFunction
<1>8. VisitFits'
  <2>1. \A t \in queue' : Live(t)'
    BY <1>1, <1>2 DEF VisitFits, Live, campaign
  <2>2. SeedInPlace(target) = {} =>
          WithinSeed(target, work) /\ \A ck \in active : WithinSeed(target, ck.work)
    BY <1>1, <1>2 DEF VisitFits
  <2>3. /\ Gates[work'] <= Gates[StartOf(target)']
        /\ SeedInPlace(target)' = {} =>
             WithinSeed(target, work)' /\ \A ck \in active' : WithinSeed(target, ck.work)'
    BY <1>2, <1>6, <2>2 DEF WithinSeed, SeedInPlace, campaign
  <2> QED BY <1>6, <2>1, <2>3 DEF VisitFits
<1> QED BY <1>4, <1>5, <1>7, <1>8 DEF CampaignFits

LEMMA BookkeepingFrame ==
  ASSUME Bookkeeping \/ UNCHANGED campaignVars
  PROVE  UNCHANGED <<vars, target, seed, parked, visited, outcome>>
BY DEF Bookkeeping, NewRound, SeedRefused, Expire, campaignVars, campaign

LEMMA BookkeepingKeeps ==
  ASSUME CampaignFits, Bookkeeping \/ UNCHANGED campaignVars
  PROVE  CampaignFits'
<1>1. UNCHANGED <<source, active, extern, work, phase, cands, generation, pc>>
      /\ UNCHANGED <<target, seed, parked, visited, outcome>>
  BY BookkeepingFrame DEF vars, files, run
<1>2. FrontierInv' /\ SameFunction'
  BY <1>1 DEF CampaignFits, FrontierInv, FrontierFits, FrontierKeeps, SameFunction, Redundant
<1>3. ParkedFits'
  BY <1>1 DEF CampaignFits, ParkedFits, SeedInPlace, WithinSeed, Live
<1>4. \A t \in queue' : Live(t)'
  BY <1>1 DEF CampaignFits, VisitFits, Live, Bookkeeping, NewRound, SeedRefused, Expire,
              campaignVars, campaign
<1>5. StartOf(target)' = StartOf(target)
  BY <1>1 DEF StartOf, DirectoryOf
<1>6. VisitFits'
  BY <1>1, <1>4, <1>5 DEF CampaignFits, VisitFits, InProgress, SeedInPlace, WithinSeed
<1> QED BY <1>2, <1>3, <1>6 DEF CampaignFits

LEMMA CampaignFitting == ASSUME NoStaleStamp PROVE WaveSpec => []CampaignFits
<1>1. CampaignInit => CampaignFits
  <2> SUFFICES ASSUME CampaignInit PROVE CampaignFits
    OBVIOUS
  <2>1. FrontierInv /\ SameFunction
    BY DEF CampaignInit, Init, FrontierInv, FrontierFits, FrontierKeeps, SameFunction, Ended
  <2>2. ParkedFits /\ VisitFits
    BY DEF CampaignInit, Init, ParkedFits, VisitFits, InProgress
  <2> QED BY <2>1, <2>2 DEF CampaignFits
<1>2. CampaignHonest /\ CampaignFits /\ [CampaignNext]_campaignVars => CampaignFits'
  BY VisitKeeps, ReturnKeeps, VisitedKeeps, BookkeepingKeeps
     DEF CampaignNext, Scheduler, Visited, Bookkeeping
<1> QED BY <1>1, <1>2, CampaignHonesty, PTL DEF WaveSpec

-----------------------------------------------------------------------------
(* The refinement.                                                         *)

(* What changes nothing of a target is a stutter of its removal.           *)
LEMMA Elsewhere ==
  ASSUME NEW t \in Targets,
         CircuitOf(t)' = CircuitOf(t), StartOf(t)' = StartOf(t),
         CompletedNow(t)' = CompletedNow(t)
  PROVE  TargetStep(t)
BY DEF TargetStep

LEMMA VisitRemoves ==
  ASSUME CampaignHonest, CampaignFits, Visit, NEW u \in Targets
  PROVE  TargetStep(u)
<1>0. PICK t : t = Least(queue)
  OBVIOUS
<1>1. TypeInv /\ CampaignTyped /\ ParkedFits /\ VisitFits
  BY DEF CampaignHonest, Honest, CampaignFits
<1>2. active' = parked[t] /\ target' = t /\ UNCHANGED <<seed, parked>>
  BY <1>0 DEF Visit
<1>3. t \in Targets /\ target = 0 /\ DirectoryOf(t) = parked[t] /\ status' = "RUNNING"
  BY <1>0, <1>1, VisitFinds
<1>4. 0 \notin Targets
  BY TargetsAreNumbered
<1>5. StartOf(u)' = StartOf(u)
  <2>1. DirectoryOf(u)' = DirectoryOf(u)
    BY <1>2, <1>3, <1>4 DEF DirectoryOf
  <2> QED BY <1>2, <2>1 DEF StartOf
<1>6. CompletedNow(u) = FALSE /\ CompletedNow(u)' = FALSE
  BY <1>2, <1>3, <1>4 DEF CompletedNow
<1>7. CircuitOf(u) = StartOf(u) /\ CircuitOf(u)' = IF u = t THEN work' ELSE StartOf(u)
  BY <1>2, <1>3, <1>4, <1>5 DEF CircuitOf
<1>8. CASE u # t \/ work' = StartOf(u)
  BY <1>5, <1>6, <1>7, <1>8, Elsewhere
<1>9. CASE u = t /\ work' # StartOf(u)
  <2>1. PICK ck \in parked[t] :
          /\ work' = ck.work /\ StartOf(t) = seed[t].work
          /\ SeedInPlace(t) = {} /\ WithinSeed(t, ck.work)
    BY <1>0, <1>1, <1>9, VisitFinds
  <2>2. Meaning[ck.work] = Meaning[seed[t].work]
    BY <1>1, <1>3, SeedsTyped DEF ParkedFits
  <2>3. Gates[work'] < Gates[StartOf(t)]
    BY <1>9, <2>1 DEF WithinSeed
  <2>4. TargetRemoval(u)!Commit
    BY <1>5, <1>6, <1>7, <1>9, <2>1, <2>2, <2>3
       DEF TargetRemoval!Commit, MeaningOf, GatesOf
  <2> QED BY <2>4 DEF TargetStep, TargetRemoval!Next
<1> QED BY <1>8, <1>9

LEMMA ReturnRemoves ==
  ASSUME CampaignHonest, Return, NEW u \in Targets
  PROVE  TargetStep(u)
<1>1. CampaignTyped /\ target \in Targets
  BY DEF CampaignHonest, Return, CampaignTyped, InProgress
<1>2. parked' = [parked EXCEPT ![target] = active] /\ target' = 0 /\ UNCHANGED seed
  BY DEF Return
<1>3. 0 \notin Targets
  BY TargetsAreNumbered
<1>4. StartOf(u)' = StartOf(u)
  <2>1. DirectoryOf(u)' = DirectoryOf(u)
    BY <1>1, <1>2, <1>3 DEF DirectoryOf, CampaignTyped
  <2> QED BY <1>2, <2>1 DEF StartOf
<1>5. CompletedNow(u)' = FALSE /\ CircuitOf(u)' = StartOf(u)
  BY <1>2, <1>3, <1>4 DEF CompletedNow, CircuitOf
<1>6. TargetRemoval(u)!Restart
  BY <1>4, <1>5 DEF TargetRemoval!Restart
<1> QED BY <1>6 DEF TargetStep, TargetRemoval!Next

LEMMA VisitedRemoves ==
  ASSUME CampaignHonest, CampaignFits, Visited, NEW u \in Targets
  PROVE  TargetStep(u)
<1>1. /\ Honest /\ CampaignTyped /\ FrontierInv /\ VisitFits /\ Control
      /\ UNCHANGED <<target, seed, parked>>
  BY VisitedSteps DEF CampaignHonest, Honest, TypeInv, CampaignFits, campaign
<1>2. UNCHANGED active \/ u # target => StartOf(u)' = StartOf(u)
  BY <1>1 DEF StartOf, DirectoryOf
<1>3. CASE u # target
  BY <1>1, <1>2, <1>3, Elsewhere DEF CircuitOf, CompletedNow
<1>4. ASSUME u = target, UNCHANGED <<active, work>>,
             status' = status \/ (status # "COMPLETE" /\ status' # "COMPLETE")
      PROVE  TargetStep(u)
  BY <1>1, <1>2, <1>4, Elsewhere DEF CircuitOf, CompletedNow
<1>5. CASE u = target
  <2>1. CircuitOf(u) = work /\ CircuitOf(u)' = work'
    BY <1>1, <1>5 DEF CircuitOf
  <2>2. CompletedNow(u) = (status = "COMPLETE") /\ CompletedNow(u)' = (status' = "COMPLETE")
    BY <1>1, <1>5 DEF CompletedNow
  <2>3. CASE Transaction /\ Committed
    <3>1. Meaning[work'] = Meaning[work] /\ Gates[work'] < Gates[work]
      BY <1>1, <2>3, CommitIsSmaller
    <3>2. StartOf(u)' = StartOf(u) /\ status' # "COMPLETE"
      BY <1>1, <1>2, <2>3 DEF Transaction, Committed, Control, files
    <3>3. TargetRemoval(u)!Commit
      BY <2>1, <2>2, <3>1, <3>2 DEF TargetRemoval!Commit, MeaningOf, GatesOf
    <3> QED BY <3>3 DEF TargetStep, TargetRemoval!Next
  <2>4. CASE Save \/ FinalSave
    <3>1. /\ StartOf(u)' \in {StartOf(u), work}
          /\ Gates[work] <= Gates[StartOf(u)]
      BY <1>1, <1>5, <2>4, VisitSaves
    <3>2. UNCHANGED <<work, status>>
      BY <2>4 DEF Save, FinalSave, run
    <3>3. CASE StartOf(u)' = StartOf(u)
      BY <2>1, <2>2, <3>2, <3>3, Elsewhere
    <3>4. CASE StartOf(u)' = work
      <4>1. TargetRemoval(u)!Keep
        BY <2>1, <2>2, <3>1, <3>2, <3>4 DEF TargetRemoval!Keep, GatesOf
      <4> QED BY <4>1 DEF TargetStep, TargetRemoval!Next
    <3> QED BY <3>1, <3>3, <3>4
  <2>5. CASE Begin
    <3>1. UNCHANGED <<active, work>> /\ status = "RUNNING"
      BY <1>1, <2>5 DEF Begin, Control, files
    <3>2. CASE status' = "COMPLETE"
      <4>1. Redundant(work) = {}
        BY <1>1, <2>5, <3>2, CompleteIsIrredundant
      <4>2. TargetRemoval(u)!Finish
        BY <1>2, <2>1, <2>2, <3>1, <3>2, <4>1 DEF TargetRemoval!Finish, Irredundant
      <4> QED BY <4>2 DEF TargetStep, TargetRemoval!Next
    <3> QED BY <1>4, <1>5, <3>1, <3>2
  <2>6. CASE (Transaction /\ NotCommitted) \/ OutOfTime \/ OutOfGenerations
    <3>1. UNCHANGED <<active, work>> /\ status # "COMPLETE" /\ status' # "COMPLETE"
      BY <1>1, <2>6 DEF Transaction, NotCommitted, OutOfTime, OutOfGenerations, Control, files
    <3> QED BY <1>4, <1>5, <3>1
  <2>7. CASE Wave \/ Rechecked \/ FinalCheck \/ WorkerError
    <3>1. UNCHANGED <<active, work>> /\ status' = status
      BY <2>7 DEF Wave, Rechecked, Recheck, FinalCheck, WorkerError, files, run
    <3> QED BY <1>4, <1>5, <3>1
  <2> QED BY <2>3, <2>4, <2>5, <2>6, <2>7
          DEF Visited, During, Generation, Rechecked, Transaction
<1> QED BY <1>3, <1>5

LEMMA NextTargets ==
  ASSUME CampaignHonest, CampaignFits, [CampaignNext]_campaignVars, NEW u \in Targets
  PROVE  TargetStep(u)
<1>1. CASE Bookkeeping \/ UNCHANGED campaignVars
  <2>1. UNCHANGED <<target, seed, parked, active, work, status>>
    BY <1>1, BookkeepingFrame DEF vars, files, run
  <2>2. StartOf(u)' = StartOf(u) /\ CircuitOf(u)' = CircuitOf(u)
        /\ CompletedNow(u)' = CompletedNow(u)
    BY <2>1 DEF CircuitOf, CompletedNow, StartOf, DirectoryOf
  <2> QED BY <2>2, Elsewhere
<1> QED BY <1>1, VisitRemoves, ReturnRemoves, VisitedRemoves
        DEF CampaignNext, Scheduler, Visited, Bookkeeping

(* Each target of run_campaign, over all its visits, is a removal of       *)
(* redundancies that never falls back behind its seed or its last save and *)
(* is called complete only when it is irredundant, whatever the other      *)
(* targets and its own slices do; unless a slice ends before it has looked *)
(* at a frontier that does not fit.                                        *)
THEOREM TargetsRemove ==
  ASSUME NoStaleStamp
  PROVE  WaveSpec => TargetsImplementRemoval
<1>1. CampaignInit => \A t \in Targets : TargetRemoval(t)!Init
  <2> SUFFICES ASSUME CampaignInit, NEW t \in Targets
               PROVE  TargetRemoval(t)!Init
    OBVIOUS
  <2>1. target = 0 /\ t # 0
    BY TargetsAreNumbered DEF CampaignInit
  <2>2. CircuitOf(t) = StartOf(t) /\ CompletedNow(t) = FALSE
    BY <2>1 DEF CircuitOf, CompletedNow
  <2> QED BY <2>2 DEF TargetRemoval!Init
<1>2. CampaignHonest /\ CampaignFits /\ [CampaignNext]_campaignVars =>
        \A t \in Targets : TargetStep(t)
  BY NextTargets
<1> QED BY <1>1, <1>2, CampaignHonesty, CampaignFitting, PTL
        DEF WaveSpec, TargetsImplementRemoval
=============================================================================
