----------------------------- MODULE TieredProofs -----------------------------
(***************************************************************************)
(* The sequential engine keeps what it promises for all circuits, orders,  *)
(* budgets, tiers and failures, with no equivalence check at all.  Two     *)
(* claims need an assumption, each with a run that shows why: no tier that *)
(* is on may be followed by one that is off when frontiers are resumed     *)
(* exactly (LostEscalated), and the policy must compare gates first or     *)
(* take the newest checkpoint (CommitNotSaved).                            *)
(***************************************************************************)
EXTENDS TieredEngine, StoreProofs, BudgetLadderProofs

(* The types, with the shapes the actions take apart.                      *)
Directory ==
  /\ active \subseteq EngineCheckpoints /\ AtMostOne(active)
  /\ \A ck \in active : AtMostOne(ck.resume)

(* What a later phase or run may take up.                                  *)
Carried ==
  /\ resume \subseteq Frontiers /\ AtMostOne(resume)
  /\ \A f \in resume : /\ CandidatesOf(f) \subseteq Frontier[work]
                       /\ f.pending \cap f.escalated = {}
  /\ left \subseteq Frontiers /\ AtMostOne(left)

Lists ==
  /\ work \in Works /\ open \in Nat
  /\ given \cup todo \cup later \cup pruned \cup accepted \subseteq Frontier[work]
  /\ todo \subseteq given /\ todo \cap later = {}
  /\ pc = "global" => later \subseteq given
  /\ hist \in [Candidate -> Nat] /\ budget \in Budgets \cup {0}
  /\ streak \in 0 .. MaxStreak /\ (pc # "end" /\ MaxStreak > 0 => streak < MaxStreak)
  /\ exact \in BOOLEAN

Control ==
  /\ phases \in 0 .. MaxPhases
  /\ status \in Stops \cup {"RUNNING", "CHECKPOINTED_AFTER_COMMITS", "COMPLETE",
                            "MAX_PHASES_REACHED"}
  /\ pc \in {"phase", "complete", "end"} \cup AllTiers =>
       status \in {"RUNNING", "CHECKPOINTED_AFTER_COMMITS"}
  /\ pc = "final" => status \in Stops \cup {"COMPLETE", "MAX_PHASES_REACHED"}
  /\ pc \in Ended \cup AllTiers \cup {"phase", "complete", "end", "final"}
  /\ abort \in Stops \cup {"none", "GLOBAL_DISABLED", "GLOBAL_TIMEOUT_STREAK",
                           "REBUILD_COMMIT_LIMIT"}

TypeInv == Directory /\ Carried /\ Lists /\ Control

(* What is accepted is safe as a whole: in the first tier because the      *)
(* gates are constant and different, in the others because each was        *)
(* compared on top of those before.                                        *)
SafeInv ==
  /\ accepted \in Safe[work]
  /\ \A j, k \in accepted : j[1] = k[1] => j = k
  /\ pc = "tfi" => accepted \subseteq Constant[work]
  /\ pc \notin AllTiers \cup {"end"} => accepted = {}

(* A phase that goes on in a lower tier drops what it was given when the   *)
(* next tier is off (LostEscalated).                                       *)
NoTierSkipped ==
  ExactResume => \A t \in LowerTiers \cap Tiers : NextTier[t] \in Tiers \cup {"global"}

(* A frontier is made by a tier that is on, and a global one passes        *)
(* nothing on.                                                             *)
Made(f) ==
  /\ f.engine \in Tiers \cap LowerTiers \/ f.engine = "global"
  /\ f.engine = "global" => f.escalated = {}

MadeHere ==
  /\ \A f \in resume \cup left : Made(f)
  /\ \A ck \in active : \A f \in ck.resume : Made(f)
  /\ exact => ExactResume /\ (pc \in LowerTiers => pc \in Tiers)

(* As long as nothing is accepted, nothing redundant is rejected, and the  *)
(* tier has every redundancy before it or passes it on.                    *)
PhaseCovers ==
  /\ pc \in AllTiers /\ accepted = {} =>
       /\ pruned \cap Redundant(work) = {}
       /\ pc \in Tiers \cup {"global"} => Covers(todo \cup later, work)
       /\ pc \notin Tiers \cup {"global"} => Covers(given, work)
  /\ pc = "phase" => pruned = {}
  /\ pc = "end" /\ accepted = {} /\ abort \notin Stops /\ open = 0 => Redundant(work) = {}
  /\ pc \in {"end", "final", "done"} /\ accepted = {} =>
       \A f \in left : Covers(CandidatesOf(f), work)
  /\ pc \notin {"end", "final", "done"} => left = {}

(* Saved frontiers cover the AAG their JSON part speaks about.             *)
SavedCovers ==
  /\ \A f \in resume : Covers(CandidatesOf(f), work)
  /\ \A ck \in active : \A f \in ck.resume : Covers(CandidatesOf(f), ck.about)

(* A checkpoint that says COMPLETE is of an irredundant AAG; while a run   *)
(* goes on, it is the one the run works on.                                *)
SaidComplete ==
  /\ CompleteIsIrredundant
  /\ \A ck \in active : SaysComplete(ck) =>
       /\ Redundant(ck.work) = {}
       /\ pc \notin Ended => pc \in {"complete", "final"} /\ work = ck.work
  /\ pc = "complete" => open = 0 /\ \E ck \in active : SaysComplete(ck)

CoverInv == MadeHere /\ PhaseCovers /\ SavedCovers /\ SaidComplete

NotBehind == pc \notin Ended => Gates[work] <= Gates[RestartPoint]

Checkpointed ==
  pc \notin {"off", "crashed"} => Gates[RestartPoint] <= Gates[work]
-----------------------------------------------------------------------------
(* Operators of the tiers.                                                 *)

LEMMA FirstIsIn ==
  ASSUME NEW S \in SUBSET Candidate, S # {}
  PROVE  First(S) \in S
<1>1. /\ Rank \in [Candidate -> Nat]
      /\ {Rank[k] : k \in S} \in SUBSET Nat /\ {Rank[k] : k \in S} # {}
  BY EngineAssumption
<1>2. /\ Least({Rank[k] : k \in S}) \in {Rank[k] : k \in S}
      /\ \A y \in {Rank[k] : k \in S} : Least({Rank[k] : k \in S}) <= y
  BY <1>1, LeastOfNaturals
<1>3. PICK k \in S : Rank[k] = Least({Rank[j] : j \in S})
  BY <1>2
<1>4. \A j \in S : Rank[k] <= Rank[j]
  BY <1>2, <1>3
<1> QED BY <1>4 DEF First

LEMMA Counted ==
  ASSUME NEW S \in SUBSET Candidate
  PROVE  Cardinality(S) \in Nat /\ (Cardinality(S) = 0 => S = {})
BY CandidatesAssumption, FS_Subset, FS_CardinalityType, FS_EmptySet

LEMMA LeastBudget ==
  ASSUME NEW b
  PROVE  /\ Least(Budgets) \in Budgets
         /\ Ahead(b) # {} => Least(Ahead(b)) \in Budgets
<1>1. Budgets \in SUBSET Nat /\ Budgets # {} /\ Ahead(b) \in SUBSET Budgets
  BY BudgetsAssumption, EngineAssumption DEF Ahead
<1>2. Least(Budgets) \in Budgets
  BY <1>1, LeastOfNaturals
<1>3. Ahead(b) # {} => Least(Ahead(b)) \in Ahead(b)
  BY <1>1, LeastOfNaturals
<1> QED BY <1>1, <1>2, <1>3

(* Candidates of the work AAG.                                             *)
LEMMA ListsAreCandidates ==
  ASSUME Lists
  PROVE  /\ Frontier[work] \in SUBSET Candidate /\ Redundant(work) \subseteq Frontier[work]
         /\ given \in SUBSET Candidate /\ todo \in SUBSET Candidate
         /\ later \in SUBSET Candidate /\ pruned \in SUBSET Candidate
         /\ accepted \in SUBSET Candidate
BY WorksAssumption DEF Lists

LEMMA OthersWhenNoneAccepted ==
  ASSUME NEW S
  PROVE  OnOthers(S) \subseteq S /\ (accepted = {} => OnOthers(S) = S)
BY DEF OnOthers, Replaced

LEMMA StatesTyped ==
  ASSUME NEW cs \in SUBSET Candidate, NEW h \in [Candidate -> Nat]
  PROVE  /\ GlobalState(cs, h) \in Frontiers
         /\ GlobalState(cs, h).escalated = {} /\ GlobalState(cs, h).engine = "global"
         /\ CandidatesOf(GlobalState(cs, h)) = cs
<1>1. [k \in Candidate |-> IF k \in cs THEN h[k] ELSE 0] \in [Candidate -> Nat]
  OBVIOUS
<1> QED BY <1>1 DEF GlobalState, Frontiers, CandidatesOf

LEMMA TierStatesTyped ==
  ASSUME Lists, pc \in LowerTiers, NEW cs \in SUBSET Candidate
  PROVE  /\ TierState(cs) \in Frontiers /\ TierState(cs).engine = pc
         /\ CandidatesOf(TierState(cs)) = cs \cup later
<1>1. Untried \in [Candidate -> Nat] /\ later \in SUBSET Candidate
  BY ListsAreCandidates DEF Untried
<1> QED BY <1>1 DEF TierState, Frontiers, CandidatesOf

(* What an abort leaves behind.                                            *)
LEMMA AbortedTyped ==
  ASSUME NEW reason, NEW cs \in SUBSET Candidate, NEW state \in Frontiers, NEW keep \in BOOLEAN,
         Aborted(reason, cs, state, keep)
  PROVE  /\ abort' = reason /\ pc' = "end" /\ open' \in Nat
         /\ left' \subseteq {state} /\ left' \subseteq Frontiers /\ AtMostOne(left')
         /\ open' = 0 => cs = {}
<1>1. /\ abort' = reason /\ pc' = "end"
      /\ left' = IF keep THEN {state} ELSE {}
      /\ open' = IF keep THEN Larger(Cardinality(cs), FrontierSize(left'))
                 ELSE Cardinality(cs)
  BY DEF Aborted
<1>2. Cardinality(cs) \in Nat /\ (Cardinality(cs) = 0 => cs = {})
  BY Counted
<1>3. left' \in SUBSET Frontiers
  BY <1>1
<1>4. FrontierSize(left') \in Nat
  BY <1>3, FrontierSizeNat
<1>5. open' \in Nat /\ (open' = 0 => Cardinality(cs) = 0)
  BY <1>1, <1>2, <1>4 DEF Larger
<1> QED BY <1>1, <1>2, <1>3, <1>5 DEF AtMostOne

(* A step inside a phase leaves the directory and what was loaded alone.   *)
LEMMA DirectoryFrame ==
  ASSUME Directory, UNCHANGED active
  PROVE  Directory'
BY DEF Directory

LEMMA CarriedFrame ==
  ASSUME Carried, UNCHANGED <<resume, left, work>>
  PROVE  Carried'
BY DEF Carried

-----------------------------------------------------------------------------
(* The types.                                                              *)

LEMMA InitTyped == Init => TypeInv
<1> SUFFICES ASSUME Init PROVE TypeInv
  OBVIOUS
<1>1. Untried \in [Candidate -> Nat] /\ Source \in Works /\ MaxPhases \in Nat /\ MaxStreak \in Nat
  BY EngineAssumption DEF Untried
<1>2. Directory /\ Carried
  BY DEF Init, Directory, Carried, AtMostOne
<1>3. Lists
  <2>1. 0 \in 0 .. MaxStreak /\ (MaxStreak > 0 => 0 < MaxStreak)
    BY <1>1
  <2>2. {} \cup {} \cup {} \cup {} \cup {} \subseteq Frontier[work]
    OBVIOUS
  <2> QED BY <1>1, <2>1, <2>2 DEF Init, Lists
<1>4. Control
  BY <1>1 DEF Init, Control, Ended, AllTiers, LowerTiers
<1> QED BY <1>2, <1>3, <1>4 DEF TypeInv

(* The lists of a run that has no phase.                                   *)
LEMMA NoPhaseTyped ==
  ASSUME NoPhase, work' \in Works, open' \in Nat
  PROVE  Lists'
<1>1. Untried \in [Candidate -> Nat] /\ MaxStreak \in Nat
  BY EngineAssumption DEF Untried
<1>2. 0 \in 0 .. MaxStreak /\ (MaxStreak > 0 => 0 < MaxStreak)
  BY <1>1
<1>3. {} \cup {} \cup {} \cup {} \cup {} \subseteq Frontier[work']
  OBVIOUS
<1> QED BY <1>1, <1>2, <1>3 DEF NoPhase, Lists

LEMMA LaunchTyped ==
  ASSUME TypeInv, Launch
  PROVE  TypeInv'
<1>1. Directory'
  BY DEF TypeInv, Launch, Directory
<1> DEFINE Fits == \A f \in resume' : /\ CandidatesOf(f) \subseteq Frontier[work']
                                      /\ f.pending \cap f.escalated = {}
<1>2. work' \in Works /\ resume' \subseteq Frontiers /\ AtMostOne(resume') /\ Fits
  <2>1. CASE work' = Source /\ resume' = {}
    BY <2>1, EngineAssumption DEF AtMostOne
  <2>2. ASSUME NEW ck \in active, work' = ck.work,
               resume' = {f \in ck.resume : Resumable(ck.about, ck.work, f)}
        PROVE  work' \in Works /\ resume' \subseteq Frontiers /\ AtMostOne(resume') /\ Fits
    <3>1. ck.work \in Works /\ ck.resume \subseteq Frontiers /\ AtMostOne(ck.resume)
      BY DEF TypeInv, Directory, EngineCheckpoints
    <3> QED BY <2>2, <3>1 DEF AtMostOne, Resumable
  <2> QED BY <2>1, <2>2 DEF Launch
<1>3. Carried'
  BY <1>2 DEF Launch, Carried, AtMostOne
<1>4. Lists'
  BY <1>2, NoPhaseTyped DEF Launch
<1>5. Control'
  BY EngineAssumption DEF Launch, NoPhase, Control, Ended, AllTiers, LowerTiers
<1> QED BY <1>1, <1>3, <1>4, <1>5 DEF TypeInv

LEMMA AlreadyCompleteTyped ==
  ASSUME TypeInv, AlreadyComplete
  PROVE  TypeInv'
<1>1. Directory' /\ Carried'
  BY DirectoryFrame, CarriedFrame DEF TypeInv, AlreadyComplete
<1>2. Lists'
  BY DEF TypeInv, AlreadyComplete, Lists, phase, phaseLists
<1>3. Control'
  BY DEF TypeInv, AlreadyComplete, Control, phase, phaseLists, Ended, AllTiers, LowerTiers
<1> QED BY <1>1, <1>2, <1>3 DEF TypeInv

(* What the global tier is given, or left with when it is off.             *)
LEMMA EnterGlobalTyped ==
  ASSUME NEW cs \in SUBSET Candidate, NEW h \in [Candidate -> Nat], NEW n \in Nat,
         EnterGlobal(cs, h, n), Lists, Control
  PROVE  /\ \/ /\ pc' = "global" /\ given' = cs /\ todo' = cs /\ later' = {}
               /\ hist' = h /\ budget' \in Budgets /\ streak' = 0 /\ UNCHANGED <<open, abort>>
            \/ /\ pc' = "end" /\ open' = n /\ abort' = "GLOBAL_DISABLED"
               /\ UNCHANGED <<given, todo, later, hist, budget, streak>>
         /\ open' \in Nat
BY LeastBudget DEF EnterGlobal, Lists

LEMMA EnterGlobalLists ==
  ASSUME NEW cs \in SUBSET Candidate, NEW h \in [Candidate -> Nat], NEW n \in Nat,
         EnterGlobal(cs, h, n), Lists, Control, pc # "global", pc # "end",
         cs \cup pruned' \subseteq Frontier[work], UNCHANGED <<work, exact, accepted>>
  PROVE  Lists'
<1>1. MaxStreak \in Nat
  BY EngineAssumption
<1>2. CASE /\ pc' = "global" /\ given' = cs /\ todo' = cs /\ later' = {}
           /\ hist' = h /\ budget' \in Budgets /\ streak' = 0 /\ UNCHANGED <<open, abort>>
  BY <1>1, <1>2 DEF Lists
<1>3. CASE /\ pc' = "end" /\ open' = n /\ abort' = "GLOBAL_DISABLED"
           /\ UNCHANGED <<given, todo, later, hist, budget, streak>>
  BY <1>1, <1>3 DEF Lists
<1> QED BY <1>2, <1>3, EnterGlobalTyped

LEMMA BeginPhaseTyped ==
  ASSUME TypeInv, BeginPhase \/ ResumeTier
  PROVE  TypeInv'
<1>1. Directory' /\ Carried'
  BY DirectoryFrame, CarriedFrame DEF TypeInv, BeginPhase, ResumeTier
<1>2. Control'
  <2>1. pc = "phase" /\ pc' \in LowerTiers /\ UNCHANGED <<phases, status, abort>>
    BY DEF BeginPhase, ResumeTier, TierFrontier, LowerTiers
  <2> QED BY <2>1 DEF TypeInv, Control, Ended, AllTiers, LowerTiers
<1>3. CASE BeginPhase
  <2>1. PICK rejected \in Mismatching(Frontier[work]) :
          pruned' = rejected /\ given' = Frontier[work] \ rejected
    BY <1>3 DEF BeginPhase
  <2>2. rejected \subseteq Frontier[work]
    BY DEF Mismatching
  <2>3. Lists'
    BY <1>3, <2>1, <2>2 DEF BeginPhase, TypeInv, Lists
  <2> QED BY <1>1, <1>2, <2>3 DEF TypeInv
<1>4. CASE ResumeTier
  <2>1. PICK f \in TierFrontier :
          given' = f.pending /\ todo' = f.pending /\ later' = f.escalated /\ pc' = f.engine
    BY <1>4 DEF ResumeTier
  <2>2. /\ f.pending \cup f.escalated \subseteq Frontier[work]
        /\ f.pending \cap f.escalated = {} /\ f.engine \in LowerTiers
    BY DEF TierFrontier, TypeInv, Carried, CandidatesOf
  <2>3. pc' # "global" /\ pc' # "end" /\ pc = "phase"
    BY <1>4, <2>1, <2>2 DEF LowerTiers, ResumeTier
  <2>4. Lists'
    BY <1>4, <2>1, <2>2, <2>3 DEF ResumeTier, TypeInv, Lists
  <2> QED BY <1>1, <1>2, <2>4 DEF TypeInv
<1> QED BY <1>3, <1>4

LEMMA ResumeGlobalTyped ==
  ASSUME TypeInv, ResumeGlobal
  PROVE  TypeInv'
<1>1. Directory' /\ Carried'
  BY DirectoryFrame, CarriedFrame DEF TypeInv, ResumeGlobal
<1>0. PICK f \in GlobalFrontier : \E rejected \in Mismatching(f.pending) :
        /\ pruned' = rejected
        /\ EnterGlobal(f.pending \ rejected, f.hist, Cardinality(f.pending \ rejected))
  BY DEF ResumeGlobal
<1>2. PICK rejected \in Mismatching(f.pending) :
        /\ pruned' = rejected
        /\ EnterGlobal(f.pending \ rejected, f.hist, Cardinality(f.pending \ rejected))
  BY <1>0
<1>3. /\ f.pending \in SUBSET Candidate /\ f.pending \subseteq Frontier[work]
      /\ f.hist \in [Candidate -> Nat] /\ rejected \subseteq f.pending
  BY DEF GlobalFrontier, TypeInv, Carried, CandidatesOf, Frontiers, Mismatching
<1>4. Cardinality(f.pending \ rejected) \in Nat
  BY <1>3, Counted
<1>5. pc = "phase" /\ UNCHANGED <<work, exact, accepted, phases, status>> /\ Lists /\ Control
  BY DEF ResumeGlobal, TypeInv
<1>6. Lists'
  BY <1>2, <1>3, <1>4, <1>5, EnterGlobalLists
<1>7. Control'
  <2>1. \/ pc' = "global" /\ UNCHANGED abort
        \/ pc' = "end" /\ abort' = "GLOBAL_DISABLED"
    BY <1>2, <1>3, <1>4, <1>5, EnterGlobalTyped
  <2> QED BY <1>5, <2>1 DEF Control, Ended, AllTiers, LowerTiers
<1> QED BY <1>1, <1>6, <1>7 DEF TypeInv

LEMMA LateForTiersTyped ==
  ASSUME TypeInv, LateForTiers
  PROVE  TypeInv'
<1>1. Directory' /\ Carried'
  BY DirectoryFrame, CarriedFrame DEF TypeInv, LateForTiers
<1>2. PICK rejected :
        open' = Cardinality((IF ExactResume /\ resume # {} THEN UNION {f.pending : f \in resume}
                             ELSE Frontier[work]) \ rejected)
  BY DEF LateForTiers
<1>3. /\ UNION {f.pending : f \in resume} \in SUBSET Candidate
      /\ Frontier[work] \in SUBSET Candidate
  BY ListsAreCandidates DEF TypeInv, Carried, Frontiers
<1>4. open' \in Nat
  BY <1>2, <1>3, Counted
<1>5. Lists'
  BY <1>4 DEF LateForTiers, TypeInv, Lists
<1>6. Control'
  BY DEF LateForTiers, TypeInv, Control, Ended, AllTiers, LowerTiers, Stops
<1> QED BY <1>1, <1>5, <1>6 DEF TypeInv

(* The candidate that is looked at.                                        *)
LEMMA LookedAt ==
  ASSUME TypeInv, todo # {}
  PROVE  /\ First(todo) \in todo /\ First(todo) \in Candidate
         /\ First(todo) \in Frontier[work] /\ First(todo) \in given
         /\ First(todo) \notin later
<1>1. todo \in SUBSET Candidate
  BY ListsAreCandidates DEF TypeInv
<1>2. First(todo) \in todo
  BY <1>1, FirstIsIn
<1> QED BY <1>1, <1>2 DEF TypeInv, Lists

LEMMA LookingAtTier ==
  ASSUME Looking
  PROVE  pc \in AllTiers /\ pc # "end" /\ todo # {} /\ pc \in Tiers \cup {"global"}
BY DEF Looking, AllTiers, LowerTiers

LEMMA MovedTyped ==
  ASSUME TypeInv, PassOver \/ Defer
  PROVE  TypeInv'
<1>1. Looking /\ Lists /\ Control
  BY DEF PassOver, Defer, TypeInv
<1>2. First(todo) \in todo /\ First(todo) \in Frontier[work] /\ First(todo) \in given
  BY <1>1, LookingAtTier, LookedAt
<1>3. Directory' /\ Carried'
  BY DirectoryFrame, CarriedFrame DEF TypeInv, PassOver, Defer
<1>4. Control'
  BY <1>1 DEF PassOver, Defer, Control
<1>5. Lists'
  <2>1. CASE PassOver
    BY <1>1, <2>1 DEF PassOver, Lists
  <2>2. CASE Defer
    BY <1>1, <1>2, <2>2 DEF Defer, Lists
  <2> QED BY <2>1, <2>2
<1> QED BY <1>3, <1>4, <1>5 DEF TypeInv

LEMMA QueryTyped ==
  ASSUME TypeInv, Query
  PROVE  TypeInv'
<1> DEFINE k == First(todo)
<1>1. Looking /\ Lists /\ Control
  BY DEF Query, TypeInv
<1>2. k \in todo /\ k \in Frontier[work] /\ k \in given /\ k \notin later
  BY <1>1, LookingAtTier, LookedAt
<1>3. pc \in AllTiers /\ MaxStreak \in Nat
  BY <1>1, LookingAtTier, EngineAssumption
<1>4. /\ UNCHANGED <<active, work, resume, left, status, phases, exact, given, budget>>
      /\ Accept(k) \/ Reject(k) \/ PassOn(k)
  BY DEF Query
<1> HIDE DEF k
<1>5. Directory' /\ Carried'
  BY <1>4, DirectoryFrame, CarriedFrame DEF TypeInv
<1>6. CASE Accept(k)
  <2>1. /\ accepted' = accepted \cup {k} /\ todo' = todo \ {k} /\ streak' = 0
        /\ UNCHANGED <<later, pruned, hist>>
    BY <1>6 DEF Accept
  <2>2. /\ open' \in Nat
        /\ \/ abort' = abort /\ pc' = pc
           \/ pc' = "end" /\ abort' = "REBUILD_COMMIT_LIMIT"
    <3>1. CASE UNCHANGED <<open, abort, pc>>
      BY <1>1, <3>1 DEF Lists
    <3>2. CASE /\ open' = Cardinality(OnOthers(todo' \cup IF pc = "global" THEN later ELSE {}))
               /\ pc' = "end" /\ abort' = "REBUILD_COMMIT_LIMIT"
      <4>1. OnOthers(todo' \cup IF pc = "global" THEN later ELSE {}) \in SUBSET Candidate
        BY <1>1, <2>1, ListsAreCandidates, OthersWhenNoneAccepted
      <4> QED BY <3>2, <4>1, Counted
    <3> QED BY <1>6, <3>1, <3>2 DEF Accept
  <2>3. Lists'
    BY <1>1, <1>2, <1>3, <1>4, <2>1, <2>2 DEF Lists
  <2>4. Control'
    BY <1>1, <1>3, <1>4, <2>2 DEF Control, Ended, AllTiers, LowerTiers
  <2> QED BY <1>5, <2>3, <2>4 DEF TypeInv
<1>7. CASE Reject(k)
  <2>1. PICK others \in Mismatching(IF pc = "global" THEN todo \cup later ELSE todo) :
          /\ todo' = todo \ (others \cup {k}) /\ later' = later \ others
          /\ pruned' = pruned \cup others \cup {k}
    BY <1>7 DEF Reject
  <2>2. streak' = 0 /\ UNCHANGED <<open, hist, accepted, abort, pc>>
    BY <1>7 DEF Reject
  <2>3. others \subseteq todo \cup later
    BY DEF Mismatching
  <2>4. Lists'
    BY <1>1, <1>2, <1>3, <1>4, <2>1, <2>2, <2>3 DEF Lists
  <2>5. Control'
    BY <1>1, <1>4, <2>2 DEF Control
  <2> QED BY <1>5, <2>4, <2>5 DEF TypeInv
<1>8. CASE PassOn(k)
  <2>1. PICK others \in Mismatching(IF pc = "window" THEN todo \ {k} ELSE {}) :
          /\ todo' = todo \ (others \cup {k}) /\ pruned' = pruned \cup others
    BY <1>8 DEF PassOn
  <2>2. /\ later' = later \cup {k} /\ pc # "global"
        /\ UNCHANGED <<open, hist, streak, accepted, abort, pc>>
    BY <1>8 DEF PassOn
  <2>3. others \subseteq todo
    BY DEF Mismatching
  <2>4. Lists'
    BY <1>1, <1>2, <1>3, <1>4, <2>1, <2>2, <2>3 DEF Lists
  <2>5. Control'
    BY <1>1, <1>4, <2>2 DEF Control
  <2> QED BY <1>5, <2>4, <2>5 DEF TypeInv
<1> QED BY <1>4, <1>6, <1>7, <1>8

(* What is left when a tier or a round is cut short.                       *)
Remaining == OnOthers(todo \cup IF pc = "global" THEN later ELSE {})

Fallback == IF pc = "global" THEN given ELSE OnOthers(given \ pruned)

Cut(reason, rest) ==
  Aborted(reason, rest, IF pc = "global" THEN GlobalState(rest, hist) ELSE TierState(rest),
          pc = "global" \/ accepted = {})

LEMMA RestIsCandidates ==
  ASSUME Lists
  PROVE  /\ Remaining \in SUBSET Candidate /\ Fallback \in SUBSET Candidate
         /\ OnOthers(later) \in SUBSET Candidate
         /\ OnOthers(later) \subseteq later
         /\ OnOthers(todo' \cup later') \subseteq todo' \cup later'
BY ListsAreCandidates DEF Remaining, Fallback, OnOthers

LEMMA CutTyped ==
  ASSUME Lists, Looking, NEW reason, NEW rest \in SUBSET Candidate, Cut(reason, rest)
  PROVE  /\ abort' = reason /\ pc' = "end" /\ open' \in Nat
         /\ left' \subseteq Frontiers /\ AtMostOne(left')
         /\ pc = "global" => left' \subseteq {GlobalState(rest, hist)}
         /\ pc # "global" => pc \in LowerTiers \cap Tiers /\ left' \subseteq {TierState(rest)}
<1> DEFINE state == IF pc = "global" THEN GlobalState(rest, hist) ELSE TierState(rest)
           keep  == pc = "global" \/ accepted = {}
<1>1. pc # "global" => pc \in LowerTiers \cap Tiers
  BY DEF Looking
<1>2. hist \in [Candidate -> Nat]
  BY DEF Lists
<1>3. state \in Frontiers
  BY <1>1, <1>2, StatesTyped, TierStatesTyped
<1>4. keep \in BOOLEAN /\ Aborted(reason, rest, state, keep)
  BY DEF Cut
<1>5. /\ abort' = reason /\ pc' = "end" /\ open' \in Nat
      /\ left' \subseteq {state} /\ left' \subseteq Frontiers /\ AtMostOne(left')
  <2> HIDE DEF state, keep
  <2> QED BY <1>3, <1>4, AbortedTyped
<1> QED BY <1>1, <1>5

LEMMA CutsTyped ==
  ASSUME TypeInv, Deadline \/ Interrupt
  PROVE  TypeInv'
<1>1. Looking /\ Lists /\ Control /\ Carried /\ Directory
  BY DEF TypeInv, Deadline, Interrupt
<1>2. \/ Cut("TIME_BUDGET_CHECKPOINT", Remaining)
      \/ Cut("USER_INTERRUPT_CHECKPOINT", Fallback)
  BY DEF Deadline, Interrupt, Cut, Remaining, Fallback
<1>3. /\ abort' \in Stops /\ pc' = "end" /\ open' \in Nat
      /\ left' \subseteq Frontiers /\ AtMostOne(left')
  <2>1. Remaining \in SUBSET Candidate /\ Fallback \in SUBSET Candidate
    BY <1>1, RestIsCandidates
  <2> QED BY <1>1, <1>2, <2>1, CutTyped DEF Stops
<1>4. UNCHANGED <<active, work, resume, status, phases, exact, given, todo, later, pruned,
                  hist, budget, streak, accepted>>
  BY DEF Deadline, Interrupt, phaseLists
<1>5. Directory' /\ Carried'
  BY <1>1, <1>3, <1>4, DirectoryFrame DEF Carried
<1>6. Lists'
  BY <1>1, <1>3, <1>4 DEF Lists
<1>7. Control'
  BY <1>1, <1>3, <1>4, LookingAtTier DEF Control, Ended, AllTiers, LowerTiers
<1> QED BY <1>5, <1>6, <1>7 DEF TypeInv

(* A timeout remembers the budget and passes the candidate on; a streak of *)
(* them leaves everything that is not decided.                             *)
LEMMA TimeOutMoves ==
  ASSUME TypeInv, TimeOut
  PROVE  /\ pc = "global" /\ Lists
         /\ \E k \in todo : /\ k \in Frontier[work] /\ k \in Candidate /\ k \notin later
                            /\ k \in given
                            /\ todo' = todo \ {k} /\ later' = later \cup {k}
                            /\ hist' = [hist EXCEPT ![k] = Larger(@, budget)]
         /\ hist' \in [Candidate -> Nat]
         /\ \/ UNCHANGED <<left, open, abort, pc>> /\ (MaxStreak = 0 \/ streak' < MaxStreak)
            \/ LET rest == OnOthers(todo' \cup later')
               IN  Aborted("GLOBAL_TIMEOUT_STREAK", rest, GlobalState(rest, hist'), TRUE)
         /\ streak' \in 0 .. MaxStreak
<1> DEFINE k == First(todo)
<1>1. /\ pc = "global" /\ todo # {} /\ Lists
      /\ hist' = Tried(k) /\ todo' = todo \ {k} /\ later' = later \cup {k}
      /\ streak' = IF MaxStreak = 0 THEN 0 ELSE streak + 1
  BY DEF TimeOut, TypeInv
<1>2. k \in todo /\ k \in Candidate /\ k \in Frontier[work] /\ k \in given /\ k \notin later
  BY <1>1, LookedAt
<1>3. budget \in Nat /\ hist \in [Candidate -> Nat]
  BY <1>1, BudgetsAssumption DEF Lists
<1>4. hist' \in [Candidate -> Nat] /\ hist' = [hist EXCEPT ![k] = Larger(@, budget)]
  BY <1>1, <1>2, <1>3 DEF Tried, Larger
<1>5. /\ streak \in Nat /\ MaxStreak \in Nat /\ streak <= MaxStreak
      /\ MaxStreak > 0 => streak < MaxStreak
  BY <1>1, EngineAssumption DEF Lists
<1>6. streak' \in 0 .. MaxStreak
  BY <1>1, <1>5
<1>7. \/ UNCHANGED <<left, open, abort, pc>> /\ (MaxStreak = 0 \/ streak' < MaxStreak)
      \/ LET rest == OnOthers(todo' \cup later')
         IN  Aborted("GLOBAL_TIMEOUT_STREAK", rest, GlobalState(rest, hist'), TRUE)
  <2>1. CASE MaxStreak > 0 /\ streak' >= MaxStreak
    BY <2>1 DEF TimeOut
  <2>2. CASE ~(MaxStreak > 0 /\ streak' >= MaxStreak)
    <3>1. UNCHANGED <<left, open, abort, pc>>
      BY <2>2 DEF TimeOut
    <3>2. MaxStreak = 0 \/ streak' < MaxStreak
      BY <1>1, <1>5, <2>2
    <3> QED BY <3>1, <3>2
  <2> QED BY <2>1, <2>2
<1> QED BY <1>1, <1>2, <1>4, <1>6, <1>7

LEMMA TimeOutTyped ==
  ASSUME TypeInv, TimeOut
  PROVE  TypeInv'
<1>1. Lists /\ Control /\ Carried /\ Directory /\ pc = "global"
  BY TimeOutMoves DEF TypeInv
<1>2. PICK k \in todo :
        /\ k \in Frontier[work] /\ k \notin later /\ k \in given
        /\ todo' = todo \ {k} /\ later' = later \cup {k}
  BY TimeOutMoves
<1>3. hist' \in [Candidate -> Nat] /\ streak' \in 0 .. MaxStreak
  BY TimeOutMoves
<1>4. UNCHANGED <<active, work, resume, status, phases, exact, given, pruned, budget, accepted>>
  BY DEF TimeOut
<1> DEFINE Rest == OnOthers(todo' \cup later')
<1>5. Rest \in SUBSET Candidate
  BY <1>1, <1>2, RestIsCandidates, ListsAreCandidates
<1>6. /\ open' \in Nat /\ left' \subseteq Frontiers /\ AtMostOne(left')
      /\ \/ /\ pc' = "global" /\ abort' = abort
            /\ MaxStreak = 0 \/ streak' < MaxStreak
         \/ pc' = "end" /\ abort' = "GLOBAL_TIMEOUT_STREAK"
  <2>1. CASE UNCHANGED <<left, open, abort, pc>> /\ (MaxStreak = 0 \/ streak' < MaxStreak)
    BY <1>1, <2>1 DEF Lists, Carried
  <2>2. CASE Aborted("GLOBAL_TIMEOUT_STREAK", Rest, GlobalState(Rest, hist'), TRUE)
    <3>1. GlobalState(Rest, hist') \in Frontiers
      BY <1>3, <1>5, StatesTyped
    <3> QED BY <1>5, <2>2, <3>1, AbortedTyped
  <2> QED BY <2>1, <2>2, TimeOutMoves
<1> HIDE DEF Rest
<1>7. Directory' /\ Carried'
  BY <1>1, <1>4, <1>6, DirectoryFrame DEF Carried
<1>8. Lists'
  BY <1>1, <1>2, <1>3, <1>4, <1>6, EngineAssumption DEF Lists
<1>9. Control'
  BY <1>1, <1>4, <1>6 DEF Control, Ended, AllTiers, LowerTiers
<1> QED BY <1>7, <1>8, <1>9 DEF TypeInv

LEMMA LeaveRoundTyped ==
  ASSUME TypeInv, LeaveRound
  PROVE  TypeInv'
<1> DEFINE rest == OnOthers(later)
<1>1. /\ Lists /\ Control /\ Carried /\ Directory /\ pc = "global" /\ todo = {}
      /\ UNCHANGED <<active, work, resume, status, phases, exact, pruned, hist, streak, accepted>>
  BY DEF LeaveRound, TypeInv
<1>2. rest \in SUBSET Candidate /\ rest \subseteq later
  BY <1>1, RestIsCandidates
<1>3. \/ /\ open' = 0 /\ pc' = "end"
         /\ UNCHANGED <<left, given, todo, later, budget, abort>>
      \/ /\ given' = rest /\ todo' = rest /\ later' = {}
         /\ budget' \in Budgets /\ UNCHANGED <<left, open, abort, pc>>
      \/ /\ Aborted("UNRESOLVED_TIMEOUTS", rest, GlobalState(rest, hist), TRUE)
         /\ UNCHANGED <<given, todo, later, budget>>
  <2>1. CASE rest = {}
    BY <2>1 DEF LeaveRound
  <2>2. CASE rest # {} /\ Ahead(budget) # {}
    BY <2>2, LeastBudget DEF LeaveRound
  <2>3. CASE rest # {} /\ Ahead(budget) = {}
    BY <2>3 DEF LeaveRound
  <2> QED BY <2>1, <2>2, <2>3
<1> HIDE DEF rest
<1>4. CASE /\ open' = 0 /\ pc' = "end"
           /\ UNCHANGED <<left, given, todo, later, budget, abort>>
  <2>1. Directory' /\ Carried'
    BY <1>1, <1>4, DirectoryFrame, CarriedFrame
  <2>2. Lists'
    BY <1>1, <1>4 DEF Lists
  <2>3. Control'
    BY <1>1, <1>4 DEF Control, Ended, AllTiers, LowerTiers
  <2> QED BY <2>1, <2>2, <2>3 DEF TypeInv
<1>5. CASE /\ given' = rest /\ todo' = rest /\ later' = {}
           /\ budget' \in Budgets /\ UNCHANGED <<left, open, abort, pc>>
  <2>1. Directory' /\ Carried'
    BY <1>1, <1>5, DirectoryFrame, CarriedFrame
  <2>2. Lists'
    BY <1>1, <1>2, <1>5 DEF Lists
  <2>3. Control'
    BY <1>1, <1>5 DEF Control
  <2> QED BY <2>1, <2>2, <2>3 DEF TypeInv
<1>6. CASE /\ Aborted("UNRESOLVED_TIMEOUTS", rest, GlobalState(rest, hist), TRUE)
           /\ UNCHANGED <<given, todo, later, budget>>
  <2>1. GlobalState(rest, hist) \in Frontiers
    BY <1>1, <1>2, StatesTyped DEF Lists
  <2>2. /\ abort' = "UNRESOLVED_TIMEOUTS" /\ pc' = "end" /\ open' \in Nat
        /\ left' \subseteq Frontiers /\ AtMostOne(left')
    BY <1>2, <1>6, <2>1, AbortedTyped
  <2>3. Directory' /\ Carried'
    BY <1>1, <2>2, DirectoryFrame DEF Carried
  <2>4. Lists'
    BY <1>1, <1>6, <2>2 DEF Lists
  <2>5. Control'
    BY <1>1, <2>2 DEF Control, Ended, AllTiers, LowerTiers, Stops
  <2> QED BY <2>3, <2>4, <2>5 DEF TypeInv
<1> QED BY <1>3, <1>4, <1>5, <1>6

(* The ways out of a lower tier.                                           *)
ToEnd ==
  /\ accepted # {} /\ open' = 0 /\ pc' = "end"
  /\ UNCHANGED <<given, todo, later, hist, budget, streak, abort>>

ToTier ==
  /\ accepted = {} /\ NextTier[pc] # "global"
  /\ given' = Passed \ pruned /\ todo' = given' /\ later' = {}
  /\ pc' = NextTier[pc]
  /\ UNCHANGED <<open, hist, budget, streak, abort>>

ToOldGlobal ==
  /\ accepted = {} /\ NextTier[pc] = "global" /\ ~exact
  /\ \E f \in GlobalFrontier :
       EnterGlobal(f.pending \ pruned, f.hist, Cardinality(Frontier[work] \ pruned))

ToGlobal ==
  /\ accepted = {} /\ NextTier[pc] = "global"
  /\ EnterGlobal(Passed \ pruned, Untried,
                 Cardinality((IF exact THEN Passed ELSE Frontier[work]) \ pruned))

LEMMA WaysOut ==
  ASSUME LeaveTier
  PROVE  /\ pc \in LowerTiers /\ (pc \in Tiers => todo = {})
         /\ UNCHANGED <<active, work, resume, left, status, phases, exact, pruned, accepted>>
         /\ ToEnd \/ ToTier \/ ToOldGlobal \/ ToGlobal
<1>1. /\ pc \in LowerTiers /\ (pc \in Tiers => todo = {})
      /\ UNCHANGED <<active, work, resume, left, status, phases, exact, pruned, accepted>>
  BY DEF LeaveTier
<1>2. CASE accepted # {}
  BY <1>2 DEF LeaveTier, ToEnd
<1>3. CASE accepted = {} /\ NextTier[pc] # "global"
  BY <1>3 DEF LeaveTier, ToTier
<1>4. CASE accepted = {} /\ NextTier[pc] = "global"
  <2>1. CASE GlobalFrontier # {} /\ ~exact
    BY <1>4, <2>1 DEF LeaveTier, ToOldGlobal
  <2>2. CASE ~(GlobalFrontier # {} /\ ~exact)
    BY <1>4, <2>2 DEF LeaveTier, ToGlobal
  <2> QED BY <2>1, <2>2
<1> QED BY <1>1, <1>2, <1>3, <1>4

LEMMA PassedInside ==
  ASSUME Lists
  PROVE  Passed \subseteq Frontier[work] /\ Passed \in SUBSET Candidate
BY ListsAreCandidates DEF Lists, Passed

LEMMA LeaveTierTyped ==
  ASSUME TypeInv, LeaveTier
  PROVE  TypeInv'
<1>1. Lists /\ Control /\ Carried /\ Directory
  BY DEF TypeInv
<1>2. /\ pc \in LowerTiers
      /\ UNCHANGED <<active, work, resume, left, status, phases, exact, pruned, accepted>>
  BY WaysOut
<1>3. Directory' /\ Carried'
  BY <1>1, <1>2, DirectoryFrame, CarriedFrame
<1>4. pc # "global" /\ pc # "end" /\ Passed \subseteq Frontier[work] /\ Passed \in SUBSET Candidate
  BY <1>1, <1>2, PassedInside DEF LowerTiers
<1>5. pruned \subseteq Frontier[work] /\ Frontier[work] \in SUBSET Candidate
  BY <1>1, ListsAreCandidates DEF Lists
<1>6. CASE ToEnd
  <2>1. Lists'
    BY <1>1, <1>2, <1>6 DEF ToEnd, Lists
  <2>2. Control'
    BY <1>1, <1>2, <1>6 DEF ToEnd, Control, Ended, AllTiers, LowerTiers
  <2> QED BY <1>3, <2>1, <2>2 DEF TypeInv
<1>7. CASE ToTier
  <2>1. pc' \in LowerTiers \ {"tfi"}
    BY <1>2, <1>7 DEF ToTier, NextTier, LowerTiers
  <2>2. pc' # "global" /\ pc' # "end"
    BY <2>1 DEF LowerTiers
  <2>3. Lists'
    BY <1>1, <1>2, <1>4, <1>7, <2>2 DEF ToTier, Lists
  <2>4. Control'
    BY <1>1, <1>2, <1>7, <2>1 DEF ToTier, Control, Ended, AllTiers, LowerTiers
  <2> QED BY <1>3, <2>3, <2>4 DEF TypeInv
<1>8. ASSUME NEW cs \in SUBSET Candidate, NEW h \in [Candidate -> Nat], NEW n \in Nat,
             EnterGlobal(cs, h, n), cs \subseteq Frontier[work]
      PROVE  TypeInv'
  <2>1. Lists'
    BY <1>1, <1>2, <1>4, <1>5, <1>8, EnterGlobalLists
  <2>2. \/ pc' = "global" /\ UNCHANGED abort
        \/ pc' = "end" /\ abort' = "GLOBAL_DISABLED"
    BY <1>1, <1>8, EnterGlobalTyped
  <2>3. Control'
    BY <1>1, <1>2, <2>2 DEF Control, Ended, AllTiers, LowerTiers
  <2> QED BY <1>3, <2>1, <2>3 DEF TypeInv
<1>9. CASE ToOldGlobal
  <2>1. PICK f \in GlobalFrontier :
          EnterGlobal(f.pending \ pruned, f.hist, Cardinality(Frontier[work] \ pruned))
    BY <1>9 DEF ToOldGlobal
  <2>2. /\ f.pending \in SUBSET Candidate /\ f.pending \subseteq Frontier[work]
        /\ f.hist \in [Candidate -> Nat]
    BY <1>1 DEF GlobalFrontier, Carried, CandidatesOf, Frontiers
  <2>3. Cardinality(Frontier[work] \ pruned) \in Nat
    BY <1>5, Counted
  <2> QED BY <1>8, <2>1, <2>2, <2>3
<1>10. CASE ToGlobal
  <2>1. Untried \in [Candidate -> Nat]
    BY DEF Untried
  <2>2. Cardinality((IF exact THEN Passed ELSE Frontier[work]) \ pruned) \in Nat
    BY <1>4, <1>5, Counted
  <2> QED BY <1>4, <1>8, <1>10, <2>1, <2>2 DEF ToGlobal
<1> QED BY <1>6, <1>7, <1>9, <1>10, WaysOut

-----------------------------------------------------------------------------
(* Saves and the end of a run.                                             *)

LEMMA StoreOfRuns ==
  ASSUME Directory
  PROVE  /\ Store(active, {}) /\ Loaded(active, {}) = active
         /\ \A ck \in active : ck \in EngineCheckpoints
  <1>1. \A ck \in EngineCheckpoints : Readable(ck)
    BY DEF EngineCheckpoints, Readable
  <1> QED BY <1>1 DEF Directory, Store, AtMostOne, Loaded

SavedStates == Stops \cup {"CHECKPOINTED_AFTER_COMMITS", "COMPLETE", "MAX_PHASES_REACHED"}

LEMMA CheckpointTyped ==
  ASSUME NEW w \in Works, NEW n \in Nat, NEW frontier \in SUBSET Frontiers,
         NEW state \in SavedStates
  PROVE  LET new == Checkpoint(w, n, frontier, state) IN
         /\ new \in EngineCheckpoints /\ Readable(new)
         /\ new.work = w /\ new.about = w /\ new.open = n
         /\ new.resume = frontier /\ new.status = state
BY DEF Checkpoint, EngineCheckpoints, Readable, SavedStates

(* A new directory holds what was saved, or what it held, whole or torn.   *)
LEMMA NewDirectory ==
  ASSUME Directory, NEW new \in EngineCheckpoints, AtMostOne(new.resume), Readable(new)
  PROVE  /\ TearsApart(active, new)
         /\ \A ck \in active : /\ Torn(ck, new) \in EngineCheckpoints
                               /\ Torn(ck, new).status = ck.status
         /\ \A ck \in SavedTo(active, {}, new) : ck = new \/ ck \in active
         /\ \A ck \in TornTo(active, {}, new) :
              \E old \in active : ck = old \/ ck = Torn(old, new)
         /\ active' = SavedTo(active, {}, new) => Directory'
         /\ active' = TornTo(active, {}, new) => Directory'
<1>1. \A ck \in active :
        /\ Torn(ck, new) \in EngineCheckpoints
        /\ Torn(ck, new).work = new.work /\ Torn(ck, new).about = ck.about
        /\ Torn(ck, new).open = ck.open /\ Torn(ck, new).resume = ck.resume
        /\ Torn(ck, new).status = ck.status
  BY DEF Directory, EngineCheckpoints, Torn
<1>2. TearsApart(active, new)
  BY <1>1 DEF TearsApart
<1>3. \A ck \in SavedTo(active, {}, new) : ck = new \/ ck \in active
  BY DEF SavedTo
<1>4. \A ck \in TornTo(active, {}, new) :
        \E old \in active : ck = old \/ ck = Torn(old, new)
  BY DEF TornTo, Torn
<1>5. Store(active, {})
  BY StoreOfRuns
<1>6. ASSUME active' = SavedTo(active, {}, new)
      PROVE  Directory'
  <2>1. Store(active', {})
    BY <1>5, <1>6, SavedStore
  <2> QED BY <1>3, <1>6, <2>1 DEF Directory, Store
<1>7. ASSUME active' = TornTo(active, {}, new)
      PROVE  Directory'
  <2>1. Store(active', {})
    BY <1>2, <1>5, <1>7, TornStore
  <2>2. \A ck \in active' : ck \in EngineCheckpoints /\ AtMostOne(ck.resume)
    BY <1>1, <1>4, <1>7 DEF Directory
  <2> QED BY <2>1, <2>2 DEF Directory, Store
<1> QED BY <1>1, <1>2, <1>3, <1>4, <1>6, <1>7

(* The AAG a phase leads to.                                               *)
LEMMA RewriteIsSmaller ==
  ASSUME Lists, SafeInv, accepted # {}
  PROVE  /\ Rewrite \in Works
         /\ Meaning[Rewrite] = Meaning[work] /\ Gates[Rewrite] < Gates[work]
         /\ Gates[Rewrite] \in Nat /\ Gates[work] \in Nat
<1>1. accepted \in Safe[work] \ {{}} /\ work \in Works
  BY DEF Lists, SafeInv
<1> QED BY <1>1, RestructuredAssumption, WorksAssumption DEF Rewrite

Committing == Checkpoint(Rewrite, open, {}, "CHECKPOINTED_AFTER_COMMITS")

Closing == Checkpoint(work, open, left, status)

LEMMA CommittingTyped ==
  ASSUME TypeInv, SafeInv, accepted # {}
  PROVE  /\ Committing \in EngineCheckpoints /\ Readable(Committing)
         /\ AtMostOne(Committing.resume) /\ Committing.resume = {}
         /\ Committing.work = Rewrite /\ Committing.about = Rewrite
         /\ Committing.status = "CHECKPOINTED_AFTER_COMMITS"
<1>1. Rewrite \in Works /\ open \in Nat /\ {} \in SUBSET Frontiers
  BY RewriteIsSmaller DEF TypeInv, Lists
<1>2. "CHECKPOINTED_AFTER_COMMITS" \in SavedStates
  BY DEF SavedStates
<1>3. AtMostOne({})
  BY DEF AtMostOne
<1> QED BY <1>1, <1>2, <1>3, CheckpointTyped DEF Committing

LEMMA ClosingTyped ==
  ASSUME TypeInv, pc = "final"
  PROVE  /\ Closing \in EngineCheckpoints /\ Readable(Closing)
         /\ AtMostOne(Closing.resume) /\ Closing.resume = left
         /\ Closing.work = work /\ Closing.about = work
         /\ Closing.open = open /\ Closing.status = status
<1>1. work \in Works /\ open \in Nat /\ left \in SUBSET Frontiers /\ AtMostOne(left)
  BY DEF TypeInv, Lists, Carried
<1>2. status \in SavedStates
  BY DEF TypeInv, Control, SavedStates
<1> QED BY <1>1, <1>2, CheckpointTyped DEF Closing

LEMMA EndPhaseMoves ==
  ASSUME Control, EndPhase
  PROVE  /\ pc = "end" /\ resume' = {} /\ NoPhase /\ open' = open
         /\ pc' \in {"phase", "final"}
         /\ \/ /\ accepted # {} /\ work' = Rewrite /\ left' = {}
               /\ active' = SavedTo(active, {}, Committing)
               /\ status' # "COMPLETE"
            \/ /\ accepted = {} /\ UNCHANGED <<work, left, active>>
               /\ pc' = "final"
               /\ status' = "COMPLETE" => abort \notin Stops
<1>1. pc = "end" /\ resume' = {} /\ NoPhase /\ open' = open
  BY DEF EndPhase
<1>2. accepted # {} => status' # "COMPLETE" /\ pc' \in {"phase", "final"}
  <2>1. phases = MaxPhases \/ phases < MaxPhases
    BY EngineAssumption DEF Control
  <2>2. CASE abort \in Stops
    BY <2>2 DEF EndPhase, Stops
  <2>3. CASE abort \notin Stops
    BY <2>1, <2>3 DEF EndPhase
  <2> QED BY <2>2, <2>3
<1>3. accepted = {} => pc' = "final" /\ (status' = "COMPLETE" => abort \notin Stops)
  BY DEF EndPhase, Stops
<1> QED BY <1>1, <1>2, <1>3 DEF EndPhase, Commit, NoCommit, Committing

LEMMA EndPhaseControl ==
  ASSUME Control, EndPhase
  PROVE  Control'
<1>1. /\ phases \in 0 .. MaxPhases /\ MaxPhases \in Nat
      /\ status \in Stops \cup {"RUNNING", "CHECKPOINTED_AFTER_COMMITS", "COMPLETE",
                                "MAX_PHASES_REACHED"}
  BY EngineAssumption DEF Control
<1>2. abort' = "none"
  BY DEF EndPhase, NoPhase
<1>3. \/ /\ pc' = "final" /\ phases' = phases
         /\ status' \in Stops \cup {"COMPLETE", "MAX_PHASES_REACHED"}
      \/ /\ pc' = "phase" /\ status' = "CHECKPOINTED_AFTER_COMMITS"
         /\ phases < MaxPhases /\ phases' = phases + 1
  <2>1. CASE abort \in Stops
    BY <2>1 DEF EndPhase
  <2>2. CASE abort \notin Stops /\ accepted = {}
    BY <2>2 DEF EndPhase
  <2>3. CASE abort \notin Stops /\ accepted # {} /\ phases = MaxPhases
    BY <2>3 DEF EndPhase
  <2>4. CASE abort \notin Stops /\ accepted # {} /\ phases < MaxPhases
    BY <2>4 DEF EndPhase
  <2> QED BY <1>1, <2>1, <2>2, <2>3, <2>4
<1> QED BY <1>1, <1>2, <1>3 DEF Control, Ended, AllTiers, LowerTiers

LEMMA EndPhaseTyped ==
  ASSUME TypeInv, SafeInv, EndPhase
  PROVE  TypeInv'
<1>1. Directory /\ Carried /\ Lists /\ Control
  BY DEF TypeInv
<1>2. Control'
  BY <1>1, EndPhaseControl
<1>3. CASE accepted # {} /\ work' = Rewrite /\ left' = {}
           /\ active' = SavedTo(active, {}, Committing)
  <2>1. Directory'
    BY <1>1, <1>3, CommittingTyped, NewDirectory
  <2>2. work' \in Works /\ open' \in Nat /\ resume' = {} /\ NoPhase
    BY <1>1, <1>3, RewriteIsSmaller, EndPhaseMoves DEF Lists
  <2>3. Carried'
    BY <1>3, <2>2 DEF Carried, AtMostOne
  <2> QED BY <1>2, <2>1, <2>2, <2>3, NoPhaseTyped DEF TypeInv
<1>4. CASE accepted = {} /\ UNCHANGED <<work, left, active>>
  <2>1. work' \in Works /\ open' \in Nat /\ resume' = {} /\ NoPhase
    BY <1>1, <1>4, EndPhaseMoves DEF Lists
  <2>2. Directory' /\ Carried'
    BY <1>1, <1>4, <2>1, DirectoryFrame DEF Carried, AtMostOne
  <2> QED BY <1>2, <2>1, <2>2, NoPhaseTyped DEF TypeInv
<1> QED BY <1>1, <1>3, <1>4, EndPhaseMoves

LEMMA FinalSaveTyped ==
  ASSUME TypeInv, FinalSave
  PROVE  TypeInv'
<1>1. /\ Directory /\ Carried /\ Lists /\ Control /\ pc = "final" /\ pc' = "done"
      /\ active' = SavedTo(active, {}, Closing)
      /\ UNCHANGED <<work, resume, left, open, status, phases, phase>>
  BY DEF TypeInv, FinalSave, Closing
<1>2. Directory' /\ Carried'
  BY <1>1, ClosingTyped, NewDirectory, CarriedFrame
<1>3. Lists'
  BY <1>1 DEF Lists, phase, phaseLists
<1>4. Control'
  BY <1>1 DEF Control, phase, Ended, AllTiers, LowerTiers
<1> QED BY <1>2, <1>3, <1>4 DEF TypeInv

LEMMA CrashTyped ==
  ASSUME TypeInv, SafeInv, Crash \/ CrashInSave
  PROVE  TypeInv'
<1>1. /\ Directory /\ Carried /\ Lists /\ Control /\ NoPhase /\ pc' = "crashed"
      /\ resume' = {} /\ left' = {} /\ UNCHANGED <<open, status, phases>>
  BY DEF TypeInv, Crash, CrashInSave
<1>2. Directory' /\ work' \in Works
  <2>1. CASE Crash
    BY <1>1, <2>1, DirectoryFrame DEF Crash, Lists
  <2>2. CASE accepted # {} /\ work' = Rewrite /\ active' = TornTo(active, {}, Committing)
    BY <1>1, <2>2, CommittingTyped, NewDirectory, RewriteIsSmaller
  <2>3. CASE pc = "final" /\ work' = work /\ active' = TornTo(active, {}, Closing)
    BY <1>1, <2>3, ClosingTyped, NewDirectory DEF Lists
  <2> QED BY <2>1, <2>2, <2>3 DEF CrashInSave, Committing, Closing
<1>3. Carried'
  BY <1>1 DEF Carried, AtMostOne
<1>4. Lists'
  BY <1>1, <1>2, NoPhaseTyped DEF Lists
<1>5. Control'
  BY <1>1 DEF NoPhase, Control, Ended, AllTiers, LowerTiers
<1> QED BY <1>2, <1>3, <1>4, <1>5 DEF TypeInv

LEMMA NextTyped ==
  ASSUME TypeInv, SafeInv, [Next]_vars
  PROVE  TypeInv'
<1>1. CASE UNCHANGED vars
  BY <1>1 DEF vars, phase, phaseLists, TypeInv, Directory, Carried, Lists, Control
<1> QED BY <1>1, LaunchTyped, AlreadyCompleteTyped, BeginPhaseTyped, ResumeGlobalTyped,
           MovedTyped, QueryTyped, TimeOutTyped, LeaveTierTyped, LeaveRoundTyped,
           EndPhaseTyped, FinalSaveTyped, LateForTiersTyped, CutsTyped, CrashTyped
           DEF Next, Working

-----------------------------------------------------------------------------
(* What is accepted.                                                       *)

LEMMA NothingIsSafe ==
  ASSUME work \in Works, accepted = {}
  PROVE  SafeInv
<1>1. {} \in SUBSET Constant[work] /\ {} \in Safe[work]
  BY ConstantAssumption
<1> QED BY <1>1 DEF SafeInv

(* One more on top of a safe set: compared with it, or constant as they    *)
(* are.                                                                    *)
LEMMA AcceptSafe ==
  ASSUME TypeInv, SafeInv, pc \in AllTiers, NEW k \in Candidate, k[1] \notin Replaced, Accept(k),
         UNCHANGED work
  PROVE  SafeInv'
<1>1. /\ Provable(k) /\ accepted' = accepted \cup {k} /\ pc' \in {pc, "end"}
  BY DEF Accept
<1>2. \A j \in accepted : j[1] # k[1]
  BY DEF Replaced
<1>3. \A i, j \in accepted \cup {k} : i[1] = j[1] => i = j
  BY <1>2 DEF SafeInv
<1>4. accepted \cup {k} \in Safe[work] /\ (pc = "tfi" => accepted \cup {k} \subseteq Constant[work])
  <2>1. CASE pc = "tfi"
    <3>1. accepted \cup {k} \in SUBSET Constant[work] /\ work \in Works
      BY <1>1, <2>1 DEF Provable, SafeInv, TypeInv, Lists
    <3> QED BY <1>3, <3>1, ConstantAssumption
  <2>2. CASE pc # "tfi"
    BY <1>1, <2>2 DEF Provable
  <2> QED BY <2>1, <2>2
<1> QED BY <1>1, <1>3, <1>4 DEF SafeInv, AllTiers, LowerTiers

(* A step of a phase that accepts nothing and does not enter the first     *)
(* tier.                                                                   *)
LEMMA SafeFrame ==
  ASSUME SafeInv, UNCHANGED <<work, accepted>>,
         pc' = "tfi" => pc = "tfi", pc' \notin AllTiers \cup {"end"} => accepted = {}
  PROVE  SafeInv'
BY DEF SafeInv

LEMMA NextSafe ==
  ASSUME TypeInv, SafeInv, [Next]_vars
  PROVE  SafeInv'
<1>1. TypeInv'
  BY NextTyped
<1>2. work' \in Works
  BY <1>1 DEF TypeInv, Lists
<1>3. CASE accepted' = {}
  <2>1. {} \in SUBSET Constant[work'] /\ {} \in Safe[work']
    BY <1>2, ConstantAssumption
  <2> QED BY <1>3, <2>1 DEF SafeInv
<1>4. CASE Query
  <2> DEFINE k == First(todo)
  <2>1. /\ Looking /\ k[1] \notin Replaced /\ UNCHANGED work
        /\ Accept(k) \/ Reject(k) \/ PassOn(k)
    BY <1>4 DEF Query
  <2>2. k \in Candidate /\ pc \in AllTiers
    BY <2>1, LookingAtTier, LookedAt
  <2> HIDE DEF k
  <2>3. CASE Accept(k)
    BY <2>1, <2>2, <2>3, AcceptSafe
  <2>4. CASE Reject(k) \/ PassOn(k)
    <3>1. UNCHANGED <<accepted, pc>>
      BY <2>4 DEF Reject, PassOn
    <3> QED BY <2>1, <2>2, <3>1, SafeFrame
  <2> QED BY <2>1, <2>3, <2>4
<1>5. CASE PassOver \/ Defer
  <2>1. UNCHANGED <<accepted, pc, work>> /\ pc \in AllTiers
    BY <1>5, LookingAtTier DEF PassOver, Defer
  <2> QED BY <2>1, SafeFrame
<1>6. CASE TimeOut \/ LeaveRound \/ Deadline \/ Interrupt
  <2>1. UNCHANGED <<accepted, work>>
    BY <1>6 DEF TimeOut, LeaveRound, Deadline, Interrupt, phaseLists
  <2>2. pc' \in {pc, "end"} /\ pc \in AllTiers
    BY <1>6, LookingAtTier
       DEF TimeOut, LeaveRound, Deadline, Interrupt, Aborted, AllTiers
  <2> QED BY <2>1, <2>2, SafeFrame
<1>7. CASE LeaveTier /\ accepted # {}
  <2>1. pc' = "end" /\ UNCHANGED <<accepted, work>>
    BY <1>7 DEF LeaveTier
  <2> QED BY <2>1, SafeFrame
<1>8. CASE UNCHANGED vars
  BY <1>8 DEF vars, phase, phaseLists, SafeInv
<1>9. Launch \/ AlreadyComplete \/ BeginPhase \/ ResumeTier \/ ResumeGlobal
        \/ LateForTiers \/ EndPhase \/ FinalSave \/ Crash \/ CrashInSave
        \/ (LeaveTier /\ accepted = {}) => accepted' = {}
  <2>1. Launch \/ EndPhase \/ Crash \/ CrashInSave => accepted' = {}
    BY DEF Launch, EndPhase, Crash, CrashInSave, NoPhase
  <2>2. pc \in {"complete", "phase", "final"} => accepted = {}
    BY DEF SafeInv, AllTiers, LowerTiers
  <2>3. /\ AlreadyComplete \/ BeginPhase \/ ResumeTier \/ ResumeGlobal \/ LateForTiers
            \/ FinalSave
              => pc \in {"complete", "phase", "final"} /\ accepted' = accepted
        /\ LeaveTier => accepted' = accepted
    BY DEF AlreadyComplete, BeginPhase, ResumeTier, ResumeGlobal, LateForTiers, FinalSave,
           LeaveTier, phase, phaseLists
  <2> QED BY <2>1, <2>2, <2>3
<1> QED BY <1>3, <1>4, <1>5, <1>6, <1>7, <1>8, <1>9 DEF Next, Working

Honest == TypeInv /\ SafeInv

LEMMA Honesty == Spec => []Honest
<1>1. Init => Honest
  <2> SUFFICES ASSUME Init PROVE Honest
    OBVIOUS
  <2>1. TypeInv
    BY InitTyped
  <2>2. work \in Works /\ accepted = {}
    BY <2>1 DEF Init, TypeInv, Lists
  <2> QED BY <2>1, <2>2, NothingIsSafe DEF Honest
<1>2. Honest /\ [Next]_vars => Honest'
  BY NextTyped, NextSafe DEF Honest
<1> QED BY <1>1, <1>2, PTL DEF Spec

(* The variables of solve_circuit keep their types: no candidate is looked *)
(* at and passed on at once, all of them are of the work AAG, and there is *)
(* one checkpoint of the circuit, whatever a crash leaves of a save.       *)
THEOREM EngineTyped == Spec => []TypeOK
<1>1. Honest => TypeOK
  <2> SUFFICES ASSUME Honest PROVE TypeOK
    OBVIOUS
  <2>1. Cardinality(active) <= 1 /\ Cardinality(resume) <= 1 /\ Cardinality(left) <= 1
    BY AtMostOneCounted DEF Honest, TypeInv, Directory, Carried
  <2> QED BY <2>1 DEF Honest, TypeInv, Directory, Carried, Lists, Control, TypeOK
<1> QED BY <1>1, Honesty, PTL

(* What the tiers of solve_circuit accept in a phase keeps the function as *)
(* a whole, for every circuit, order, budget and rebuild limit: no         *)
(* equivalence check is needed after it.                                   *)
THEOREM AcceptedTogether == Spec => []AcceptedIsSafe
<1>1. Honest => AcceptedIsSafe
  BY DEF Honest, SafeInv, AcceptedIsSafe
<1> QED BY <1>1, Honesty, PTL

-----------------------------------------------------------------------------
(* The frontiers.                                                          *)

LEMMA RedundantInside ==
  ASSUME Lists
  PROVE  Redundant(work) \subseteq Frontier[work]
BY ListsAreCandidates

LEMMA MismatchesAreNotRedundant ==
  ASSUME NEW S, NEW rejected \in Mismatching(S)
  PROVE  rejected \subseteq S /\ rejected \cap Redundant(work) = {}
BY DEF Mismatching

(* While a run is in a phase no checkpoint says COMPLETE.                  *)
LEMMA NoneSaysComplete ==
  ASSUME SaidComplete, pc \notin Ended, pc \notin {"complete", "final"}
  PROVE  \A ck \in active : ~SaysComplete(ck)
BY DEF SaidComplete

(* A step inside a phase: only the lists move, or the phase ends.          *)
LEMMA InsidePhase ==
  ASSUME Honest, CoverInv, pc \in {"phase"} \cup AllTiers, pc' \in AllTiers \cup {"end"},
         UNCHANGED <<active, work, resume, status>>,
         \A f \in left' : Made(f),
         exact' => ExactResume /\ (pc' \in LowerTiers => pc' \in Tiers),
         PhaseCovers'
  PROVE  CoverInv'
<1>1. MadeHere'
  BY DEF CoverInv, MadeHere, Made
<1>2. SavedCovers'
  BY DEF CoverInv, SavedCovers, Covers
<1>3. /\ status' \in {"RUNNING", "CHECKPOINTED_AFTER_COMMITS"}
      /\ pc \notin Ended /\ pc \notin {"complete", "final"} /\ pc' # "complete"
  BY DEF Honest, TypeInv, Control, AllTiers, LowerTiers, Ended
<1>4. SaidComplete'
  BY <1>3, NoneSaysComplete DEF CoverInv, SaidComplete, CompleteIsIrredundant, Complete,
                                SaysComplete
<1> QED BY <1>1, <1>2, <1>4 DEF CoverInv

(* A phase that begins.                                                    *)
LEMMA BeginsCovering ==
  ASSUME Honest, CoverInv, BeginPhase \/ ResumeTier \/ LateForTiers
  PROVE  CoverInv'
<1>1. /\ pc = "phase" /\ left' = {} /\ pruned = {} /\ accepted' = {} /\ Lists
      /\ UNCHANGED <<active, work, resume, status>>
  BY DEF BeginPhase, ResumeTier, LateForTiers, CoverInv, PhaseCovers, Honest, SafeInv, TypeInv,
         AllTiers, LowerTiers
<1>2. CASE BeginPhase
  <2>1. PICK rejected \in Mismatching(Frontier[work]) :
          pruned' = rejected /\ given' = Frontier[work] \ rejected
    BY <1>2 DEF BeginPhase
  <2>2. pc' = "tfi" /\ todo' = given' /\ later' = {} /\ exact' = FALSE
    BY <1>2 DEF BeginPhase
  <2>3. Redundant(work) \subseteq given' /\ pruned' \cap Redundant(work) = {}
    BY <1>1, <2>1, RedundantInside, MismatchesAreNotRedundant
  <2>4. PhaseCovers'
    BY <1>1, <2>2, <2>3 DEF PhaseCovers, Covers
  <2> QED BY <1>1, <2>2, <2>4, InsidePhase DEF AllTiers, LowerTiers
<1>3. CASE ResumeTier
  <2>1. PICK f \in TierFrontier :
          given' = f.pending /\ todo' = f.pending /\ later' = f.escalated /\ pc' = f.engine
    BY <1>3 DEF ResumeTier
  <2>2. f \in resume /\ pc' \in LowerTiers \cap Tiers
    BY <2>1 DEF TierFrontier, CoverInv, MadeHere, Made, LowerTiers
  <2>3. Redundant(work) \subseteq todo' \cup later' /\ pruned' = {} /\ ExactResume
    BY <1>1, <1>3, <2>1, <2>2 DEF CoverInv, SavedCovers, Covers, CandidatesOf, ResumeTier
  <2>4. PhaseCovers'
    BY <1>1, <2>2, <2>3 DEF PhaseCovers, Covers, LowerTiers
  <2> QED BY <1>1, <2>2, <2>3, <2>4, InsidePhase DEF AllTiers
<1>4. CASE LateForTiers
  <2>1. pc' = "end" /\ abort' \in Stops /\ exact' = exact
    BY <1>4 DEF LateForTiers, Stops
  <2>2. PhaseCovers'
    BY <1>1, <2>1 DEF PhaseCovers, AllTiers, LowerTiers
  <2>3. exact' => ExactResume
    BY <2>1 DEF CoverInv, MadeHere
  <2> QED BY <1>1, <2>1, <2>2, <2>3, InsidePhase DEF LowerTiers
<1> QED BY <1>2, <1>3, <1>4

(* The global tier is given every redundancy; when it is off and nothing   *)
(* is unresolved, there was none.                                          *)
LEMMA EntersCovering ==
  ASSUME Honest, CoverInv, pc \in {"phase"} \cup LowerTiers,
         UNCHANGED <<active, work, resume, left, status, exact, accepted>>, accepted = {},
         pruned' \cap Redundant(work) = {},
         NEW cs \in SUBSET Candidate, NEW h \in [Candidate -> Nat], NEW S \in SUBSET Candidate,
         EnterGlobal(cs, h, Cardinality(S)),
         Redundant(work) \subseteq cs, S = {} => Redundant(work) = {}
  PROVE  CoverInv'
<1>1. Cardinality(S) \in Nat /\ (Cardinality(S) = 0 => S = {}) /\ Lists /\ Control
  BY Counted DEF Honest, TypeInv
<1>2. left' = {} /\ pc \in {"phase"} \cup AllTiers
  BY DEF CoverInv, PhaseCovers, AllTiers, LowerTiers
<1>3. exact' => ExactResume
  BY DEF CoverInv, MadeHere
<1>4. CASE pc' = "global" /\ todo' = cs /\ later' = {}
  <2>1. PhaseCovers'
    BY <1>2, <1>4 DEF PhaseCovers, Covers
  <2> QED BY <1>2, <1>3, <1>4, <2>1, InsidePhase DEF AllTiers, LowerTiers
<1>5. CASE pc' = "end" /\ open' = Cardinality(S)
  <2>1. PhaseCovers'
    BY <1>1, <1>2, <1>5 DEF PhaseCovers, AllTiers, LowerTiers
  <2> QED BY <1>2, <1>3, <1>5, <2>1, InsidePhase DEF AllTiers, LowerTiers
<1> QED BY <1>1, <1>4, <1>5, EnterGlobalTyped

LEMMA ResumesCovering ==
  ASSUME Honest, CoverInv, ResumeGlobal
  PROVE  CoverInv'
<1>1. PICK f \in GlobalFrontier : \E rejected \in Mismatching(f.pending) :
        /\ pruned' = rejected
        /\ EnterGlobal(f.pending \ rejected, f.hist, Cardinality(f.pending \ rejected))
  BY DEF ResumeGlobal
<1>2. PICK rejected \in Mismatching(f.pending) :
        /\ pruned' = rejected
        /\ EnterGlobal(f.pending \ rejected, f.hist, Cardinality(f.pending \ rejected))
  BY <1>1
<1>3. /\ pc = "phase" /\ UNCHANGED <<active, work, resume, left, status, exact, accepted>>
      /\ accepted = {}
  BY DEF ResumeGlobal, Honest, SafeInv, AllTiers, LowerTiers
<1>4. f \in resume /\ f.engine = "global"
  BY DEF GlobalFrontier
<1>5. f.pending \in SUBSET Candidate /\ f.hist \in [Candidate -> Nat]
  BY <1>4 DEF Honest, TypeInv, Carried, Frontiers
<1>6. Redundant(work) \subseteq f.pending
  BY <1>4 DEF CoverInv, SavedCovers, MadeHere, Made, Covers, CandidatesOf
<1>7. rejected \cap Redundant(work) = {} /\ Redundant(work) \subseteq f.pending \ rejected
  BY <1>6, MismatchesAreNotRedundant
<1>8. f.pending \ rejected \in SUBSET Candidate
  BY <1>5
<1> QED BY <1>2, <1>3, <1>5, <1>7, <1>8, EntersCovering

(* A candidate that is looked at is accepted, not redundant or still there.*)
LEMMA LooksCovering ==
  ASSUME Honest, CoverInv, PassOver \/ Defer \/ Query
  PROVE  CoverInv'
<1> DEFINE k == First(todo)
<1>1. /\ Looking /\ TypeInv /\ UNCHANGED <<active, work, resume, left, status, exact>>
  BY DEF PassOver, Defer, Query, Honest
<1>2. /\ pc \in AllTiers /\ pc \in Tiers \cup {"global"} /\ pc # "end" /\ pc # "phase"
      /\ k \in todo /\ k \in Candidate
  <2>1. pc \in AllTiers /\ pc \in Tiers \cup {"global"} /\ todo # {}
    BY <1>1, LookingAtTier
  <2> QED BY <1>1, <2>1, LookedAt DEF AllTiers, LowerTiers
<1> HIDE DEF k
<1>3. left' = {}
  BY <1>1, <1>2 DEF CoverInv, PhaseCovers, AllTiers, LowerTiers
<1>4. exact => ExactResume /\ (pc \in LowerTiers => pc \in Tiers)
  BY DEF CoverInv, MadeHere
<1>5. ASSUME pc' = pc,
             accepted' = {} => /\ accepted = {} /\ pruned' \cap Redundant(work) = {}
                               /\ Redundant(work) \subseteq todo' \cup later'
      PROVE  CoverInv'
  <2>1. PhaseCovers'
    BY <1>1, <1>2, <1>3, <1>5 DEF PhaseCovers, Covers, AllTiers, LowerTiers
  <2> QED BY <1>1, <1>2, <1>3, <1>4, <1>5, <2>1, InsidePhase
<1>6. accepted = {} => /\ pruned \cap Redundant(work) = {}
                       /\ Redundant(work) \subseteq todo \cup later
  BY <1>2 DEF CoverInv, PhaseCovers, Covers
<1>7. CASE PassOver
  <2>1. accepted # {} /\ UNCHANGED <<pc, accepted>>
    BY <1>7 DEF PassOver, Replaced
  <2> QED BY <1>5, <2>1
<1>8. CASE Defer
  <2>1. /\ UNCHANGED <<pc, accepted, pruned>>
        /\ todo' = todo \ {k} /\ later' = later \cup {k}
    BY <1>8 DEF Defer, k
  <2> QED BY <1>2, <1>5, <1>6, <2>1
<1>9. CASE Query
  <2>1. Accept(k) \/ Reject(k) \/ PassOn(k)
    BY <1>9 DEF Query, k
  <2>2. CASE Accept(k)
    <3>1. accepted' # {} /\ pc' \in {pc, "end"}
      BY <2>2 DEF Accept
    <3>2. PhaseCovers'
      BY <1>2, <1>3, <3>1 DEF PhaseCovers
    <3> QED BY <1>1, <1>2, <1>3, <1>4, <3>1, <3>2, InsidePhase DEF LowerTiers
  <2>3. CASE Reject(k)
    <3>1. PICK others \in Mismatching(IF pc = "global" THEN todo \cup later ELSE todo) :
            /\ todo' = todo \ (others \cup {k}) /\ later' = later \ others
            /\ pruned' = pruned \cup others \cup {k}
      BY <2>3 DEF Reject
    <3>2. UNCHANGED <<pc, accepted>> /\ ~Provable(k) /\ pc # "tfi"
      BY <2>3 DEF Reject, Rejectable
    <3>3. others \cap Redundant(work) = {}
      BY MismatchesAreNotRedundant
    <3>4. accepted = {} => k \notin Redundant(work)
      BY <3>2 DEF Provable, Redundant
    <3> QED BY <1>5, <1>6, <3>1, <3>2, <3>3, <3>4
  <2>4. CASE PassOn(k)
    <3>1. PICK others \in Mismatching(IF pc = "window" THEN todo \ {k} ELSE {}) :
            /\ todo' = todo \ (others \cup {k}) /\ pruned' = pruned \cup others
      BY <2>4 DEF PassOn
    <3>2. UNCHANGED <<pc, accepted>> /\ later' = later \cup {k}
      BY <2>4 DEF PassOn
    <3>3. others \cap Redundant(work) = {}
      BY MismatchesAreNotRedundant
    <3> QED BY <1>5, <1>6, <3>1, <3>2, <3>3
  <2> QED BY <2>1, <2>2, <2>3, <2>4
<1> QED BY <1>7, <1>8, <1>9

(* A tier or round that is cut short saves every redundancy.               *)
LEMMA CutsCovering ==
  ASSUME Honest, CoverInv, Deadline \/ Interrupt
  PROVE  CoverInv'
<1>1. /\ Looking /\ Lists
      /\ UNCHANGED <<active, work, resume, status, exact, accepted, pruned>>
  BY DEF Deadline, Interrupt, phaseLists, Honest, TypeInv
<1>2. PICK rest \in {Remaining, Fallback} :
        \E reason \in Stops : Cut(reason, rest)
  BY DEF Deadline, Interrupt, Cut, Remaining, Fallback, Stops
<1>3. PICK reason \in Stops : Cut(reason, rest)
  BY <1>2
<1>4. rest \in SUBSET Candidate
  BY <1>1, <1>2, RestIsCandidates
<1>5. /\ abort' \in Stops /\ pc' = "end"
      /\ pc = "global" => left' \subseteq {GlobalState(rest, hist)}
      /\ pc # "global" => pc \in LowerTiers \cap Tiers /\ left' \subseteq {TierState(rest)}
  BY <1>1, <1>3, <1>4, CutTyped
<1>6. pc = "global" => /\ CandidatesOf(GlobalState(rest, hist)) = rest
                       /\ Made(GlobalState(rest, hist))
  BY <1>1, <1>4, StatesTyped DEF Lists, Made
<1>7. pc # "global" => /\ CandidatesOf(TierState(rest)) = rest \cup later
                       /\ Made(TierState(rest))
  <2>1. pc # "global" => pc \in LowerTiers \cap Tiers /\ pc # "global"
    BY <1>5
  <2> QED BY <1>1, <1>4, <2>1, TierStatesTyped DEF Made
<1>8. accepted = {} => IF pc = "global" THEN Redundant(work) \subseteq rest
                                        ELSE Redundant(work) \subseteq rest \cup later
  <2> SUFFICES ASSUME accepted = {}
               PROVE  IF pc = "global" THEN Redundant(work) \subseteq rest
                                       ELSE Redundant(work) \subseteq rest \cup later
    OBVIOUS
  <2>1. pruned \cap Redundant(work) = {} /\ Redundant(work) \subseteq todo \cup later
    BY <1>1, LookingAtTier DEF CoverInv, PhaseCovers, Covers
  <2>2. Remaining = todo \cup (IF pc = "global" THEN later ELSE {})
    BY OthersWhenNoneAccepted DEF Remaining
  <2>3. Fallback = IF pc = "global" THEN given ELSE given \ pruned
    BY OthersWhenNoneAccepted DEF Fallback
  <2>4. todo \subseteq given /\ (pc = "global" => later \subseteq given)
    BY <1>1 DEF Lists
  <2> QED BY <1>2, <2>1, <2>2, <2>3, <2>4
<1>9. /\ \A f \in left' : Made(f)
      /\ accepted = {} => \A f \in left' : Redundant(work) \subseteq CandidatesOf(f)
  BY <1>5, <1>6, <1>7, <1>8
<1>10. PhaseCovers'
  BY <1>1, <1>5, <1>9 DEF PhaseCovers, Covers, AllTiers, LowerTiers
<1>11. exact' => ExactResume
  BY <1>1 DEF CoverInv, MadeHere
<1> QED BY <1>1, <1>5, <1>9, <1>10, <1>11, LookingAtTier, InsidePhase DEF LowerTiers

LEMMA TimesOutCovering ==
  ASSUME Honest, CoverInv, TimeOut
  PROVE  CoverInv'
<1>1. /\ pc = "global" /\ Lists /\ TypeInv /\ hist' \in [Candidate -> Nat]
      /\ UNCHANGED <<active, work, resume, status, exact, pruned, accepted>>
  BY TimeOutMoves DEF TimeOut, Honest
<1>2. PICK k \in todo : k \in Candidate /\ todo' = todo \ {k} /\ later' = later \cup {k}
  BY <1>1, TimeOutMoves
<1> DEFINE Rest == OnOthers(todo' \cup later')
<1>3. /\ todo' \cup later' \in SUBSET Candidate /\ Rest \in SUBSET Candidate
      /\ accepted = {} => Rest = todo' \cup later'
  BY <1>1, <1>2, ListsAreCandidates, OthersWhenNoneAccepted
<1>4. accepted = {} => /\ pruned \cap Redundant(work) = {}
                       /\ Redundant(work) \subseteq todo' \cup later'
  BY <1>1, <1>2 DEF CoverInv, PhaseCovers, Covers, AllTiers
<1>5. left = {} /\ (exact' => ExactResume)
  BY <1>1 DEF CoverInv, PhaseCovers, MadeHere
<1>6. CASE UNCHANGED <<left, open, abort, pc>>
  <2>1. PhaseCovers'
    BY <1>1, <1>4, <1>5, <1>6 DEF PhaseCovers, Covers, AllTiers
  <2> QED BY <1>1, <1>5, <1>6, <2>1, InsidePhase DEF AllTiers, LowerTiers
<1>7. CASE Aborted("GLOBAL_TIMEOUT_STREAK", Rest, GlobalState(Rest, hist'), TRUE)
  <2>1. /\ GlobalState(Rest, hist') \in Frontiers /\ Made(GlobalState(Rest, hist'))
        /\ CandidatesOf(GlobalState(Rest, hist')) = Rest
    BY <1>1, <1>3, StatesTyped DEF Made
  <2> HIDE DEF Rest
  <2>2. /\ pc' = "end" /\ left' \subseteq {GlobalState(Rest, hist')}
        /\ open' = 0 => Rest = {}
    BY <1>3, <1>7, <2>1, AbortedTyped
  <2>3. \A f \in left' : Made(f) /\ CandidatesOf(f) = Rest
    BY <2>1, <2>2
  <2>4. PhaseCovers'
    BY <1>1, <1>3, <1>4, <2>2, <2>3 DEF PhaseCovers, Covers, AllTiers, LowerTiers
  <2> QED BY <1>1, <1>5, <2>2, <2>3, <2>4, InsidePhase DEF AllTiers, LowerTiers
<1> QED BY <1>6, <1>7, TimeOutMoves DEF Honest

LEMMA RoundsCovering ==
  ASSUME Honest, CoverInv, LeaveRound
  PROVE  CoverInv'
<1> DEFINE rest == OnOthers(later)
<1>1. /\ pc = "global" /\ todo = {} /\ Lists
      /\ UNCHANGED <<active, work, resume, status, exact, pruned, hist, accepted>>
  BY DEF LeaveRound, Honest, TypeInv
<1>2. rest \in SUBSET Candidate /\ (accepted = {} => rest = later)
  BY <1>1, RestIsCandidates, OthersWhenNoneAccepted
<1>3. accepted = {} => /\ pruned \cap Redundant(work) = {}
                       /\ Redundant(work) \subseteq rest
  BY <1>1, <1>2 DEF CoverInv, PhaseCovers, Covers, AllTiers
<1>4. left = {} /\ (exact' => ExactResume)
  BY <1>1 DEF CoverInv, PhaseCovers, MadeHere
<1>5. CASE rest = {}
  <2>1. pc' = "end" /\ left' = left
    BY <1>5 DEF LeaveRound
  <2>2. PhaseCovers'
    BY <1>1, <1>3, <1>4, <1>5, <2>1 DEF PhaseCovers, AllTiers, LowerTiers
  <2> QED BY <1>1, <1>4, <2>1, <2>2, InsidePhase DEF AllTiers, LowerTiers
<1>6. CASE rest # {} /\ Ahead(budget) # {}
  <2>1. pc' = pc /\ left' = left /\ todo' = rest /\ later' = {}
    BY <1>6 DEF LeaveRound
  <2>2. PhaseCovers'
    BY <1>1, <1>3, <1>4, <2>1 DEF PhaseCovers, Covers, AllTiers
  <2> QED BY <1>1, <1>4, <2>1, <2>2, InsidePhase DEF AllTiers, LowerTiers
<1>7. CASE rest # {} /\ Ahead(budget) = {}
  <2>1. Aborted("UNRESOLVED_TIMEOUTS", rest, GlobalState(rest, hist), TRUE)
    BY <1>7 DEF LeaveRound
  <2>2. /\ GlobalState(rest, hist) \in Frontiers /\ Made(GlobalState(rest, hist))
        /\ CandidatesOf(GlobalState(rest, hist)) = rest
    BY <1>1, <1>2, StatesTyped DEF Made, Lists
  <2> HIDE DEF rest
  <2>3. pc' = "end" /\ abort' \in Stops /\ left' \subseteq {GlobalState(rest, hist)}
    BY <1>2, <2>1, <2>2, AbortedTyped DEF Stops
  <2>4. \A f \in left' : Made(f) /\ CandidatesOf(f) = rest
    BY <2>2, <2>3
  <2>5. PhaseCovers'
    BY <1>1, <1>3, <2>3, <2>4 DEF PhaseCovers, Covers, AllTiers, LowerTiers
  <2> QED BY <1>1, <1>4, <2>3, <2>4, <2>5, InsidePhase DEF AllTiers, LowerTiers
<1> QED BY <1>5, <1>6, <1>7

(* From tier to tier nothing redundant is lost, unless a phase that goes   *)
(* on in a lower tier meets one that is off.                               *)
LEMMA TiersCovering ==
  ASSUME NoTierSkipped, Honest, CoverInv, LeaveTier
  PROVE  CoverInv'
<1>1. /\ pc \in LowerTiers /\ (pc \in Tiers => todo = {}) /\ Lists
      /\ UNCHANGED <<active, work, resume, left, status, exact, pruned, accepted>>
  BY WaysOut DEF Honest, TypeInv
<1>2. /\ left' = {} /\ pc \in AllTiers /\ pc # "global"
      /\ exact => ExactResume /\ pc \in Tiers
  BY <1>1 DEF CoverInv, PhaseCovers, MadeHere, AllTiers, LowerTiers
<1>3. accepted = {} => /\ pruned \cap Redundant(work) = {}
                       /\ Redundant(work) \subseteq Passed \ pruned
  <2> SUFFICES ASSUME accepted = {}
               PROVE  /\ pruned \cap Redundant(work) = {}
                      /\ Redundant(work) \subseteq Passed \ pruned
    OBVIOUS
  <2>1. /\ pruned \cap Redundant(work) = {}
        /\ pc \in Tiers => Redundant(work) \subseteq later
        /\ pc \notin Tiers => Redundant(work) \subseteq given
    BY <1>1, <1>2 DEF CoverInv, PhaseCovers, Covers
  <2> QED BY <1>2, <2>1 DEF Passed
<1>4. Passed \in SUBSET Candidate /\ Frontier[work] \in SUBSET Candidate
      /\ Redundant(work) \subseteq Frontier[work]
  BY <1>1, PassedInside, ListsAreCandidates
<1>5. CASE ToEnd
  <2>1. accepted # {} /\ pc' = "end"
    BY <1>5 DEF ToEnd
  <2>2. PhaseCovers'
    BY <1>1, <1>2, <2>1 DEF PhaseCovers, AllTiers, LowerTiers
  <2> QED BY <1>1, <1>2, <2>1, <2>2, InsidePhase DEF LowerTiers
<1>6. CASE ToTier
  <2>1. /\ accepted = {} /\ pc' = NextTier[pc] /\ pc' # "global"
        /\ given' = Passed \ pruned /\ todo' = given' /\ later' = {}
    BY <1>6 DEF ToTier
  <2>2. pc' \in LowerTiers
    BY <1>1, <2>1 DEF NextTier, LowerTiers
  <2>3. exact => pc' \in Tiers
    BY <1>1, <1>2, <2>1 DEF NoTierSkipped
  <2>4. PhaseCovers'
    BY <1>1, <1>2, <1>3, <2>1, <2>2 DEF PhaseCovers, Covers, AllTiers, LowerTiers
  <2> QED BY <1>1, <1>2, <2>2, <2>3, <2>4, InsidePhase DEF AllTiers
<1>7. CASE ToOldGlobal
  <2>1. PICK f \in GlobalFrontier :
          EnterGlobal(f.pending \ pruned, f.hist, Cardinality(Frontier[work] \ pruned))
    BY <1>7 DEF ToOldGlobal
  <2>2. accepted = {} /\ f \in resume /\ f.engine = "global"
    BY <1>7 DEF ToOldGlobal, GlobalFrontier
  <2>3. f.pending \in SUBSET Candidate /\ f.hist \in [Candidate -> Nat]
    BY <2>2 DEF Honest, TypeInv, Carried, Frontiers
  <2>4. Redundant(work) \subseteq f.pending
    BY <2>2 DEF CoverInv, SavedCovers, MadeHere, Made, Covers, CandidatesOf
  <2>5. /\ Redundant(work) \subseteq f.pending \ pruned
        /\ Frontier[work] \ pruned = {} => Redundant(work) = {}
    BY <1>3, <1>4, <2>2, <2>4
  <2> QED BY <1>1, <1>3, <1>4, <2>1, <2>2, <2>3, <2>5, EntersCovering
<1>8. CASE ToGlobal
  <2> DEFINE S == (IF exact THEN Passed ELSE Frontier[work]) \ pruned
  <2>1. accepted = {} /\ EnterGlobal(Passed \ pruned, Untried, Cardinality(S))
    BY <1>8 DEF ToGlobal
  <2>2. Untried \in [Candidate -> Nat] /\ S \in SUBSET Candidate
    BY <1>4 DEF Untried
  <2>3. S = {} => Redundant(work) = {}
    BY <1>3, <1>4, <2>1
  <2> HIDE DEF S
  <2> QED BY <1>1, <1>3, <1>4, <2>1, <2>2, <2>3, EntersCovering
<1> QED BY <1>5, <1>6, <1>7, <1>8, WaysOut

(* Outside the phases: a frontier that is loaded and saved is covering.    *)
LEMMA LaunchCovering ==
  ASSUME Honest, CoverInv, Launch
  PROVE  CoverInv'
<1>1. /\ left' = {} /\ exact' = FALSE /\ pruned' = {} /\ open' = 0 /\ status' = "RUNNING"
      /\ pc' \in {"phase", "complete"} /\ active' = active
  BY DEF Launch, NoPhase
<1>2. PhaseCovers'
  BY <1>1 DEF PhaseCovers, AllTiers, LowerTiers
<1>3. CASE active = {} /\ work' = Source /\ resume' = {} /\ pc' = "phase"
  BY <1>1, <1>2, <1>3 DEF CoverInv, MadeHere, SavedCovers, SaidComplete,
                          CompleteIsIrredundant, Complete
<1>4. ASSUME NEW ck \in active, work' = ck.work,
             resume' = {f \in ck.resume : Resumable(ck.about, ck.work, f)},
             pc' = IF SaysComplete(ck) THEN "complete" ELSE "phase"
      PROVE  CoverInv'
  <2>1. \A other \in active : other = ck
    BY DEF Honest, TypeInv, Directory, AtMostOne
  <2>2. MadeHere'
    BY <1>1, <1>4 DEF CoverInv, MadeHere, Made
  <2>3. \A f \in resume' : f \in ck.resume /\ ck.about = ck.work
    BY <1>4 DEF Resumable
  <2>4. SavedCovers'
    BY <1>1, <1>4, <2>3 DEF CoverInv, SavedCovers
  <2>5. SaidComplete'
    BY <1>1, <1>4, <2>1 DEF CoverInv, SaidComplete, CompleteIsIrredundant, Complete,
                            SaysComplete
  <2> QED BY <1>2, <2>2, <2>4, <2>5 DEF CoverInv
<1> QED BY <1>3, <1>4 DEF Launch

LEMMA AlreadyCompleteCovering ==
  ASSUME Honest, CoverInv, AlreadyComplete
  PROVE  CoverInv'
<1>1. /\ pc = "complete" /\ pc' = "final" /\ status' = "COMPLETE"
      /\ UNCHANGED <<active, work, resume, left, open, exact, accepted>>
  BY DEF AlreadyComplete, phase, phaseLists
<1>2. PICK ck \in active : SaysComplete(ck) /\ Redundant(ck.work) = {} /\ work = ck.work
  BY <1>1 DEF CoverInv, SaidComplete, Ended
<1>3. left = {} /\ PhaseCovers'
  BY <1>1 DEF CoverInv, PhaseCovers, AllTiers, LowerTiers
<1>4. MadeHere'
  BY <1>1 DEF CoverInv, MadeHere, Made, LowerTiers
<1>5. SavedCovers'
  BY <1>1 DEF CoverInv, SavedCovers, Covers
<1>6. SaidComplete'
  BY <1>1, <1>2 DEF CoverInv, SaidComplete, CompleteIsIrredundant, SaysComplete, Ended
<1> QED BY <1>3, <1>4, <1>5, <1>6 DEF CoverInv

(* A phase that commits leaves no frontier; one that does not has either   *)
(* saved every redundancy or has none.                                     *)
LEMMA EndsCovering ==
  ASSUME Honest, CoverInv, EndPhase
  PROVE  CoverInv'
<1>1. TypeInv /\ SafeInv /\ Directory /\ Control /\ Lists
  BY DEF Honest, TypeInv
<1>2. /\ pc = "end" /\ resume' = {} /\ open' = open /\ pc' \in {"phase", "final"}
      /\ exact' = FALSE /\ pruned' = {} /\ accepted' = {}
  BY <1>1, EndPhaseMoves DEF NoPhase
<1>3. \A ck \in active : ~SaysComplete(ck)
  BY <1>2, NoneSaysComplete DEF CoverInv, Ended
<1>4. CASE /\ accepted # {} /\ work' = Rewrite /\ left' = {} /\ status' # "COMPLETE"
           /\ active' = SavedTo(active, {}, Committing)
  <2>1. \A ck \in active' : ck = Committing \/ ck \in active
    BY <1>1, <1>4, CommittingTyped, NewDirectory
  <2>2. Committing.resume = {} /\ ~SaysComplete(Committing)
    BY <1>1, <1>4, CommittingTyped DEF SaysComplete
  <2>3. MadeHere' /\ SavedCovers'
    BY <1>2, <1>4, <2>1, <2>2 DEF CoverInv, MadeHere, SavedCovers, Made, Covers
  <2>4. PhaseCovers'
    BY <1>2, <1>4 DEF PhaseCovers, AllTiers, LowerTiers
  <2>5. \A ck \in active' : ~SaysComplete(ck)
    BY <1>3, <2>1, <2>2
  <2>6. SaidComplete'
    BY <1>2, <1>4, <2>5 DEF SaidComplete, CompleteIsIrredundant, Complete, SaysComplete
  <2> QED BY <2>3, <2>4, <2>6 DEF CoverInv
<1>5. CASE /\ accepted = {} /\ UNCHANGED <<work, left, active>> /\ pc' = "final"
           /\ status' = "COMPLETE" => abort \notin Stops
  <2>1. MadeHere' /\ SavedCovers'
    BY <1>2, <1>5 DEF CoverInv, MadeHere, SavedCovers, Made, Covers
  <2>2. PhaseCovers'
    BY <1>2, <1>5 DEF CoverInv, PhaseCovers, Covers, AllTiers, LowerTiers
  <2>3. status' = "COMPLETE" /\ open = 0 => Redundant(work) = {}
    BY <1>2, <1>5 DEF CoverInv, PhaseCovers
  <2>4. SaidComplete'
    BY <1>2, <1>3, <1>5, <2>3
       DEF CoverInv, SaidComplete, CompleteIsIrredundant, Complete, SaysComplete
  <2> QED BY <2>1, <2>2, <2>4 DEF CoverInv
<1> QED BY <1>1, <1>4, <1>5, EndPhaseMoves

LEMMA FinalSaveCovering ==
  ASSUME Honest, CoverInv, FinalSave
  PROVE  CoverInv'
<1>1. /\ TypeInv /\ Directory /\ pc = "final" /\ pc' = "done"
      /\ active' = SavedTo(active, {}, Closing)
      /\ UNCHANGED <<work, resume, left, open, status, exact, accepted>>
  BY DEF Honest, TypeInv, FinalSave, Closing, phase, phaseLists
<1>2. /\ Closing \in EngineCheckpoints /\ Readable(Closing) /\ AtMostOne(Closing.resume)
      /\ Closing.resume = left /\ Closing.work = work /\ Closing.about = work
      /\ Closing.open = open /\ Closing.status = status
  BY <1>1, ClosingTyped
<1>3. \A ck \in active' : ck = Closing \/ ck \in active
  BY <1>1, <1>2, NewDirectory
<1>4. accepted = {}
  BY <1>1 DEF Honest, SafeInv, AllTiers, LowerTiers
<1>5. MadeHere'
  BY <1>1, <1>2, <1>3 DEF CoverInv, MadeHere, Made, LowerTiers
<1>6. PhaseCovers'
  BY <1>1, <1>4 DEF CoverInv, PhaseCovers, Covers, AllTiers, LowerTiers
<1>7. SavedCovers'
  BY <1>1, <1>2, <1>3, <1>4 DEF CoverInv, PhaseCovers, SavedCovers, Covers
<1>8. SaidComplete'
  BY <1>1, <1>2, <1>3
     DEF CoverInv, SaidComplete, CompleteIsIrredundant, Complete, SaysComplete, Ended
<1> QED BY <1>5, <1>6, <1>7, <1>8 DEF CoverInv

(* A torn save leaves the old JSON part beside the new AAG.  It does not   *)
(* say COMPLETE, or the AAG is the old one.                                *)
LEMMA CrashCovering ==
  ASSUME Honest, CoverInv, Crash \/ CrashInSave
  PROVE  CoverInv'
<1>1. /\ TypeInv /\ SafeInv /\ Directory /\ Control
      /\ pc' = "crashed" /\ resume' = {} /\ left' = {} /\ exact' = FALSE
      /\ pruned' = {} /\ accepted' = {} /\ UNCHANGED <<open, status>>
  BY DEF Honest, TypeInv, Crash, CrashInSave, NoPhase
<1>2. PhaseCovers'
  BY <1>1 DEF PhaseCovers, AllTiers, LowerTiers
<1>3. CASE UNCHANGED <<active, work>>
  <2>1. MadeHere' /\ SavedCovers'
    BY <1>1, <1>3 DEF CoverInv, MadeHere, SavedCovers, Made, Covers
  <2>2. SaidComplete'
    BY <1>1, <1>3
       DEF CoverInv, SaidComplete, CompleteIsIrredundant, Complete, SaysComplete, Ended
  <2> QED BY <1>2, <2>1, <2>2 DEF CoverInv
<1>4. ASSUME NEW new \in EngineCheckpoints, Readable(new), AtMostOne(new.resume),
             active' = TornTo(active, {}, new),
             \A ck \in active : SaysComplete(ck) => new.work = ck.work,
             CompleteIsIrredundant'
      PROVE  CoverInv'
  <2>1. TearsApart(active, new)
    BY <1>1, <1>4, NewDirectory
  <2>2. \A ck \in active' : \E old \in active :
          /\ ck = old \/ ck.work = new.work
          /\ ck.about = old.about /\ ck.resume = old.resume
          /\ ck.open = old.open /\ ck.status = old.status
    <3>1. \A ck \in active' : \E old \in active : ck = old \/ ck = Torn(old, new)
      BY <1>1, <1>4, NewDirectory
    <3>2. \A old \in active : Torn(old, new).status = old.status
      BY <1>1, <1>4, NewDirectory
    <3> QED BY <2>1, <3>1, <3>2 DEF TearsApart
  <2>3. MadeHere' /\ SavedCovers'
    BY <1>1, <2>2 DEF CoverInv, MadeHere, SavedCovers, Made, Covers
  <2>4. \A ck \in active' : SaysComplete(ck) => Redundant(ck.work) = {}
    BY <1>4, <2>2 DEF CoverInv, SaidComplete, SaysComplete
  <2>5. SaidComplete'
    BY <1>1, <1>4, <2>4 DEF SaidComplete, SaysComplete, Ended
  <2> QED BY <1>2, <2>3, <2>5 DEF CoverInv
<1>5. CASE /\ pc = "end" /\ accepted # {} /\ work' = Rewrite
           /\ active' = TornTo(active, {}, Committing)
  <2>1. \A ck \in active : ~SaysComplete(ck)
    BY <1>5, NoneSaysComplete DEF CoverInv, Ended
  <2>2. CompleteIsIrredundant'
    BY <1>1, <1>5 DEF Control, CompleteIsIrredundant, Complete
  <2> QED BY <1>1, <1>4, <1>5, <2>1, <2>2, CommittingTyped
<1>6. CASE pc = "final" /\ work' = work /\ active' = TornTo(active, {}, Closing)
  <2>1. \A ck \in active : SaysComplete(ck) => work = ck.work
    BY <1>6 DEF CoverInv, SaidComplete, Ended
  <2>2. CompleteIsIrredundant'
    BY <1>1, <1>6 DEF CoverInv, SaidComplete, CompleteIsIrredundant, Complete
  <2>3. /\ Closing \in EngineCheckpoints /\ Readable(Closing) /\ AtMostOne(Closing.resume)
        /\ Closing.work = work
    BY <1>1, <1>6, ClosingTyped
  <2> HIDE DEF Closing
  <2> QED BY <1>4, <1>6, <2>1, <2>2, <2>3
<1> QED BY <1>3, <1>5, <1>6 DEF Crash, CrashInSave, Committing, Closing

LEMMA NextCovering ==
  ASSUME NoTierSkipped, Honest, CoverInv, [Next]_vars
  PROVE  CoverInv'
<1>1. CASE UNCHANGED vars
  BY <1>1 DEF vars, phase, phaseLists, CoverInv, MadeHere, Made, PhaseCovers, SavedCovers, Covers,
              SaidComplete, CompleteIsIrredundant, Complete, SaysComplete
<1> QED BY <1>1, LaunchCovering, AlreadyCompleteCovering, BeginsCovering, ResumesCovering,
           LooksCovering, TimesOutCovering, TiersCovering, RoundsCovering, EndsCovering,
           FinalSaveCovering, CutsCovering, CrashCovering
           DEF Next, Working

LEMMA Covering ==
  ASSUME NoTierSkipped
  PROVE  Spec => []CoverInv
<1>1. Init => CoverInv
  BY DEF Init, CoverInv, MadeHere, PhaseCovers, SavedCovers, SaidComplete,
         CompleteIsIrredundant, Complete, AllTiers, LowerTiers
<1>2. Honest /\ CoverInv /\ [Next]_vars => CoverInv'
  BY NextCovering
<1> QED BY <1>1, <1>2, Honesty, PTL DEF Spec

(* Whichever tiers a redundancy has passed, however often runs of          *)
(* solve_circuit end, are killed and go on: until something is accepted    *)
(* the tier still has it, and so have the frontier that is loaded, the one *)
(* a run leaves and the one of the checkpoint.                             *)
THEOREM TieredFrontiersCover ==
  ASSUME NoTierSkipped
  PROVE  Spec => []FrontierCoversRedundancies
<1>1. Honest /\ CoverInv => FrontierCoversRedundancies
  <2> SUFFICES ASSUME Honest, CoverInv PROVE FrontierCoversRedundancies
    OBVIOUS
  <2>1. Looking /\ accepted = {} => Covers(todo \cup later, work)
    BY LookingAtTier DEF CoverInv, PhaseCovers
  <2>2. pc \in {"final", "done"} => accepted = {}
    BY DEF Honest, SafeInv, AllTiers, LowerTiers
  <2>3. pc \in {"final", "done"} => \A f \in left : Covers(CandidatesOf(f), work)
    BY <2>2 DEF CoverInv, PhaseCovers
  <2> QED BY <2>1, <2>3 DEF CoverInv, SavedCovers, FrontierCoversRedundancies
<1> QED BY <1>1, Honesty, Covering, PTL

-----------------------------------------------------------------------------
(* The AAGs: what a run works on and what the next one would begin with.   *)

StartOf(directory) ==
  IF directory = {} THEN Source ELSE (CHOOSE ck \in directory : TRUE).work

LEMMA StartOfRuns ==
  ASSUME NEW directory, Store(directory, {})
  PROVE  /\ StartOf(directory) = StartFrom(directory, {}, Source)
         /\ \A ck \in directory : StartOf(directory) = ck.work
<1>1. Loaded(directory, {}) = directory
  BY DEF Loaded
<1>2. ASSUME NEW ck \in directory
      PROVE  StartOf(directory) = ck.work /\ StartFrom(directory, {}, Source) = ck.work
  <2>1. (CHOOSE c \in directory : TRUE) \in directory
    OBVIOUS
  <2>2. (CHOOSE c \in directory : TRUE) = ck
    BY <2>1 DEF Store, AtMostOne
  <2>3. StartOf(directory) = ck.work
    BY <2>2 DEF StartOf
  <2> QED BY <1>1, <2>3, StartIsLoaded
<1>3. directory = {} => StartOf(directory) = StartFrom(directory, {}, Source)
  BY <1>1, StartIsLoaded DEF StartOf
<1> QED BY <1>2, <1>3

LEMMA RestartIsStart ==
  ASSUME Directory
  PROVE  /\ RestartPoint = StartFrom(active, {}, Source)
         /\ \A ck \in active : RestartPoint = ck.work
         /\ RestartPoint \in Works /\ Gates[RestartPoint] \in Nat
<1>1. Store(active, {}) /\ active \subseteq EngineCheckpoints
  BY StoreOfRuns
<1>2. RestartPoint = StartOf(active)
  BY DEF RestartPoint, StartOf
<1>3. /\ RestartPoint = StartFrom(active, {}, Source)
      /\ \A ck \in active : RestartPoint = ck.work
  BY <1>1, <1>2, StartOfRuns
<1>4. RestartPoint \in Works
  <2>1. CASE active = {}
    BY <2>1, EngineAssumption DEF RestartPoint
  <2>2. CASE active # {}
    BY <1>1, <1>3, <2>2 DEF EngineCheckpoints
  <2> QED BY <2>1, <2>2
<1> QED BY <1>3, <1>4, WorksAssumption

LEMMA RestartFrame ==
  ASSUME UNCHANGED active
  PROVE  RestartPoint' = RestartPoint
BY DEF RestartPoint

(* A save moves the start of the next run to the AAG saved or leaves it.   *)
LEMMA SaveMovesOn ==
  ASSUME Directory, Directory', NEW new \in EngineCheckpoints, AtMostOne(new.resume), Readable(new),
         Gates[new.work] <= Gates[RestartPoint],
         active' = SavedTo(active, {}, new) \/ active' = TornTo(active, {}, new)
  PROVE  RestartPoint' \in {RestartPoint, new.work}
<1>1. Store(active, {}) /\ TearsApart(active, new)
  BY StoreOfRuns, NewDirectory
<1>2. RestartPoint = StartFrom(active, {}, Source)
  BY RestartIsStart
<1>3. RestartPoint' = StartFrom(active', {}, Source)
  <2>1. RestartPoint' = StartOf(active')
    BY DEF RestartPoint, StartOf
  <2>2. Store(active', {})
    BY <1>1, SavedStore, TornStore
  <2> QED BY <2>1, <2>2, StartOfRuns
<1> QED BY <1>1, <1>2, <1>3, SavesMoveOn

(* Of a step that changes AAGs, checkpoints or what is said of them.       *)
LEMMA MovesTheAAG ==
  ASSUME Honest, NotBehind, [Next]_vars
  PROVE  \/ Launch /\ UNCHANGED active /\ work' = RestartPoint
         \/ /\ pc = "end" /\ accepted # {} /\ work' = Rewrite /\ pc' = "crashed"
            /\ RestartPoint' \in {RestartPoint, work'}
            /\ UNCHANGED status
         \/ /\ EndPhase /\ accepted # {} /\ work' = Rewrite
            /\ RestartPoint' \in {RestartPoint, work'}
            /\ status' # "COMPLETE"
         \/ /\ pc = "final" /\ pc' \in Ended
            /\ RestartPoint' \in {RestartPoint, work} /\ Gates[work] <= Gates[RestartPoint]
            /\ UNCHANGED <<work, open, status>>
         \/ /\ (EndPhase /\ accepted = {}) \/ AlreadyComplete
            /\ UNCHANGED <<active, work>> /\ pc' = "final"
         \/ /\ pc \in {"phase"} \cup AllTiers /\ pc' \in AllTiers \cup {"end"}
            /\ UNCHANGED <<active, work, status>>
         \/ /\ UNCHANGED <<active, work, open, status>> /\ pc' \in {pc, "crashed"}
<1>1. TypeInv /\ TypeInv' /\ SafeInv /\ Directory /\ Directory' /\ Control /\ Lists
  BY NextTyped DEF Honest, TypeInv
<1>2. CASE Launch
  <2>1. UNCHANGED active /\ (active = {} => work' = Source)
        /\ (active # {} => \E ck \in active : work' = ck.work)
    BY <1>2 DEF Launch
  <2>2. work' = RestartPoint
    BY <1>1, <2>1, RestartIsStart DEF RestartPoint
  <2> QED BY <1>2, <2>1, <2>2
<1>3. ASSUME pc = "end", accepted # {}, work' = Rewrite,
             active' = SavedTo(active, {}, Committing) \/ active' = TornTo(active, {}, Committing)
      PROVE  RestartPoint' \in {RestartPoint, work'}
  <2>1. /\ Committing \in EngineCheckpoints /\ Readable(Committing)
        /\ AtMostOne(Committing.resume) /\ Committing.work = Rewrite
    BY <1>1, <1>3, CommittingTyped
  <2>2. Gates[Rewrite] < Gates[work] /\ Gates[Rewrite] \in Nat /\ Gates[work] \in Nat
    BY <1>1, <1>3, RewriteIsSmaller DEF Honest
  <2>3. Gates[work] <= Gates[RestartPoint] /\ Gates[RestartPoint] \in Nat
    BY <1>1, <1>3, RestartIsStart DEF NotBehind, Ended
  <2>4. Gates[Committing.work] <= Gates[RestartPoint]
    BY <2>1, <2>2, <2>3
  <2> HIDE DEF Committing
  <2> QED BY <1>1, <1>3, <2>1, <2>4, SaveMovesOn
<1>4. ASSUME pc = "final", work' = work,
             active' = SavedTo(active, {}, Closing) \/ active' = TornTo(active, {}, Closing)
      PROVE  /\ RestartPoint' \in {RestartPoint, work}
             /\ Gates[work] <= Gates[RestartPoint]
  <2>1. /\ Closing \in EngineCheckpoints /\ Readable(Closing) /\ AtMostOne(Closing.resume)
        /\ Closing.work = work
    BY <1>1, <1>4, ClosingTyped
  <2>2. Gates[work] <= Gates[RestartPoint]
    BY <1>4 DEF NotBehind, Ended
  <2> HIDE DEF Closing
  <2> QED BY <1>1, <1>4, <2>1, <2>2, SaveMovesOn
<1>5. CASE EndPhase
  <2>1. CASE /\ accepted # {} /\ work' = Rewrite /\ status' # "COMPLETE"
             /\ active' = SavedTo(active, {}, Committing)
    BY <1>1, <1>3, <1>5, <2>1, EndPhaseMoves
  <2>2. CASE accepted = {} /\ UNCHANGED <<work, active>> /\ pc' = "final"
    BY <1>5, <2>2
  <2> QED BY <1>1, <1>5, <2>1, <2>2, EndPhaseMoves
<1>6. CASE FinalSave
  <2>1. /\ pc = "final" /\ pc' = "done" /\ active' = SavedTo(active, {}, Closing)
        /\ UNCHANGED <<work, open, status>>
    BY <1>6 DEF FinalSave, Closing
  <2> QED BY <1>4, <2>1 DEF Ended
<1>7. CASE CrashInSave
  <2>1. CASE /\ pc = "end" /\ accepted # {} /\ work' = Rewrite
             /\ active' = TornTo(active, {}, Committing)
    BY <1>3, <1>7, <2>1 DEF CrashInSave
  <2>2. CASE pc = "final" /\ work' = work /\ active' = TornTo(active, {}, Closing)
    BY <1>4, <1>7, <2>2 DEF CrashInSave, Ended
  <2> QED BY <1>7, <2>1, <2>2 DEF CrashInSave, Committing, Closing
<1>8. CASE AlreadyComplete
  BY <1>8 DEF AlreadyComplete
<1>9. CASE BeginPhase \/ ResumeTier \/ ResumeGlobal \/ LateForTiers
  <2>1. pc = "phase" /\ UNCHANGED <<active, work, status>>
    BY <1>9 DEF BeginPhase, ResumeTier, ResumeGlobal, LateForTiers
  <2>2. pc' \in LowerTiers \cup {"global", "end"}
    BY <1>9 DEF BeginPhase, ResumeTier, ResumeGlobal, LateForTiers, TierFrontier, EnterGlobal,
                LowerTiers
  <2> QED BY <2>1, <2>2 DEF AllTiers
<1>10. CASE PassOver \/ Defer \/ Query \/ Deadline \/ Interrupt \/ TimeOut \/ LeaveRound
  <2>1. UNCHANGED <<active, work, status>>
    BY <1>10 DEF PassOver, Defer, Query, Deadline, Interrupt, TimeOut, LeaveRound
  <2>2. pc \in AllTiers
    BY <1>10, LookingAtTier
       DEF PassOver, Defer, Query, Deadline, Interrupt, TimeOut, LeaveRound, AllTiers
  <2>3. pc' \in {pc, "end"}
    BY <1>10 DEF PassOver, Defer, Query, Accept, Reject, PassOn, Deadline, Interrupt, TimeOut,
                 LeaveRound, Aborted
  <2> QED BY <2>1, <2>2, <2>3
<1>11. CASE LeaveTier
  <2>1. pc \in LowerTiers /\ UNCHANGED <<active, work, status>>
    BY <1>11, WaysOut
  <2>2. pc' \in LowerTiers \cup {"global", "end"}
    BY <1>11, <2>1, WaysOut
       DEF ToEnd, ToTier, ToOldGlobal, ToGlobal, EnterGlobal, NextTier, LowerTiers
  <2> QED BY <2>1, <2>2 DEF AllTiers
<1>12. CASE Crash \/ UNCHANGED vars
  BY <1>12 DEF Crash, vars
<1> QED BY <1>2, <1>5, <1>6, <1>7, <1>8, <1>9, <1>10, <1>11, <1>12 DEF Next, Working

LEMMA NextNotBehind ==
  ASSUME Honest, NotBehind, [Next]_vars
  PROVE  NotBehind'
<1>1. Directory /\ Lists
  BY DEF Honest, TypeInv
<1>2. Gates[RestartPoint] \in Nat
  BY <1>1, RestartIsStart
<1>3. CASE Launch /\ UNCHANGED active /\ work' = RestartPoint
  BY <1>2, <1>3, RestartFrame DEF NotBehind
<1>4. CASE EndPhase /\ accepted # {} /\ work' = Rewrite /\ RestartPoint' \in {RestartPoint, work'}
  <2>1. Gates[Rewrite] < Gates[work] /\ Gates[Rewrite] \in Nat /\ Gates[work] \in Nat
    BY <1>1, <1>4, RewriteIsSmaller DEF Honest
  <2>2. Gates[work] <= Gates[RestartPoint]
    BY <1>4 DEF EndPhase, NotBehind, Ended
  <2> QED BY <1>2, <1>4, <2>1, <2>2 DEF NotBehind
<1>5. CASE UNCHANGED <<active, work>> /\ (pc' \in {pc, "crashed"} \/ pc \notin Ended)
  BY <1>5, RestartFrame DEF NotBehind, Ended
<1>6. CASE pc' \in Ended
  BY <1>6 DEF NotBehind
<1>7. /\ EndPhase \/ AlreadyComplete => pc \notin Ended
      /\ pc \in {"phase"} \cup AllTiers => pc \notin Ended
  BY DEF EndPhase, AlreadyComplete, AllTiers, LowerTiers, Ended
<1> QED BY <1>3, <1>4, <1>5, <1>6, <1>7, MovesTheAAG DEF Ended

LEMMA AAGs == Spec => []NotBehind
<1>1. Init => NotBehind
  BY DEF Init, NotBehind, Ended
<1>2. Honest /\ NotBehind /\ [Next]_vars => NotBehind'
  BY NextNotBehind
<1> QED BY <1>1, <1>2, Honesty, PTL DEF Spec

(* The policy compares gates before anything else, or not at all.          *)
GatesFirst == Policy \in {"gates", "recent"}

SavedFirst == ComparesGates(active, {}) /\ Checkpointed

LEMMA SavesCompare ==
  ASSUME Directory, ComparesGates(active, {}), NEW new \in EngineCheckpoints,
         AtMostOne(new.resume), Readable(new), new.about = new.work
  PROVE  /\ active' = SavedTo(active, {}, new) =>
              ComparesGates(active', {}) /\ Gates[RestartPoint'] <= Gates[new.work]
         /\ active' = TornTo(active, {}, new) => ComparesGates(active', {})
<1>1. Store(active, {}) /\ TearsApart(active, new)
  BY StoreOfRuns, NewDirectory
<1>2. /\ ComparesGates(SavedTo(active, {}, new), {})
      /\ ComparesGates(TornTo(active, {}, new), {})
  BY <1>1, StillForward
<1>3. ASSUME active' = SavedTo(active, {}, new)
      PROVE  Gates[RestartPoint'] <= Gates[new.work]
  <2>1. /\ Loaded(active', {}) # {}
        /\ \A ck \in Loaded(active', {}) : Gates[ck.work] <= Gates[new.work]
    BY <1>1, <1>3, SaveIsNotLost
  <2>2. Loaded(active', {}) = active'
    BY DEF Loaded
  <2> QED BY <2>1, <2>2 DEF RestartPoint
<1> QED BY <1>2, <1>3

LEMMA NextSavedFirst ==
  ASSUME Honest, NotBehind, SavedFirst, [Next]_vars
  PROVE  SavedFirst'
<1>1. Directory /\ Control /\ TypeInv /\ SafeInv
  BY DEF Honest, TypeInv
<1>2. CASE EndPhase /\ accepted # {}
  <2>1. work' = Rewrite /\ active' = SavedTo(active, {}, Committing)
    BY <1>1, <1>2, EndPhaseMoves
  <2>2. /\ Committing \in EngineCheckpoints /\ Readable(Committing)
        /\ AtMostOne(Committing.resume) /\ Committing.work = Rewrite
        /\ Committing.about = Committing.work
    BY <1>1, <1>2, CommittingTyped
  <2> HIDE DEF Committing
  <2> QED BY <1>1, <2>1, <2>2, SavesCompare DEF SavedFirst, Checkpointed
<1>3. CASE FinalSave \/ (CrashInSave /\ pc = "final")
  <2>1. /\ pc = "final" /\ work' = work
        /\ active' = SavedTo(active, {}, Closing)
             \/ (active' = TornTo(active, {}, Closing) /\ pc' = "crashed")
    BY <1>3 DEF FinalSave, CrashInSave, Closing
  <2>2. /\ Closing \in EngineCheckpoints /\ Readable(Closing) /\ AtMostOne(Closing.resume)
        /\ Closing.work = work /\ Closing.about = Closing.work
    BY <1>1, <2>1, ClosingTyped
  <2> HIDE DEF Closing
  <2> QED BY <1>1, <2>1, <2>2, SavesCompare DEF SavedFirst, Checkpointed
<1>4. CASE CrashInSave /\ pc = "end"
  <2>1. accepted # {} /\ active' = TornTo(active, {}, Committing) /\ pc' = "crashed"
    BY <1>4 DEF CrashInSave, Committing
  <2>2. /\ Committing \in EngineCheckpoints /\ Readable(Committing)
        /\ AtMostOne(Committing.resume) /\ Committing.about = Committing.work
    BY <1>1, <2>1, CommittingTyped
  <2> HIDE DEF Committing
  <2> QED BY <1>1, <2>1, <2>2, SavesCompare DEF SavedFirst, Checkpointed
<1>5. CASE Launch /\ UNCHANGED active /\ work' = RestartPoint
  <2>1. Gates[RestartPoint] \in Nat
    BY <1>1, RestartIsStart
  <2> QED BY <1>5, <2>1, RestartFrame DEF SavedFirst, Checkpointed
<1>6. CASE UNCHANGED <<active, work>> /\ (pc' \in {pc, "crashed"} \/ pc \notin {"off", "crashed"})
  BY <1>6, RestartFrame DEF SavedFirst, Checkpointed
<1>7. \/ Launch /\ UNCHANGED active /\ work' = RestartPoint
      \/ EndPhase /\ accepted # {}
      \/ FinalSave \/ CrashInSave
      \/ UNCHANGED <<active, work>> /\ (pc' \in {pc, "crashed"} \/ pc \notin {"off", "crashed"})
  <2>1. CASE CrashInSave \/ FinalSave
    BY <2>1
  <2>2. CASE Crash \/ UNCHANGED vars
    BY <2>2 DEF Crash, vars
  <2>3. CASE ~(CrashInSave \/ FinalSave \/ Crash \/ UNCHANGED vars \/ Launch \/ EndPhase)
    BY <2>3, LookingAtTier DEF Next, Working, AlreadyComplete, BeginPhase, ResumeTier, ResumeGlobal, LateForTiers,
       PassOver, Defer, Query, Deadline, Interrupt, TimeOut, LeaveRound, LeaveTier, AllTiers, LowerTiers
  <2>4. CASE Launch
    BY <2>4, MovesTheAAG DEF Launch, Ended, AllTiers, LowerTiers
  <2>5. CASE EndPhase
    BY <1>1, <2>5, EndPhaseMoves
  <2> QED BY <2>1, <2>2, <2>3, <2>4, <2>5
<1>8. CrashInSave => pc \in {"end", "final"}
  BY DEF CrashInSave
<1> QED BY <1>2, <1>3, <1>4, <1>5, <1>6, <1>7, <1>8

(* What a phase of solve_circuit has committed is in the checkpoint when   *)
(* the next phase begins and when the run ends, if the policy is the       *)
(* default or takes the newest: a run that is killed then and started      *)
(* again never begins with more gates.                                     *)
THEOREM TieredCommitsAreCheckpointed ==
  ASSUME GatesFirst
  PROVE  Spec => []CommitIsCheckpointed
<1>1. Init => SavedFirst
  BY DEF Init, SavedFirst, Checkpointed, ComparesGates, GatesFirst
<1>2. Honest /\ NotBehind /\ SavedFirst /\ [Next]_vars => SavedFirst'
  BY NextSavedFirst
<1>3. SavedFirst => CommitIsCheckpointed
  BY DEF SavedFirst, Checkpointed, CommitIsCheckpointed
<1> QED BY <1>1, <1>2, <1>3, Honesty, AAGs, PTL DEF Spec

-----------------------------------------------------------------------------
(* The refinement.                                                         *)

LEMMA NextRemoves ==
  ASSUME NoTierSkipped, Honest, CoverInv, NotBehind, [Next]_vars
  PROVE  [Removal!Next]_(Removal!vars)
<1>1. Directory /\ Control /\ Lists /\ SafeInv
  BY DEF Honest, TypeInv
<1>2. /\ pc \in {"phase", "complete", "end"} \cup AllTiers => ~Complete
      /\ pc' \in {"phase", "complete", "end"} \cup AllTiers => ~Complete'
  <2>1. Control'
    BY NextTyped DEF Honest, TypeInv
  <2> QED BY <1>1, <2>1 DEF Control, Complete
<1>3. Complete \in BOOLEAN /\ Complete' \in BOOLEAN
  BY DEF Complete
<1>4. CASE Launch /\ UNCHANGED active /\ work' = RestartPoint
  <2>1. RestartPoint' = RestartPoint /\ Complete' = FALSE
    BY <1>4, RestartFrame DEF Launch, Complete
  <2>2. Removal!Restart
    BY <1>4, <2>1 DEF Removal!Restart
  <2> QED BY <2>2 DEF Removal!Next
<1>5. CASE /\ pc = "end" /\ accepted # {} /\ work' = Rewrite
           /\ RestartPoint' \in {RestartPoint, work'}
           /\ ~Complete'
  <2>1. Meaning[work'] = Meaning[work] /\ Gates[work'] < Gates[work]
    BY <1>1, <1>5, RewriteIsSmaller
  <2>2. Complete' = FALSE
    BY <1>5, <1>3
  <2>3. Removal!Commit
    BY <1>5, <2>1, <2>2 DEF Removal!Commit, MeaningOf, GatesOf
  <2> QED BY <2>3 DEF Removal!Next
<1>6. CASE /\ RestartPoint' \in {RestartPoint, work} /\ Gates[work] <= Gates[RestartPoint]
           /\ UNCHANGED <<work, open, status>>
  <2>1. Complete' = Complete
    BY <1>6 DEF Complete
  <2>2. Removal!Keep \/ UNCHANGED Removal!vars
    BY <1>6, <2>1 DEF Removal!Keep, Removal!vars, GatesOf
  <2> QED BY <2>2 DEF Removal!Next
<1>7. CASE UNCHANGED <<active, work>> /\ ~Complete
  <2>1. RestartPoint' = RestartPoint /\ Complete = FALSE
    BY <1>3, <1>7, RestartFrame
  <2>2. CASE Complete' = FALSE
    BY <1>7, <2>1, <2>2 DEF Removal!vars
  <2>3. CASE Complete' = TRUE
    <3>1. Redundant(work) = {}
      BY <1>7, <2>3, NextCovering DEF CoverInv, SaidComplete, CompleteIsIrredundant
    <3>2. Removal!Finish
      BY <1>7, <2>1, <2>3, <3>1 DEF Removal!Finish, Irredundant
    <3> QED BY <3>2 DEF Removal!Next
  <2> QED BY <1>3, <2>2, <2>3
<1>8. CASE UNCHANGED <<active, work, open, status>>
  <2>1. RestartPoint' = RestartPoint /\ Complete' = Complete
    BY <1>8, RestartFrame DEF Complete
  <2> QED BY <1>8, <2>1 DEF Removal!vars
<1>9. pc = "end" /\ UNCHANGED status => ~Complete'
  BY <1>1 DEF Control, Complete
<1>10. /\ status' # "COMPLETE" => ~Complete'
       /\ EndPhase \/ AlreadyComplete => pc \in {"end", "complete"}
  BY DEF Complete, EndPhase, AlreadyComplete
<1>11. CASE \/ /\ EndPhase /\ accepted # {} /\ work' = Rewrite
               /\ RestartPoint' \in {RestartPoint, work'} /\ status' # "COMPLETE"
            \/ /\ (EndPhase /\ accepted = {}) \/ AlreadyComplete
               /\ UNCHANGED <<active, work>>
  BY <1>2, <1>5, <1>7, <1>10, <1>11 DEF EndPhase
<1>12. CASE /\ pc \in {"phase"} \cup AllTiers /\ UNCHANGED <<active, work, status>>
  BY <1>2, <1>7, <1>12
<1> QED BY <1>4, <1>5, <1>6, <1>8, <1>9, <1>11, <1>12, MovesTheAAG

(* The runs of solve_circuit, one after another, are a removal of          *)
(* redundancies from the source, with no equivalence check at all: commits *)
(* shrink the AAG within its function, saves and restarts never go back    *)
(* behind what was kept, and COMPLETE with nothing unresolved is said of   *)
(* an irredundant circuit only.                                            *)
THEOREM TieredRemoves ==
  ASSUME NoTierSkipped
  PROVE  Spec => ImplementsRemoval
<1>1. Init => Removal!Init
  BY DEF Init, Removal!Init, RestartPoint, MeaningOf, Complete
<1>2. Honest /\ CoverInv /\ NotBehind /\ [Next]_vars => [Removal!Next]_(Removal!vars)
  BY NextRemoves
<1>3. Spec => Removal!Spec
  BY <1>1, <1>2, Honesty, Covering, AAGs, PTL DEF Spec, Removal!Spec
<1> QED BY <1>3 DEF ImplementsRemoval
=============================================================================
