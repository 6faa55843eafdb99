-------------------------- MODULE CheckpointStore --------------------------
(***************************************************************************)
(* The checkpoint directories of one circuit (_load_checkpoint and         *)
(* _save_checkpoint of the tiered optimizer).  A checkpoint is two files:  *)
(* an AAG and a JSON part.  The JSON part records the sha and gate count   *)
(* of the AAG it was written for, the telemetry's number of unresolved     *)
(* candidates and, if there is one, the frontier a later run may resume.   *)
(*                                                                         *)
(* Runs write to their active directory and read from others as well.  A   *)
(* directory is a set with at most one checkpoint of the circuit.          *)
(***************************************************************************)
EXTENDS CircuitData

CONSTANT Policy   \* ALG10_CHECKPOINT_SELECT

Policies == {"gates", "unresolved", "recent"}

ASSUME PolicyAssumption == Policy \in Policies

LowerTiers == {"tfi", "window", "cone"}

(* What the engines put into a saved frontier.  The frontier of a lower    *)
(* tier has candidates it still has to look at and others it passes on,    *)
(* and no history; the others have a budget history and all are pending.   *)
Frontiers ==
  [pending : SUBSET Candidate, escalated : SUBSET Candidate,
   hist : [Candidate -> Nat], engine : LowerTiers \cup {"global", "tfo"}]

CandidatesOf(f) == f.pending \cup f.escalated

Checkpoints ==
  [work : Works, about : Works, open : Nat, resume : SUBSET Frontiers]

FewOf(a, b) == IF a < b THEN a ELSE b

ManyOf(a, b) == IF a < b THEN b ELSE a

(* Both lists are counted, a candidate on both of them twice.              *)
FrontierSize(resume) ==
  Cardinality(UNION {f.pending : f \in resume}) +
  Cardinality(UNION {f.escalated : f \in resume})

(* _checkpoint_unresolved_from_data                                        *)
Unresolved(ck) == ManyOf(ck.open, FrontierSize(ck.resume))

StoredGates(ck) == FewOf(Gates[ck.about], Gates[ck.work])

Less(a, b) == a[1] < b[1] \/ (a[1] = b[1] /\ a[2] < b[2])

\* Mutant of RankedBefore: fewer unresolved candidates come first, whatever the policy.
RankedByUnresolved(a, b) ==
  Less(<<Unresolved(a), StoredGates(a)>>, <<Unresolved(b), StoredGates(b)>>)

(* _checkpoint_rank: strictly smaller is better; the timestamp, newest     *)
(* first, decides among equals, and under "recent" before all.             *)
RankedBefore(a, b) ==
  CASE Policy = "gates"      -> Less(<<StoredGates(a), Unresolved(a)>>,
                                     <<StoredGates(b), Unresolved(b)>>)
    [] Policy = "unresolved" -> Less(<<Unresolved(a), StoredGates(a)>>,
                                     <<Unresolved(b), StoredGates(b)>>)
    [] Policy = "recent"     -> FALSE

\* Mutant of Resumable: indices that fit are enough.
ResumableInRange(about, work, frontier) == CandidatesOf(frontier) \subseteq Frontier[work]

(* The frontier is bound to the AAG by sha and gate count; its indices     *)
(* must lie inside the gate list, and its two lists be disjoint            *)
(* (_valid_phase_resume_state).                                            *)
Resumable(about, work, frontier) ==
  /\ about = work
  /\ CandidatesOf(frontier) \subseteq Frontier[work]
  /\ frontier.pending \cap frontier.escalated = {}

(* The JSON part is stamped with the AAG it is saved with, whichever AAG   *)
(* the frontier was made for.                                              *)
Stamped(work, open, resume) ==
  [work |-> work, about |-> work, open |-> ManyOf(open, FrontierSize(resume)),
   resume |-> resume]

(* ALG10_PROTECT_BEST_CHECKPOINT: a checkpoint that ranks strictly better  *)
(* than the new one, in any directory, stays and nothing is written.       *)
Protected(active, extern, new) == \E ck \in active \cup extern : RankedBefore(ck, new)

\* Mutant of SavedTo: each save makes files of its own.
SavedBeside(active, extern, new) == active \cup {new}

SavedTo(active, extern, new) == IF Protected(active, extern, new) THEN active ELSE {new}

(* A save copies the AAG first and replaces the JSON part afterwards.  A   *)
(* first save torn in between leaves no JSON part, hence no checkpoint.    *)
TornTo(active, extern, new) ==
  IF Protected(active, extern, new) THEN active
  ELSE {[ck EXCEPT !.work = new.work] : ck \in active}

(* The best checkpoint of all directories; among equals the active one,    *)
(* which is newer.                                                         *)
Loaded(active, extern) ==
  {ck \in active : \A other \in extern : ~RankedBefore(other, ck)}
    \cup {ck \in extern : \A own \in active : RankedBefore(ck, own)}
=============================================================================
