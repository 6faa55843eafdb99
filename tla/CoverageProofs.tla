---------------------------- MODULE CoverageProofs ----------------------------
(***************************************************************************)
(* What COMPLETE means.  No redundancy ever drops out of the frontier of   *)
(* its AAG, in memory or in a checkpoint, so a circuit whose frontier ran  *)
(* empty is irredundant: over all interleavings, timeouts, failed futures, *)
(* refused commits, crashes, torn saves and restarts, with one exception.  *)
(* When the commit process may die after it replaced the work AAG, the     *)
(* claim is false (the run LateBarrierDeath), and the theorems assume that *)
(* it does not.                                                            *)
(*                                                                         *)
(* Then restarts: what a later campaign begins with.  It never gets larger,*)
(* a campaign that ended is taken up where it stopped, and over any number *)
(* of campaigns each circuit is a RedundancyRemoval.  A torn save can give *)
(* a reduction up (the run TornSave), and those theorems assume that no    *)
(* save is torn.                                                           *)
(***************************************************************************)
EXTENDS PoolRemoval, DynamicPoolProofs

NoLateDeath == "late_barrier_death" \notin Faults

(* A barrier is about the work AAG until its own commit is reported, and   *)
(* as long as it accepted nothing, what it rejected is not redundant.      *)
BarrierHonest ==
  \A b \in barrier :
    /\ work[b.c] = b.work \/ b.state = "installed" \/ (b.state = "finished" /\ b.committed)
    /\ b.accepted = {} => b.rejected \cap Redundant(b.work) = {}

(* The saved frontier covers the AAG the JSON part speaks about, resumable *)
(* or not.                                                                 *)
SavedCover ==
  \A c \in Circuits : \A ck \in {ckpt[c], seed[c]} : Redundant(ck.sha) \subseteq ck.cands

Cover == BarrierHonest /\ NothingLost /\ SavedCover

Inv == SafetyInv /\ Ledger /\ Cover

(* Without a barrier on the circuit, or with one that is still about the   *)
(* work AAG, the frontier covers it.                                       *)
LEMMA CoveredHere ==
  ASSUME NothingLost, pc # "crashed", NEW c \in Circuits,
         \A b \in barrier : b.c = c => b.work = work[c]
  PROVE  Redundant(work[c]) \subseteq cands[c]
BY DEF NothingLost

(* A step that moves neither AAGs nor frontiers nor the barrier.           *)
LEMMA FrameCover ==
  ASSUME Cover, UNCHANGED <<work, cands, ckpt, seed, barrier>>,
         pc' # "crashed" => pc # "crashed"
  PROVE  Cover'
<1>1. BarrierHonest'
  BY DEF Cover, BarrierHonest
<1>2. NothingLost'
  BY DEF Cover, NothingLost
<1>3. SavedCover'
  BY DEF Cover, SavedCover
<1> QED BY <1>1, <1>2, <1>3 DEF Cover

(* Saving a frontier that covers its AAG keeps the checkpoints covering.   *)
LEMMA PersistedCover ==
  ASSUME TypeOK, SavedCover, NEW c \in Circuits, NEW w, NEW cs, Redundant(w) \subseteq cs,
         NEW h, NEW ps, NEW pb, NEW cm,
         ckpt' = Persisted(c, w, cs, h, ps, pb, cm), seed' = seed
  PROVE  SavedCover'
<1> DEFINE new == Snapshot(w, cs, h, ps, pb, cm)
<1>1. new.sha = w /\ new.cands = cs
  BY DEF Snapshot
<1> HIDE DEF new
<1>2. ckpt' = [ckpt EXCEPT ![c] = Saved(ckpt[c], new)]
  BY DEF Persisted, new
<1>3. Saved(ckpt[c], new) \in {ckpt[c], new}
  BY DEF Saved
<1>4. \A d \in Circuits : ckpt'[d] = ckpt[d] \/ ckpt'[d] = new
  BY <1>2, <1>3 DEF TypeOK
<1>5. \A d \in Circuits : Redundant(ckpt'[d].sha) \subseteq ckpt'[d].cands
  BY <1>1, <1>4 DEF SavedCover
<1> QED BY <1>5 DEF SavedCover

(* A new campaign resumes a frontier that speaks about its AAG, or starts  *)
(* over with all candidates.                                               *)
LEMMA LaunchCover ==
  ASSUME Inv, Launch
  PROVE  Cover'
<1> DEFINE s == [c \in Circuits |-> Best(seed[c], ckpt[c])]
           starting == [c \in Circuits |->
                          IF Resumable(s[c]) THEN s[c].cands ELSE Frontier[s[c].work]]
<1>1. StartFrom(s)
  BY DEF Launch
<1>2. \A c \in Circuits : s[c] \in {ckpt[c], seed[c]}
  BY DEF Best
<1>3. \A c \in Circuits : s[c].work \in Works /\ Redundant(s[c].sha) \subseteq s[c].cands
  BY <1>2 DEF Inv, SafetyInv, TypeInv, TypeOK, Checkpoints, Cover, SavedCover
<1> HIDE DEF s
<1>4. \A c \in Circuits : Redundant(s[c].work) \subseteq starting[c]
  BY <1>3, WorksAssumption DEF Resumable
<1>5. /\ seed' = s /\ work' = [c \in Circuits |-> s[c].work] /\ cands' = starting
      /\ barrier' = {}
      /\ ckpt' = [c \in Circuits |->
                    Snapshot(s[c].work, cands'[c], hist'[c], props'[c], propBudget'[c], FALSE)]
  BY <1>1 DEF StartFrom
<1>6. \A c \in Circuits : ckpt'[c].sha = s[c].work /\ ckpt'[c].cands = starting[c]
  BY <1>5 DEF Snapshot
<1> HIDE DEF starting
<1>7. SavedCover'
  <2> SUFFICES ASSUME NEW c \in Circuits
               PROVE  /\ Redundant(ckpt'[c].sha) \subseteq ckpt'[c].cands
                      /\ Redundant(seed'[c].sha) \subseteq seed'[c].cands
    BY DEF SavedCover
  <2>1. seed'[c] = s[c] /\ Redundant(s[c].sha) \subseteq s[c].cands
    BY <1>3, <1>5
  <2>2. ckpt'[c].sha = s[c].work /\ ckpt'[c].cands = starting[c]
    BY <1>6
  <2> QED BY <1>4, <2>1, <2>2
<1>8. NothingLost'
  BY <1>4, <1>5 DEF NothingLost
<1>9. BarrierHonest'
  BY <1>5 DEF BarrierHonest
<1> QED BY <1>7, <1>8, <1>9 DEF Cover

(* A barrier is put up for the AAG the frontier covers.                    *)
LEMMA NewBarrierCover ==
  ASSUME Inv, NEW c \in Circuits, NEW inPool, barrier = {}, pc # "crashed",
         barrier' = {NewBarrier(c, inPool)}, UNCHANGED <<work, cands, ckpt, seed>>
  PROVE  Cover'
<1> DEFINE new == NewBarrier(c, inPool)
<1>1. new.c = c /\ new.work = work[c] /\ new.accepted = {} /\ new.rejected = {}
  BY DEF NewBarrier
<1> HIDE DEF new
<1>2. barrier' = {new}
  BY DEF new
<1>3. BarrierHonest'
  BY <1>1, <1>2 DEF BarrierHonest
<1>4. NothingLost'
  BY <1>2 DEF Inv, Cover, NothingLost
<1>5. SavedCover'
  BY DEF Inv, Cover, SavedCover
<1> QED BY <1>3, <1>4, <1>5 DEF Cover

(* The admission of a barrier in the loop, and in the final loop.          *)
LEMMA AdmissionCover ==
  ASSUME Inv, LoopTop \/ FinalizeStart
  PROVE  Cover'
<1>1. /\ UNCHANGED <<work, cands, ckpt, seed>>
      /\ pc \in {"top", "finalize"} /\ closing \in Circuits
  BY DEF LoopTop, FinalizeStart, files, frontier, Inv, SafetyInv, TypeInv, TypeOK
<1>2. CASE UNCHANGED barrier
  BY <1>1, <1>2, FrameCover DEF Inv
<1>3. CASE barrier = {} /\ \E c \in Circuits : \E inPool \in BOOLEAN :
                             barrier' = {NewBarrier(c, inPool)}
  BY <1>1, <1>3, NewBarrierCover
<1>4. FinalizeStart => barrier = {} /\ barrier' = {NewBarrier(closing, FALSE)}
  BY DEF FinalizeStart, Inv, SafetyInv, BarrierAlone
<1>5. LoopTop => \/ UNCHANGED barrier
                 \/ barrier = {} /\ \E c \in Circuits : barrier' = {NewBarrier(c, TRUE)}
  BY DEF LoopTop, AdmitBarrier, SkipBarrier
<1> QED BY <1>1, <1>2, <1>3, <1>4, <1>5

(* A result takes only what is not redundant from the frontier.            *)
LEMMA ResultCover ==
  ASSUME Inv, NEW t \in returned, HandleResult(t)
  PROVE  Cover'
<1>1. /\ TypeOK /\ t \in tasks /\ t.c \in Circuits /\ t.work = work[t.c] /\ pc # "crashed"
      /\ UNCHANGED <<work, seed, barrier>>
  BY DEF Inv, SafetyInv, TypeInv, TypeOK, Tasks, NeverStale, Stale, HandleResult
<1>2. \A b \in barrier : b.c # t.c
  BY <1>1, NoTaskUnderBarrier DEF Inv, SafetyInv
<1>3. Redundant(work[t.c]) \subseteq cands[t.c] /\ t.sat \cap Redundant(work[t.c]) = {}
  BY <1>1, <1>2, CoveredHere DEF Inv, Cover, Ledger, AnswersHonest
<1>4. /\ \A c \in Circuits : c # t.c => cands'[c] = cands[c]
      /\ cands'[t.c] = cands[t.c] \/ cands'[t.c] = cands[t.c] \ t.sat
  <2>1. UNCHANGED cands \/ cands' = [cands EXCEPT ![t.c] = cands[t.c] \ t.sat]
    BY DEF HandleResult
  <2> QED BY <1>1, <2>1 DEF TypeOK
<1>5. Redundant(work[t.c]) \subseteq cands'[t.c]
  BY <1>3, <1>4
<1>6. NothingLost'
  BY <1>1, <1>4, <1>5 DEF Inv, Cover, NothingLost
<1>7. BarrierHonest'
  BY <1>1 DEF Inv, Cover, BarrierHonest
<1>8. SavedCover'
  <2>1. CASE UNCHANGED ckpt
    BY <1>1, <2>1 DEF Inv, Cover, SavedCover
  <2>2. CASE ckpt' = Persisted(t.c, work[t.c], cands'[t.c], hist'[t.c], {}, Untried,
                               committed[t.c])
    BY <1>1, <1>5, <2>2, PersistedCover DEF Inv, Cover
  <2> QED BY <2>1, <2>2 DEF HandleResult
<1> QED BY <1>6, <1>7, <1>8 DEF Cover

(* What _apply_proposal_barrier leaves in the frontier covers the AAG: all *)
(* candidates after a commit, and otherwise all but those that turned out  *)
(* SAT when nothing had been accepted before.                              *)
LEMMA BarrierFrontierCovers ==
  ASSUME Inv, NEW b \in barrier, b.c \in Circuits, ApplyBarrier(b), pc # "crashed"
  PROVE  Redundant(work[b.c]) \subseteq BarrierFrontier(b)
<1>1. work[b.c] \in Works /\ b.state = "finished"
  BY DEF Inv, SafetyInv, TypeInv, TypeOK, ApplyBarrier
<1>2. CASE b.committed
  BY <1>1, <1>2, WorksAssumption DEF BarrierFrontier
<1>3. CASE ~b.committed
  <2>1. work[b.c] = b.work
    BY <1>1, <1>3 DEF Inv, Cover, BarrierHonest
  <2>2. Redundant(work[b.c]) \subseteq cands[b.c]
    <3>1. \A d \in barrier : d = b
      BY DEF Inv, SafetyInv, BarrierAlone
    <3> QED BY <2>1, <3>1, CoveredHere DEF Inv, Cover
  <2>3. b.accepted = {} => b.rejected \cap Redundant(work[b.c]) = {}
    BY <2>1 DEF Inv, Cover, BarrierHonest
  <2> QED BY <1>3, <2>2, <2>3 DEF BarrierFrontier
<1> QED BY <1>2, <1>3

(* A barrier that comes back leaves its circuit covered.  One that raised  *)
(* did so before its install, or the scheduler raises with it.             *)
LEMMA BarrierBackCover ==
  ASSUME Inv, HandleBarrier \/ FinalizeEnd
  PROVE  Cover'
<1>1. PICK b \in barrier :
        /\ b.state \in {"finished", "error"}
        /\ \/ ApplyBarrier(b)
           \/ b.state = "error" /\ UNCHANGED <<ckpt, cands>>
           \/ b.generation # generation[b.c]
  BY DEF HandleBarrier, FinalizeEnd, DoneBarrier, BarrierError, StaleBarrier
<1>2. /\ TypeOK /\ b.c \in Circuits /\ b.generation = generation[b.c] /\ pc # "crashed"
      /\ UNCHANGED <<work, seed>> /\ barrier' = {}
      /\ \A d \in barrier : d = b
  BY DEF Inv, SafetyInv, TypeInv, TypeOK, Barriers, NeverStale, BarrierAlone, HandleBarrier,
         FinalizeEnd
<1>3. BarrierHonest'
  BY <1>2 DEF BarrierHonest
<1>4. \A c \in Circuits : c # b.c => Redundant(work[c]) \subseteq cands[c]
  BY <1>2 DEF Inv, Cover, NothingLost
<1>5. CASE ApplyBarrier(b)
  <2>1. Redundant(work[b.c]) \subseteq BarrierFrontier(b)
    BY <1>2, <1>5, BarrierFrontierCovers
  <2>2. /\ cands'[b.c] = BarrierFrontier(b)
        /\ \A c \in Circuits : c # b.c => cands'[c] = cands[c]
    BY <1>2, <1>5 DEF ApplyBarrier, TypeOK
  <2>3. NothingLost'
    BY <1>2, <1>4, <2>1, <2>2 DEF NothingLost
  <2>4. SavedCover'
    <3>1. Redundant(work[b.c]) \subseteq cands'[b.c]
      BY <2>1, <2>2
    <3>2. ckpt' = Persisted(b.c, work[b.c], cands'[b.c], hist'[b.c], {}, Untried, committed'[b.c])
      BY <1>5 DEF ApplyBarrier
    <3> QED BY <1>2, <3>1, <3>2, PersistedCover DEF Inv, Cover
  <2> QED BY <1>3, <2>3, <2>4 DEF Cover
<1>6. CASE b.state = "error" /\ UNCHANGED <<ckpt, cands>>
  <2>1. work[b.c] = b.work
    BY <1>6 DEF Inv, Cover, BarrierHonest
  <2>2. Redundant(work[b.c]) \subseteq cands[b.c]
    BY <1>2, <2>1, CoveredHere DEF Inv, Cover
  <2>3. NothingLost'
    BY <1>2, <1>4, <1>6, <2>2 DEF NothingLost
  <2>4. SavedCover'
    BY <1>2, <1>6 DEF Inv, Cover, SavedCover
  <2> QED BY <1>3, <2>3, <2>4 DEF Cover
<1> QED BY <1>1, <1>2, <1>5, <1>6

(* A barrier that goes on, about the same AAG, as honest as before.        *)
LEMMA BarrierOnCover ==
  ASSUME Inv, NEW b \in barrier, NEW d, barrier' = {d}, d.c = b.c, d.work = b.work,
         d.accepted = {} => d.rejected \cap Redundant(d.work) = {},
         work[b.c] = b.work \/ d.state = "installed" \/ (d.state = "finished" /\ d.committed),
         UNCHANGED <<work, cands, ckpt, seed, pc>>
  PROVE  Cover'
<1>1. \A e \in barrier : e = b
  BY DEF Inv, SafetyInv, BarrierAlone
<1>2. BarrierHonest'
  BY DEF BarrierHonest
<1>3. NothingLost'
  BY <1>1 DEF Inv, Cover, NothingLost
<1>4. SavedCover'
  BY DEF Inv, Cover, SavedCover
<1> QED BY <1>2, <1>3, <1>4 DEF Cover

(* The serial recheck rejects, before it accepts anything, only what is    *)
(* not redundant by itself.                                                *)
LEMMA RecheckCover ==
  ASSUME Inv, NEW b \in barrier, NEW k \in b.todo, Recheck(b, k)
  PROVE  Cover'
<1>1. /\ TypeOK /\ b \in Barriers /\ b.state = "recheck" /\ work[b.c] = b.work
      /\ UNCHANGED <<work, cands, ckpt, seed, pc>>
  BY DEF Inv, SafetyInv, TypeInv, TypeOK, NeverStale, Recheck, files, frontier, control
<1>2. k \in Candidate /\ (b.accepted = {} => b.rejected \cap Redundant(b.work) = {})
  BY <1>1 DEF Inv, Cover, BarrierHonest, Barriers
<1>3. CASE barrier' = {[b EXCEPT !.state = "error"]}
  <2> DEFINE d == [b EXCEPT !.state = "error"]
  <2>1. d.c = b.c /\ d.work = b.work /\ d.accepted = b.accepted /\ d.rejected = b.rejected
    BY <1>1 DEF Barriers
  <2> HIDE DEF d
  <2>2. barrier' = {d}
    BY <1>3 DEF d
  <2> QED BY <1>1, <1>2, <2>1, <2>2, BarrierOnCover
<1>4. CASE barrier' = {Rechecked(b, k)}
  <2> DEFINE d == Rechecked(b, k)
  <2>1. d.c = b.c /\ d.work = b.work /\ d.accepted = b.accepted /\ d.rejected = b.rejected
    BY <1>1 DEF Barriers, Rechecked
  <2> HIDE DEF d
  <2>2. barrier' = {d}
    BY <1>4 DEF d
  <2> QED BY <1>1, <1>2, <2>1, <2>2, BarrierOnCover
<1>5. CASE barrier' = {[Rechecked(b, k) EXCEPT !.timedOut = b.timedOut \cup {k}]}
  <2> DEFINE d == [Rechecked(b, k) EXCEPT !.timedOut = b.timedOut \cup {k}]
  <2>1. d.c = b.c /\ d.work = b.work /\ d.accepted = b.accepted /\ d.rejected = b.rejected
    BY <1>1 DEF Barriers, Rechecked
  <2> HIDE DEF d
  <2>2. barrier' = {d}
    BY <1>5 DEF d
  <2> QED BY <1>1, <1>2, <2>1, <2>2, BarrierOnCover
<1>6. CASE barrier' = {[Rechecked(b, k) EXCEPT !.accepted = b.accepted \cup {k}]}
  <2> DEFINE d == [Rechecked(b, k) EXCEPT !.accepted = b.accepted \cup {k}]
  <2>1. d.c = b.c /\ d.work = b.work /\ d.accepted # {}
    BY <1>1 DEF Barriers, Rechecked
  <2> HIDE DEF d
  <2>2. barrier' = {d}
    BY <1>6 DEF d
  <2> QED BY <1>1, <2>1, <2>2, BarrierOnCover
<1>7. CASE /\ b.accepted \cup {k} \notin Safe[work[b.c]]
           /\ barrier' = {[Rechecked(b, k) EXCEPT !.rejected = b.rejected \cup {k}]}
  <2> DEFINE d == [Rechecked(b, k) EXCEPT !.rejected = b.rejected \cup {k}]
  <2>1. /\ d.c = b.c /\ d.work = b.work /\ d.accepted = b.accepted
        /\ d.rejected = b.rejected \cup {k}
    BY <1>1 DEF Barriers, Rechecked
  <2> HIDE DEF d
  <2>2. barrier' = {d}
    BY <1>7 DEF d
  <2>3. b.accepted = {} => k \notin Redundant(b.work)
    BY <1>1, <1>7 DEF Redundant
  <2> QED BY <1>1, <1>2, <2>1, <2>2, <2>3, BarrierOnCover
<1>8. \/ barrier' = {[b EXCEPT !.state = "error"]}
      \/ barrier' = {Rechecked(b, k)}
      \/ barrier' = {[Rechecked(b, k) EXCEPT !.timedOut = b.timedOut \cup {k}]}
      \/ barrier' = {[Rechecked(b, k) EXCEPT !.accepted = b.accepted \cup {k}]}
      \/ /\ b.accepted \cup {k} \notin Safe[work[b.c]]
         /\ barrier' = {[Rechecked(b, k) EXCEPT !.rejected = b.rejected \cup {k}]}
  BY <1>1 DEF Recheck, Rechecked, Barriers
<1> QED BY <1>3, <1>4, <1>5, <1>6, <1>7, <1>8

(* The install replaces the AAG by a smaller one, hence by another one, and*)
(* the circuit of the barrier is excused until the commit is handled.      *)
LEMMA CheckAndInstallCover ==
  ASSUME Inv, NEW b \in barrier, CheckAndInstall(b)
  PROVE  Cover'
<1>1. /\ TypeOK /\ b \in Barriers /\ b.c \in Circuits /\ work[b.c] = b.work
      /\ b.accepted = {} => b.rejected \cap Redundant(b.work) = {}
      /\ UNCHANGED <<cands, ckpt, seed, pc>>
  BY DEF Inv, SafetyInv, TypeInv, TypeOK, Barriers, NeverStale, CheckAndInstall, frontier,
         control, Cover, BarrierHonest
<1>2. CASE barrier' = {[b EXCEPT !.state = "finished"]} /\ UNCHANGED work
  <2> DEFINE d == [b EXCEPT !.state = "finished"]
  <2>1. d.c = b.c /\ d.work = b.work /\ d.accepted = b.accepted /\ d.rejected = b.rejected
    BY <1>1 DEF Barriers
  <2> HIDE DEF d
  <2>2. barrier' = {d}
    BY <1>2 DEF d
  <2> QED BY <1>1, <1>2, <2>1, <2>2, BarrierOnCover
<1>3. CASE /\ b.accepted # {} /\ work' = [work EXCEPT ![b.c] = Rewrite(b)]
           /\ barrier' = {[b EXCEPT !.state = "installed"]}
  <2> DEFINE d == [b EXCEPT !.state = "installed"]
  <2>1. d.c = b.c /\ d.work = b.work /\ d.accepted # {} /\ d.state = "installed"
    BY <1>1, <1>3 DEF Barriers
  <2> HIDE DEF d
  <2>2. barrier' = {d}
    BY <1>3 DEF d
  <2>3. Rewrite(b) # b.work
    <3>1. b.work \in Works /\ b.accepted \in Safe[b.work] \ {{}}
      BY <1>1, <1>3 DEF Inv, SafetyInv, TypeInv, AcceptedSafe, Barriers
    <3>2. Gates[Rewrite(b)] < Gates[b.work] /\ Gates[b.work] \in Nat
      BY <3>1, RestructuredAssumption, WorksAssumption DEF Rewrite
    <3> QED BY <3>2
  <2>4. /\ work'[b.c] = Rewrite(b)
        /\ \A c \in Circuits : c # b.c => work'[c] = work[c]
    BY <1>1, <1>3 DEF TypeOK
  <2>5. BarrierHonest'
    BY <2>1, <2>2 DEF BarrierHonest
  <2>6. NothingLost'
    <3>1. \A e \in barrier : e = b
      BY DEF Inv, SafetyInv, BarrierAlone
    <3>2. \A c \in Circuits : c # b.c /\ pc # "crashed" => Redundant(work'[c]) \subseteq cands[c]
      BY <2>4, <3>1 DEF Inv, Cover, NothingLost
    <3>3. d \in barrier' /\ d.work # work'[b.c]
      BY <2>1, <2>2, <2>3, <2>4
    <3> QED BY <1>1, <2>1, <3>2, <3>3 DEF NothingLost
  <2>7. SavedCover'
    BY <1>1 DEF Inv, Cover, SavedCover
  <2> QED BY <2>5, <2>6, <2>7 DEF Cover
<1> QED BY <1>2, <1>3 DEF CheckAndInstall

(* A report, or a failure before the install.                              *)
LEMMA EndOfBarrierCover ==
  ASSUME NoLateDeath, Inv, NEW b \in barrier, Report(b) \/ BarrierFails(b)
  PROVE  Cover'
<1>1. /\ b \in Barriers /\ UNCHANGED <<work, cands, ckpt, seed, pc>>
      /\ b.accepted = {} => b.rejected \cap Redundant(b.work) = {}
  BY DEF Inv, SafetyInv, TypeInv, TypeOK, Report, BarrierFails, files, frontier, control,
         Cover, BarrierHonest
<1>2. CASE Report(b)
  <2> DEFINE d == [b EXCEPT !.state = "finished", !.committed = TRUE]
  <2>1. /\ d.c = b.c /\ d.work = b.work /\ d.accepted = b.accepted
        /\ d.rejected = b.rejected /\ d.state = "finished" /\ d.committed
    BY <1>1 DEF Barriers
  <2> HIDE DEF d
  <2>2. barrier' = {d}
    BY <1>2 DEF Report, d
  <2> QED BY <1>1, <2>1, <2>2, BarrierOnCover
<1>3. CASE BarrierFails(b)
  <2> DEFINE d == [b EXCEPT !.state = "error"]
  <2>1. d.c = b.c /\ d.work = b.work /\ d.accepted = b.accepted /\ d.rejected = b.rejected
    BY <1>1 DEF Barriers
  <2> HIDE DEF d
  <2>2. barrier' = {d}
    BY <1>3 DEF BarrierFails, d
  <2>3. work[b.c] = b.work
    BY <1>3 DEF BarrierFails, NoLateDeath, Inv, SafetyInv, NeverStale
  <2> QED BY <1>1, <2>1, <2>2, <2>3, BarrierOnCover
<1> QED BY <1>2, <1>3

(* The last save of a circuit, when no barrier is out.                     *)
LEMMA CloseCover ==
  ASSUME Inv, NEW c \in Circuits, Close(c)
  PROVE  Cover'
<1>1. /\ TypeOK /\ pc \in {"finalize", "final"} /\ barrier = {}
      /\ UNCHANGED <<work, seed, cands, barrier>>
      /\ ckpt' = Persisted(c, work[c], cands[c], hist[c], props[c], propBudget[c], committed[c])
  BY DEF Inv, SafetyInv, TypeInv, BarrierAlone, Close, frontier, executors
<1>2. Redundant(work[c]) \subseteq cands[c]
  BY <1>1, CoveredHere DEF Inv, Cover
<1>3. SavedCover'
  BY <1>1, <1>2, PersistedCover DEF Inv, Cover
<1>4. BarrierHonest' /\ NothingLost'
  BY <1>1 DEF Inv, Cover, BarrierHonest, NothingLost
<1> QED BY <1>3, <1>4 DEF Cover

(* A crash between two steps leaves the checkpoints as they are; one inside*)
(* a save leaves the JSON part of a checkpoint as it was.                  *)
LEMMA CrashCover ==
  ASSUME Inv, Crash \/ CrashInSave
  PROVE  Cover'
<1>1. TypeOK /\ Killed
  BY DEF Inv, SafetyInv, TypeInv, Crash, CrashInSave
<1>2. BarrierHonest' /\ NothingLost' /\ seed' = seed
  BY <1>1 DEF Killed, BarrierHonest, NothingLost
<1>3. \A c \in Circuits : ckpt'[c].sha = ckpt[c].sha /\ ckpt'[c].cands = ckpt[c].cands
  <2>1. CASE UNCHANGED ckpt
    BY <2>1
  <2>2. ASSUME NEW b \in barrier, ckpt' = [ckpt EXCEPT ![b.c].work = work[b.c]]
        PROVE  \A c \in Circuits : ckpt'[c].sha = ckpt[c].sha /\ ckpt'[c].cands = ckpt[c].cands
    BY <1>1, <2>2 DEF TypeOK, Checkpoints
  <2> QED BY <2>1, <2>2 DEF Crash, CrashInSave, DoneBarrier
<1>4. SavedCover'
  BY <1>2, <1>3 DEF Inv, Cover, SavedCover
<1> QED BY <1>2, <1>4 DEF Cover

(* All other steps touch neither AAGs nor frontiers nor the barrier.       *)
LEMMA OthersCover ==
  ASSUME Inv,
         \/ LeaveLoop \/ (\E c \in Circuits : Dispatch(c)) \/ DispatchDone \/ Wait \/ Drained
         \/ (\E t \in returned : HandleWorkerError(t)) \/ Answer
         \/ (\E t \in tasks : WorkerError(t)) \/ WorkerDeath \/ Expire \/ UNCHANGED vars
  PROVE  Cover'
<1>1. UNCHANGED <<work, cands, ckpt, seed, barrier>> /\ (pc' # "crashed" => pc # "crashed")
  <2>1. CASE LeaveLoop \/ DispatchDone \/ Wait \/ Drained \/ \E c \in Circuits : Dispatch(c)
    BY <2>1 DEF LeaveLoop, DispatchDone, Wait, Drained, Dispatch, files, frontier, executors
  <2>2. CASE Answer \/ (\E t \in tasks : WorkerError(t)) \/ WorkerDeath \/ Expire
             \/ UNCHANGED vars
    BY <2>2 DEF Answer, Solve, WorkerError, WorkerDeath, Expire, vars, files, frontier,
                executors, control
  <2>3. CASE \E t \in returned : HandleWorkerError(t)
    BY <2>3 DEF HandleWorkerError, files
  <2> QED BY <2>1, <2>2, <2>3
<1> QED BY <1>1, FrameCover DEF Inv

(* Every step keeps the frontiers covering.                                *)
LEMMA CoverStep ==
  ASSUME NoLateDeath
  PROVE  Inv /\ [Next]_vars => Cover'
<1> SUFFICES ASSUME Inv, [Next]_vars PROVE Cover'
  OBVIOUS
<1>1. CASE Launch
  BY <1>1, LaunchCover
<1>2. CASE LoopTop \/ FinalizeStart
  BY <1>2, AdmissionCover
<1>3. CASE \E t \in returned : HandleResult(t)
  BY <1>3, ResultCover
<1>4. CASE HandleBarrier \/ FinalizeEnd
  BY <1>4, BarrierBackCover
<1>5. CASE CommitProcess \/ \E b \in barrier : BarrierFails(b)
  BY <1>5, RecheckCover, CheckAndInstallCover, EndOfBarrierCover DEF CommitProcess
<1>6. CASE \E c \in Circuits : Close(c)
  BY <1>6, CloseCover
<1>7. CASE Crash \/ CrashInSave
  BY <1>7, CrashCover
<1>8. CASE \/ LeaveLoop \/ (\E c \in Circuits : Dispatch(c)) \/ DispatchDone \/ Wait \/ Drained
           \/ (\E t \in returned : HandleWorkerError(t)) \/ Answer
           \/ (\E t \in tasks : WorkerError(t)) \/ WorkerDeath \/ Expire \/ UNCHANGED vars
  BY <1>8, OthersCover
<1> QED BY <1>1, <1>2, <1>3, <1>4, <1>5, <1>6, <1>7, <1>8 DEF Next, Loop, Misfortune

(* The first campaign is seeded with frontiers that cover their sources.   *)
LEMMA InitCover == Init => Cover
<1> SUFFICES ASSUME Init PROVE Cover
  OBVIOUS
<1>1. BarrierHonest
  BY DEF Init, BarrierHonest
<1>2. NothingLost
  BY SourceAssumption DEF Init, NothingLost
<1>3. SavedCover
  BY SourceAssumption DEF Init, SavedCover, Snapshot
<1> QED BY <1>1, <1>2, <1>3 DEF Cover

(* The frontiers cover in every state of every behavior.                   *)
THEOREM CoverKept ==
  ASSUME NoLateDeath
  PROVE  Spec => []Inv
<1>1. Init => Cover
  BY InitCover
<1>2. Inv /\ [Next]_vars => Cover'
  BY CoverStep
<1>3. SafetyInv /\ Ledger /\ Cover <=> Inv
  BY DEF Inv
<1> QED BY <1>1, <1>2, <1>3, Safety, LedgerKept, PTL DEF Spec

(* No redundancy is ever dropped from the frontier of its work AAG, except *)
(* while a commit waits to be handled (_handle_worker_result,              *)
(* _apply_proposal_barrier, _initialize_state).                            *)
THEOREM NothingIsLost ==
  ASSUME NoLateDeath
  PROVE  Spec => []NothingLost
<1>1. Inv => NothingLost
  BY DEF Inv, Cover
<1> QED BY <1>1, CoverKept, PTL

(* Every checkpoint a later campaign may resume from covers what is        *)
(* redundant in its AAG (_persist_state, _save_checkpoint).                *)
THEOREM SavedFrontiersCover ==
  ASSUME NoLateDeath
  PROVE  Spec => []SavedFrontierCovers
<1>1. Inv => SavedFrontierCovers
  BY DEF Inv, Cover, SavedCover, SavedFrontierCovers, Resumable
<1> QED BY <1>1, CoverKept, PTL

-----------------------------------------------------------------------------
(* A circuit that is complete stays quiet for the rest of the campaign.    *)
CompleteQuiet ==
  \A c \in Circuits : complete[c] =>
    cands[c] = {} /\ props[c] = {} /\ inflight[c] = {} /\ ~committing[c]

(* Terminal marks go to quiet circuits only.                               *)
LEMMA MarksQuiet ==
  ASSUME TypeOK, CompleteQuiet, NEW marked, MarkTerminal(marked),
         UNCHANGED <<cands, props, inflight>>,
         \A c \in Circuits : committing'[c] => committing[c] \/ props[c] # {}
  PROVE  CompleteQuiet'
BY DEF CompleteQuiet, MarkTerminal, Settled, TypeOK

(* A step that marks nothing complete and works only for circuits that are *)
(* not complete.                                                           *)
LEMMA QuietKept ==
  ASSUME CompleteQuiet, UNCHANGED complete,
         \A c \in Circuits : complete[c] =>
           /\ cands'[c] \subseteq cands[c] /\ props'[c] \subseteq props[c]
           /\ inflight'[c] \subseteq inflight[c] /\ (committing'[c] => committing[c])
  PROVE  CompleteQuiet'
BY DEF CompleteQuiet

(* The head of the loop and the end of a dispatch round mark circuits.     *)
LEMMA LoopQuiet ==
  ASSUME Inv, CompleteQuiet, LoopTop \/ DispatchDone \/ \E c \in Circuits : Close(c)
  PROVE  CompleteQuiet'
<1>1. TypeOK /\ UNCHANGED <<cands, props, inflight>>
  BY DEF Inv, SafetyInv, TypeInv, LoopTop, DispatchDone, Close, frontier
<1>2. \A c \in Circuits : committing'[c] => committing[c] \/ props[c] # {}
  BY <1>1 DEF LoopTop, AdmitBarrier, AwaitsBarrier, SkipBarrier, DispatchDone, Close, commits,
              TypeOK
<1>3. CASE \E marked : MarkTerminal(marked)
  BY <1>1, <1>2, <1>3, MarksQuiet
<1>4. CASE DispatchDone /\ UNCHANGED complete
  BY <1>1, <1>4, QuietKept DEF DispatchDone, commits
<1> QED BY <1>3, <1>4 DEF LoopTop, DispatchDone, Close

(* Dispatch and handlers work for circuits that are not complete.          *)
LEMMA WorkQuiet ==
  ASSUME Inv, CompleteQuiet,
         \/ \E c \in Circuits : Dispatch(c)
         \/ \E t \in returned : HandleWorkerError(t) \/ HandleResult(t)
  PROVE  CompleteQuiet'
<1>1. TypeOK /\ UNCHANGED complete /\ UNCHANGED committing
  BY DEF Inv, SafetyInv, TypeInv, Dispatch, HandleWorkerError, HandleResult, flags, commits
<1>2. ASSUME NEW c \in Circuits, Dispatch(c) PROVE CompleteQuiet'
  <2>1. ~complete[c] /\ UNCHANGED <<cands, props>>
    BY <1>2 DEF Dispatch, Selected, Ready, Dispatchable
  <2>2. \A d \in Circuits : d # c => inflight'[d] = inflight[d]
    <3>1. \/ UNCHANGED inflight
          \/ \E fitted : inflight' = [inflight EXCEPT ![c] = inflight[c] \cup fitted]
      BY <1>2 DEF Dispatch
    <3> QED BY <1>1, <3>1 DEF TypeOK
  <2> QED BY <1>1, <2>1, <2>2, QuietKept
<1>3. ASSUME NEW t \in returned, HandleWorkerError(t) \/ HandleResult(t) PROVE CompleteQuiet'
  <2>1. t \in tasks /\ t.c \in Circuits
    BY <1>1 DEF TypeOK, Tasks
  <2>2. ~complete[t.c]
    BY <2>1 DEF CompleteQuiet, Inv, SafetyInv, TasksTracked
  <2>3. \A c \in Circuits : c # t.c =>
          cands'[c] = cands[c] /\ props'[c] = props[c] /\ inflight'[c] = inflight[c]
    BY <1>1, <1>3 DEF HandleWorkerError, HandleResult, TypeOK
  <2> QED BY <1>1, <2>2, <2>3, QuietKept
<1> QED BY <1>2, <1>3

(* A barrier is put up and handled for circuits that are not complete.     *)
LEMMA BarrierQuiet ==
  ASSUME Inv, CompleteQuiet, HandleBarrier \/ FinalizeStart \/ FinalizeEnd
  PROVE  CompleteQuiet'
<1>1. TypeOK
  BY DEF Inv, SafetyInv, TypeInv
<1>2. CASE FinalizeStart
  <2>1. /\ ~complete[closing] /\ UNCHANGED <<complete, cands, props, inflight>>
        /\ committing' = [committing EXCEPT ![closing] = TRUE]
    BY <1>1, <1>2 DEF FinalizeStart, ToFinalize, CompleteQuiet, TypeOK, flags, frontier
  <2>2. \A c \in Circuits : c # closing => committing'[c] = committing[c]
    BY <1>1, <2>1 DEF TypeOK
  <2> QED BY <2>1, <2>2, QuietKept
<1>3. CASE HandleBarrier \/ FinalizeEnd
  <2>1. PICK b \in barrier :
          \/ ApplyBarrier(b) \/ StaleBarrier(b) \/ BarrierError(b)
          \/ UNCHANGED <<cands, props, committing>>
    BY <1>3 DEF HandleBarrier, FinalizeEnd, DoneBarrier
  <2>2. b.c \in Circuits /\ ~complete[b.c] /\ UNCHANGED <<complete, inflight>>
    BY <1>1, <1>3 DEF TypeOK, Barriers, CompleteQuiet, Inv, SafetyInv, BarrierAlone,
                      HandleBarrier, FinalizeEnd
  <2>3. \A c \in Circuits : c # b.c =>
          cands'[c] = cands[c] /\ props'[c] = props[c] /\ committing'[c] = committing[c]
    BY <1>1, <2>1 DEF ApplyBarrier, StaleBarrier, BarrierError, TypeOK
  <2> QED BY <2>2, <2>3, QuietKept
<1> QED BY <1>2, <1>3

(* All other steps leave the circuits alone, or start them over.           *)
LEMMA OthersQuiet ==
  ASSUME Inv, CompleteQuiet,
         \/ Launch \/ LeaveLoop \/ Wait \/ Drained \/ Answer \/ CommitProcess \/ Expire
         \/ Misfortune \/ UNCHANGED vars
  PROVE  CompleteQuiet'
<1>1. CASE Launch
  BY <1>1 DEF Launch, StartFrom, CompleteQuiet
<1>2. CASE \/ LeaveLoop \/ Wait \/ Drained \/ Answer \/ CommitProcess \/ Expire
           \/ Misfortune \/ UNCHANGED vars
  <2>1. UNCHANGED <<cands, props, inflight, committing, complete>>
    <3>1. CASE LeaveLoop \/ Wait \/ Drained \/ Answer \/ Expire \/ UNCHANGED vars
      BY <3>1 DEF LeaveLoop, Wait, Drained, Answer, Solve, Expire, vars, frontier, flags, commits
    <3>2. CASE CommitProcess
      BY <3>2 DEF CommitProcess, Recheck, CheckAndInstall, Report, frontier, flags, commits
    <3>3. CASE Misfortune
      BY <3>3 DEF Misfortune, WorkerError, WorkerDeath, BarrierFails, Crash, CrashInSave, Killed,
                  frontier, flags, commits
    <3> QED BY <1>2, <3>1, <3>2, <3>3
  <2> QED BY <2>1, QuietKept
<1> QED BY <1>1, <1>2

(* Every step keeps complete circuits quiet.                               *)
LEMMA QuietStep == Inv /\ CompleteQuiet /\ [Next]_vars => CompleteQuiet'
<1> SUFFICES ASSUME Inv, CompleteQuiet, [Next]_vars PROVE CompleteQuiet'
  OBVIOUS
<1>1. CASE LoopTop \/ DispatchDone \/ \E c \in Circuits : Close(c)
  BY <1>1, LoopQuiet
<1>2. CASE \/ \E c \in Circuits : Dispatch(c)
           \/ \E t \in returned : HandleWorkerError(t) \/ HandleResult(t)
  BY <1>2, WorkQuiet
<1>3. CASE HandleBarrier \/ FinalizeStart \/ FinalizeEnd
  BY <1>3, BarrierQuiet
<1>4. CASE \/ Launch \/ LeaveLoop \/ Wait \/ Drained \/ Answer \/ CommitProcess \/ Expire
           \/ Misfortune \/ UNCHANGED vars
  BY <1>4, OthersQuiet
<1> QED BY <1>1, <1>2, <1>3, <1>4 DEF Next, Loop

(* COMPLETE is true of every circuit it is said of: nothing in its work AAG*)
(* is redundant any more, in this campaign or after any number of resumed  *)
(* ones (_mark_terminal_states).                                           *)
THEOREM CompleteIsRight ==
  ASSUME NoLateDeath
  PROVE  Spec => []CompleteIsIrredundant
<1>1. Init => CompleteQuiet
  BY DEF Init, CompleteQuiet
<1>2. Inv /\ CompleteQuiet => CompleteIsIrredundant
  <2> SUFFICES ASSUME Inv, CompleteQuiet, NEW c \in Circuits, complete[c], pc # "crashed"
               PROVE  Redundant(work[c]) = {}
    BY DEF CompleteIsIrredundant
  <2>1. cands[c] = {} /\ \A b \in barrier : b.c # c
    BY DEF CompleteQuiet, Inv, SafetyInv, BarrierAlone
  <2> QED BY <2>1, CoveredHere DEF Inv, Cover
<1> QED BY <1>1, <1>2, QuietStep, CoverKept, PTL DEF Spec

-----------------------------------------------------------------------------
(* Where a campaign can be started again.                                  *)

NoTornSave == "torn_save" \notin Faults

(* A commit the scheduler has not handled yet.                             *)
Landed(c) ==
  \E b \in barrier :
    b.c = c /\ (b.state = "installed" \/ (b.state = "finished" /\ b.committed))

(* An AAG that is smaller than the seed was committed in this campaign, so *)
(* its checkpoint counts even when the frontier is empty.                  *)
Earned(w, from, byCommit) ==
  w = from \/ (Gates[w] < Gates[from] /\ byCommit)

SavesWhole == \A c \in Circuits : \A ck \in {seed[c], ckpt[c]} : ck.sha = ck.work

SavesEarned == \A c \in Circuits : Earned(ckpt[c].work, seed[c].work, ckpt[c].committed)

WorkEarned ==
  pc # "crashed" =>
    \A c \in Circuits : Earned(work[c], seed[c].work, committed[c] \/ Landed(c))

Progress == SavesWhole /\ SavesEarned /\ WorkEarned

Campaign == Inv /\ CompleteQuiet /\ FunctionKept /\ Progress

(* discover_best_targets takes what was earned, if it has gates at all.    *)
LEMMA BestIsNewer ==
  ASSUME NEW older, NEW newer, older.work \in Works, newer.work \in Works,
         newer.sha = newer.work, Earned(newer.work, older.work, newer.committed)
  PROVE  Best(older, newer).work =
           IF Gates[newer.work] > 0 THEN newer.work ELSE older.work
<1>1. Gates[older.work] \in Nat /\ Gates[newer.work] \in Nat
  BY WorksAssumption
<1>2. CASE newer.work = older.work
  BY <1>2 DEF Best
<1>3. CASE newer.work # older.work
  <2>1. Gates[newer.work] < Gates[older.work] /\ newer.committed
    BY <1>3 DEF Earned
  <2>2. Discoverable(newer) <=> Gates[newer.work] > 0
    BY <2>1 DEF Discoverable
  <2>3. ~RanksBefore(SeedRank(older), SeedRank(newer))
    BY <1>1, <2>1 DEF RanksBefore, SeedRank
  <2> QED BY <2>2, <2>3 DEF Best
<1> QED BY <1>2, <1>3

LEMMA RestartIsNewer ==
  ASSUME TypeOK, SavesWhole, SavesEarned, NEW c \in Circuits
  PROVE  RestartPoint(c) = IF Gates[ckpt[c].work] > 0 THEN ckpt[c].work ELSE seed[c].work
<1>1. seed[c].work \in Works /\ ckpt[c].work \in Works
  BY DEF TypeOK, Checkpoints
<1> QED BY <1>1, BestIsNewer DEF RestartPoint, SavesWhole, SavesEarned

(* _save_checkpoint writes the state or keeps a checkpoint with as few     *)
(* gates.                                                                  *)
LEMMA PersistedWork ==
  ASSUME TypeOK, SavesWhole, NEW c \in Circuits, NEW cs, NEW h, NEW ps, NEW pb, NEW cm,
         ckpt' = Persisted(c, work[c], cs, h, ps, pb, cm)
  PROVE  /\ \A d \in Circuits : d # c => ckpt'[d] = ckpt[d]
         /\ \/ ckpt'[c] = ckpt[c]
            \/ /\ ckpt'[c] = Snapshot(work[c], cs, h, ps, pb, cm)
               /\ Gates[work[c]] <= Gates[ckpt[c].work]
<1> DEFINE new == Snapshot(work[c], cs, h, ps, pb, cm)
<1>1. new.sha = work[c] /\ new.work = work[c]
  BY DEF Snapshot
<1> HIDE DEF new
<1>2. ckpt' = [ckpt EXCEPT ![c] = Saved(ckpt[c], new)]
  BY DEF Persisted, new
<1>3. /\ ckpt'[c] = Saved(ckpt[c], new)
      /\ \A d \in Circuits : d # c => ckpt'[d] = ckpt[d]
  BY <1>2 DEF TypeOK
<1>4. /\ ckpt[c].work \in Works /\ work[c] \in Works /\ ckpt[c].sha = ckpt[c].work
      /\ Gates[ckpt[c].work] \in Nat /\ Gates[work[c]] \in Nat
  BY WorksAssumption DEF TypeOK, Checkpoints, SavesWhole
<1>5. SaveRank(ckpt[c]).gates = Gates[ckpt[c].work] /\ SaveRank(new).gates = Gates[work[c]]
  BY <1>1, <1>4 DEF SaveRank, Smaller
<1>6. RanksBefore(SaveRank(ckpt[c]), SaveRank(new)) \/ Gates[work[c]] <= Gates[ckpt[c].work]
  BY <1>4, <1>5 DEF RanksBefore
<1>7. ckpt'[c] = ckpt[c] \/ (ckpt'[c] = new /\ Gates[work[c]] <= Gates[ckpt[c].work])
  BY <1>3, <1>6 DEF Saved
<1> QED BY <1>3, <1>7 DEF new

(* A save of an earned AAG, in a step that leaves the AAGs alone.          *)
Saves(c) ==
  /\ UNCHANGED <<work, seed>>
  /\ \/ UNCHANGED ckpt
     \/ \E cs, h, ps, pb, cm :
          /\ ckpt' = Persisted(c, work[c], cs, h, ps, pb, cm)
          /\ Earned(work[c], seed[c].work, cm)

LEMMA SavesProgress ==
  ASSUME TypeOK, SavesWhole, SavesEarned, NEW c \in Circuits, Saves(c)
  PROVE  SavesWhole' /\ SavesEarned'
<1>1. CASE UNCHANGED ckpt
  BY <1>1 DEF Saves, SavesWhole, SavesEarned
<1>2. ASSUME NEW cs, NEW h, NEW ps, NEW pb, NEW cm,
             ckpt' = Persisted(c, work[c], cs, h, ps, pb, cm),
             Earned(work[c], seed[c].work, cm)
      PROVE  SavesWhole' /\ SavesEarned'
  <2> DEFINE new == Snapshot(work[c], cs, h, ps, pb, cm)
  <2>1. \A d \in Circuits : ckpt'[d] = ckpt[d] \/ (d = c /\ ckpt'[d] = new)
    BY <1>2, PersistedWork
  <2>2. new.sha = work[c] /\ new.work = work[c] /\ new.committed = cm
    BY DEF Snapshot
  <2> HIDE DEF new
  <2>3. seed' = seed
    BY DEF Saves
  <2>4. SavesWhole'
    BY <2>1, <2>2, <2>3 DEF SavesWhole
  <2>5. SavesEarned'
    <3> SUFFICES ASSUME NEW d \in Circuits
                 PROVE  Earned(ckpt'[d].work, seed'[d].work, ckpt'[d].committed)
      BY DEF SavesEarned
    <3>1. CASE ckpt'[d] = ckpt[d]
      BY <2>3, <3>1 DEF SavesEarned
    <3>2. CASE d = c /\ ckpt'[d] = new
      BY <1>2, <2>2, <2>3, <3>2
    <3> QED BY <2>1, <3>1, <3>2
  <2> QED BY <2>4, <2>5
<1> QED BY <1>1, <1>2 DEF Saves

(* Where it moves the restart point, it moves it to the AAG at hand.       *)
MovesTo(c, w) ==
  \/ UNCHANGED RestartPoint(c)
  \/ RestartPoint(c)' = w /\ Gates[w] <= Gates[RestartPoint(c)]
  \/ Gates[ckpt'[c].work] = 0

LEMMA SavesMove ==
  ASSUME TypeOK, TypeOK', SavesWhole, SavesEarned, NEW c \in Circuits, Saves(c),
         NEW d \in Circuits
  PROVE  MovesTo(d, work[d])
<1>1. SavesWhole' /\ SavesEarned'
  BY SavesProgress
<1>2. RestartPoint(d) = IF Gates[ckpt[d].work] > 0 THEN ckpt[d].work ELSE seed[d].work
  BY RestartIsNewer
<1>3. RestartPoint(d)' = IF Gates[ckpt'[d].work] > 0 THEN ckpt'[d].work ELSE seed'[d].work
  <2>1. seed'[d].work \in Works /\ ckpt'[d].work \in Works
    BY DEF TypeOK, Checkpoints
  <2> QED BY <1>1, <2>1, BestIsNewer DEF RestartPoint, SavesWhole, SavesEarned
<1>4. seed' = seed
  BY DEF Saves
<1>5. CASE ckpt'[d] = ckpt[d]
  BY <1>4, <1>5 DEF MovesTo, RestartPoint
<1>6. CASE d = c /\ ckpt'[c] # ckpt[c]
  <2>1. PICK cs, h, ps, pb, cm : ckpt' = Persisted(c, work[c], cs, h, ps, pb, cm)
    BY <1>6 DEF Saves
  <2>2. ckpt'[c].work = work[c] /\ Gates[work[c]] <= Gates[ckpt[c].work]
    <3>1. /\ ckpt'[c] = Snapshot(work[c], cs, h, ps, pb, cm)
          /\ Gates[work[c]] <= Gates[ckpt[c].work]
      BY <1>6, <2>1, PersistedWork
    <3> QED BY <3>1 DEF Snapshot
  <2>3. Gates[work[c]] \in Nat /\ Gates[ckpt[c].work] \in Nat
    BY WorksAssumption DEF TypeOK, Checkpoints
  <2>4. Gates[work[c]] > 0 => RestartPoint(c)' = work[c] /\ RestartPoint(c) = ckpt[c].work
    BY <1>2, <1>3, <1>6, <2>2, <2>3
  <2> QED BY <1>6, <2>2, <2>3, <2>4 DEF MovesTo
<1>7. d # c => ckpt'[d] = ckpt[d]
  <2>1. CASE UNCHANGED ckpt
    BY <2>1
  <2>2. ASSUME NEW cs, NEW h, NEW ps, NEW pb, NEW cm,
               ckpt' = Persisted(c, work[c], cs, h, ps, pb, cm)
        PROVE  d # c => ckpt'[d] = ckpt[d]
    BY <2>2, PersistedWork
  <2> QED BY <2>1, <2>2 DEF Saves
<1> QED BY <1>5, <1>6, <1>7

(* What a checkpoint is written of: no commit waits to be handled then.    *)
LEMMA ResultSaves ==
  ASSUME Inv, Progress, NEW t \in returned, HandleResult(t)
  PROVE  t.c \in Circuits /\ Saves(t.c)
<1>1. /\ TypeOK /\ t \in tasks /\ t.c \in Circuits /\ pc # "crashed"
      /\ UNCHANGED <<work, seed>>
  BY DEF Inv, SafetyInv, TypeInv, TypeOK, Tasks, HandleResult
<1>2. ~Landed(t.c)
  BY <1>1, NoTaskUnderBarrier DEF Inv, SafetyInv, Landed
<1>3. Earned(work[t.c], seed[t.c].work, committed[t.c])
  BY <1>1, <1>2 DEF Progress, WorkEarned, Earned
<1> QED BY <1>1, <1>3 DEF HandleResult, Saves

LEMMA BarrierSaves ==
  ASSUME Inv, Progress, HandleBarrier \/ FinalizeEnd
  PROVE  \E b \in barrier : b.c \in Circuits /\ Saves(b.c)
<1>1. PICK b \in barrier :
        b.state \in {"finished", "error"} /\ (ApplyBarrier(b) \/ UNCHANGED ckpt)
  BY DEF HandleBarrier, FinalizeEnd, DoneBarrier, BarrierError, StaleBarrier
<1>2. /\ TypeOK /\ b.c \in Circuits /\ pc # "crashed" /\ UNCHANGED <<work, seed>>
      /\ \A d \in barrier : d = b
  BY DEF Inv, SafetyInv, TypeInv, TypeOK, Barriers, BarrierAlone, HandleBarrier, FinalizeEnd
<1>3. CASE ApplyBarrier(b)
  <2>1. committed'[b.c] <=> committed[b.c] \/ b.committed
    BY <1>2, <1>3 DEF ApplyBarrier, TypeOK
  <2>2. Landed(b.c) => b.committed
    BY <1>1, <1>2 DEF Landed
  <2>3. Earned(work[b.c], seed[b.c].work, committed[b.c] \/ Landed(b.c))
    BY <1>2 DEF Progress, WorkEarned
  <2>4. Earned(work[b.c], seed[b.c].work, committed'[b.c])
    BY <2>1, <2>2, <2>3 DEF Earned
  <2> QED BY <1>2, <1>3, <2>4 DEF ApplyBarrier, Saves
<1> QED BY <1>1, <1>2, <1>3 DEF Saves

LEMMA CloseSaves ==
  ASSUME Inv, Progress, NEW c \in Circuits, Close(c)
  PROVE  Saves(c)
<1>1. /\ pc # "crashed" /\ barrier = {} /\ UNCHANGED <<work, seed>>
      /\ ckpt' = Persisted(c, work[c], cands[c], hist[c], props[c], propBudget[c], committed[c])
  BY DEF Inv, SafetyInv, BarrierAlone, Close
<1>2. Earned(work[c], seed[c].work, committed[c])
  BY <1>1 DEF Progress, WorkEarned, Landed, Earned
<1> QED BY <1>1, <1>2 DEF Saves

(* A commit is remembered until the campaign ends, and before it is        *)
(* handled, by its barrier.                                                *)
LEMMA EarnedKept ==
  ASSUME WorkEarned, UNCHANGED <<work, seed>>, pc' # "crashed" => pc # "crashed",
         \A c \in Circuits : committed[c] \/ Landed(c) => committed'[c] \/ Landed(c)'
  PROVE  WorkEarned'
BY DEF WorkEarned, Earned

LEMMA BarrierEarned ==
  ASSUME NoLateDeath, Inv, Progress, NEW b \in barrier,
         (\E k \in b.todo : Recheck(b, k)) \/ Report(b) \/ BarrierFails(b)
  PROVE  WorkEarned'
<1>1. /\ UNCHANGED <<work, seed, committed, pc>> /\ \A d \in barrier : d = b
      /\ b \in Barriers
  BY DEF Inv, SafetyInv, TypeInv, TypeOK, BarrierAlone, Recheck, Report, BarrierFails, files,
         commits, control
<1>2. \A c \in Circuits : Landed(c) => Landed(c)'
  <2>1. CASE b.state = "recheck"
    BY <1>1, <2>1 DEF Landed
  <2>2. CASE Report(b)
    <3> DEFINE d == [b EXCEPT !.state = "finished", !.committed = TRUE]
    <3>1. d.c = b.c /\ d.state = "finished" /\ d.committed
      BY <1>1 DEF Barriers
    <3> HIDE DEF d
    <3>2. barrier' = {d}
      BY <2>2 DEF Report, d
    <3> QED BY <1>1, <3>1, <3>2 DEF Landed
  <2> QED BY <2>1, <2>2 DEF Recheck, BarrierFails, NoLateDeath
<1> QED BY <1>1, <1>2, EarnedKept DEF Progress

LEMMA InstallEarned ==
  ASSUME Inv, Progress, NEW b \in barrier, CheckAndInstall(b)
  PROVE  /\ WorkEarned' /\ b.c \in Circuits /\ UNCHANGED <<ckpt, seed>>
         /\ \A c \in Circuits : c # b.c => work'[c] = work[c]
         /\ \/ UNCHANGED work
            \/ /\ Gates[work'[b.c]] < Gates[work[b.c]]
               /\ Meaning[work'[b.c]] = Meaning[Source[b.c]]
<1>1. /\ b \in Barriers /\ b.state = "recheck" /\ work[b.c] = b.work /\ b.c \in Circuits
      /\ UNCHANGED <<ckpt, seed, committed, pc>> /\ TypeOK
      /\ \A d \in barrier : d = b
  BY DEF Inv, SafetyInv, TypeInv, TypeOK, Barriers, BarrierAlone, NeverStale, CheckAndInstall,
         commits, control
<1>2. \A c \in Circuits : ~Landed(c)
  BY <1>1 DEF Landed
<1>3. CASE UNCHANGED work
  <2>1. WorkEarned'
    BY <1>1, <1>2, <1>3, EarnedKept DEF Progress
  <2> QED BY <1>1, <1>3, <2>1
<1>4. CASE /\ b.accepted # {} /\ Meaning[Rewrite(b)] = Meaning[Source[b.c]]
           /\ work' = [work EXCEPT ![b.c] = Rewrite(b)]
           /\ barrier' = {[b EXCEPT !.state = "installed"]}
  <2> DEFINE d == [b EXCEPT !.state = "installed"]
  <2>1. d.c = b.c /\ d.state = "installed"
    BY <1>1 DEF Barriers
  <2> HIDE DEF d
  <2>2. barrier' = {d}
    BY <1>4 DEF d
  <2>3. b.accepted \in Safe[b.work] \ {{}} /\ b.work \in Works
    BY <1>1, <1>4 DEF Inv, SafetyInv, TypeInv, AcceptedSafe, Barriers
  <2>4. Gates[Rewrite(b)] < Gates[work[b.c]] /\ Rewrite(b) \in Works
    BY <1>1, <2>3, RestructuredAssumption DEF Rewrite
  <2>5. work'[b.c] = Rewrite(b) /\ \A c \in Circuits : c # b.c => work'[c] = work[c]
    BY <1>1, <1>4 DEF TypeOK
  <2>6. Landed(b.c)'
    BY <2>1, <2>2 DEF Landed
  <2>7. WorkEarned'
    <3> SUFFICES ASSUME pc # "crashed", NEW c \in Circuits
                 PROVE  Earned(work'[c], seed[c].work, committed[c] \/ Landed(c)')
      BY <1>1 DEF WorkEarned
    <3>1. Earned(work[c], seed[c].work, committed[c])
      BY <1>2 DEF Progress, WorkEarned, Earned
    <3>2. Gates[work[c]] \in Nat /\ Gates[seed[c].work] \in Nat /\ Gates[Rewrite(b)] \in Nat
      BY <1>1, <2>4, WorksAssumption DEF TypeOK, Checkpoints
    <3>3. CASE c = b.c
      BY <2>4, <2>5, <2>6, <3>1, <3>2, <3>3 DEF Earned
    <3>4. CASE c # b.c
      BY <2>5, <3>1, <3>4 DEF Earned
    <3> QED BY <3>3, <3>4
  <2> QED BY <1>1, <1>4, <2>4, <2>5, <2>7
<1> QED BY <1>3, <1>4 DEF CheckAndInstall

LEMMA HandledEarned ==
  ASSUME Inv, Progress, HandleBarrier \/ FinalizeEnd
  PROVE  WorkEarned'
<1>1. PICK b \in barrier :
        /\ b.state \in {"finished", "error"}
        /\ \/ ApplyBarrier(b)
           \/ b.state = "error" /\ UNCHANGED committed
           \/ b.generation # generation[b.c]
  BY DEF HandleBarrier, FinalizeEnd, DoneBarrier, BarrierError, StaleBarrier
<1>2. /\ TypeOK /\ b.c \in Circuits /\ b.generation = generation[b.c] /\ pc # "crashed"
      /\ UNCHANGED <<work, seed>>
      /\ \A d \in barrier : d = b
  BY DEF Inv, SafetyInv, TypeInv, TypeOK, Barriers, NeverStale, BarrierAlone, HandleBarrier,
         FinalizeEnd
<1>3. \A c \in Circuits : Landed(c) => c = b.c /\ b.state = "finished" /\ b.committed
  BY <1>1, <1>2 DEF Landed
<1>4. ApplyBarrier(b) =>
        /\ committed'[b.c] <=> (committed[b.c] \/ b.committed)
        /\ \A c \in Circuits : c # b.c => committed'[c] = committed[c]
  BY <1>2 DEF ApplyBarrier, TypeOK
<1>5. \A c \in Circuits : committed[c] \/ Landed(c) => committed'[c]
  BY <1>1, <1>2, <1>3, <1>4
<1> QED BY <1>2, <1>5, EarnedKept DEF Progress

LEMMA LaunchProgress ==
  ASSUME Inv, Progress, Launch
  PROVE  /\ Progress'
         /\ \A c \in Circuits : /\ work'[c] = RestartPoint(c) /\ UNCHANGED RestartPoint(c)
                               /\ complete'[c] = FALSE
<1> DEFINE s == [c \in Circuits |-> Best(seed[c], ckpt[c])]
<1>1. StartFrom(s)
  BY DEF Launch
<1>2. \A c \in Circuits : s[c] = Best(seed[c], ckpt[c]) /\ s[c] \in {seed[c], ckpt[c]}
  BY DEF Best
<1> HIDE DEF s
<1>3. /\ seed' = s /\ work' = [c \in Circuits |-> s[c].work]
      /\ complete' = [c \in Circuits |-> FALSE]
      /\ ckpt' = [c \in Circuits |->
                    Snapshot(s[c].work, cands'[c], hist'[c], props'[c], propBudget'[c], FALSE)]
  BY <1>1 DEF StartFrom
<1>4. \A c \in Circuits : ckpt'[c].work = s[c].work /\ ckpt'[c].sha = s[c].work
  BY <1>3 DEF Snapshot
<1>5. SavesWhole'
  BY <1>2, <1>3, <1>4 DEF Progress, SavesWhole
<1>6. SavesEarned' /\ WorkEarned'
  BY <1>3, <1>4 DEF SavesEarned, WorkEarned, Earned
<1>7. \A c \in Circuits : Best(seed'[c], ckpt'[c]).work = s[c].work
  BY <1>3, <1>4 DEF Best
<1> QED BY <1>2, <1>3, <1>5, <1>6, <1>7 DEF Progress, RestartPoint

(* All other steps move no files and drop no commit.                       *)
LEMMA OthersEarned ==
  ASSUME Inv, Progress,
         \/ LoopTop \/ LeaveLoop \/ (\E c \in Circuits : Dispatch(c)) \/ DispatchDone \/ Wait
         \/ (\E t \in returned : HandleWorkerError(t)) \/ Drained \/ FinalizeStart \/ Answer
         \/ (\E t \in tasks : WorkerError(t)) \/ WorkerDeath \/ Expire \/ Crash
         \/ UNCHANGED vars
  PROVE  UNCHANGED files /\ WorkEarned'
<1>1. CASE Crash
  BY <1>1 DEF Crash, Killed, files, WorkEarned
<1>2. CASE LoopTop \/ FinalizeStart
  <2>1. UNCHANGED <<files, committed>> /\ pc # "crashed" /\ (barrier = {} \/ UNCHANGED barrier)
    BY <1>2 DEF LoopTop, AdmitBarrier, SkipBarrier, FinalizeStart, Inv, SafetyInv, BarrierAlone
  <2>2. \A c \in Circuits : Landed(c) => Landed(c)'
    BY <2>1 DEF Landed
  <2> QED BY <2>1, <2>2, EarnedKept DEF Progress, files
<1>3. CASE \/ LeaveLoop \/ (\E c \in Circuits : Dispatch(c)) \/ DispatchDone \/ Wait
           \/ (\E t \in returned : HandleWorkerError(t)) \/ Drained \/ Answer
           \/ (\E t \in tasks : WorkerError(t)) \/ WorkerDeath \/ Expire \/ UNCHANGED vars
  <2>1. UNCHANGED <<files, committed, barrier>> /\ (pc' # "crashed" => pc # "crashed")
    <3>1. CASE LeaveLoop \/ DispatchDone \/ Wait \/ Drained
      BY <3>1 DEF LeaveLoop, DispatchDone, Wait, Drained, commits, executors
    <3>2. CASE \/ \E c \in Circuits : Dispatch(c)
               \/ \E t \in returned : HandleWorkerError(t)
      BY <3>2 DEF Dispatch, HandleWorkerError, commits
    <3>3. CASE Answer \/ (\E t \in tasks : WorkerError(t)) \/ WorkerDeath
      BY <3>3 DEF Answer, Solve, WorkerError, WorkerDeath, commits, control
    <3>4. CASE Expire \/ UNCHANGED vars
      BY <3>4 DEF Expire, vars, commits, executors, control
    <3> QED BY <1>3, <3>1, <3>2, <3>3, <3>4
  <2>2. \A c \in Circuits : Landed(c) => Landed(c)'
    BY <2>1 DEF Landed
  <2> QED BY <2>1, <2>2, EarnedKept DEF Progress, files
<1> QED BY <1>1, <1>2, <1>3

LEMMA SavingEarned ==
  ASSUME Inv, Progress,
         \/ \E t \in returned : HandleResult(t)
         \/ \E c \in Circuits : Close(c)
  PROVE  WorkEarned'
<1>1. /\ UNCHANGED <<work, seed, committed, barrier>> /\ pc # "crashed"
  BY DEF HandleResult, Close, commits, executors
<1>2. \A c \in Circuits : Landed(c) => Landed(c)'
  BY <1>1 DEF Landed
<1> QED BY <1>1, <1>2, EarnedKept DEF Progress

(* The steps that may save, and where they leave the files.                *)
Saving ==
  \/ \E t \in returned : HandleResult(t)
  \/ HandleBarrier \/ FinalizeEnd
  \/ \E c \in Circuits : Close(c)

LEMMA SavingSaves ==
  ASSUME Inv, Progress, Saving
  PROVE  Progress' /\ \E c \in Circuits : Saves(c)
<1>1. \E c \in Circuits : Saves(c)
  BY ResultSaves, BarrierSaves, CloseSaves DEF Saving
<1>2. WorkEarned'
  BY SavingEarned, HandledEarned DEF Saving
<1>3. TypeOK
  BY DEF Inv, SafetyInv, TypeInv
<1> QED BY <1>1, <1>2, <1>3, SavesProgress DEF Progress

LEMMA FilesProgress ==
  ASSUME Progress, UNCHANGED <<ckpt, seed>>, WorkEarned'
  PROVE  Progress'
BY DEF Progress, SavesWhole, SavesEarned

LEMMA ProgressStep ==
  ASSUME NoLateDeath, NoTornSave
  PROVE  Inv /\ Progress /\ [Next]_vars => Progress'
<1> SUFFICES ASSUME Inv, Progress, [Next]_vars PROVE Progress'
  OBVIOUS
<1>1. CASE Launch
  BY <1>1, LaunchProgress
<1>2. CASE Saving
  BY <1>2, SavingSaves
<1>3. CASE \E b \in barrier : CheckAndInstall(b)
  BY <1>3, InstallEarned, FilesProgress
<1>4. CASE \E b \in barrier : (\E k \in b.todo : Recheck(b, k)) \/ Report(b) \/ BarrierFails(b)
  <2>1. UNCHANGED <<ckpt, seed>>
    BY <1>4 DEF Recheck, Report, BarrierFails, files
  <2>2. WorkEarned'
    BY <1>4, BarrierEarned
  <2> QED BY <2>1, <2>2, FilesProgress
<1>5. CASE CrashInSave
  BY <1>5 DEF CrashInSave, NoTornSave
<1>6. CASE \/ LoopTop \/ LeaveLoop \/ (\E c \in Circuits : Dispatch(c)) \/ DispatchDone \/ Wait
           \/ (\E t \in returned : HandleWorkerError(t)) \/ Drained \/ FinalizeStart \/ Answer
           \/ (\E t \in tasks : WorkerError(t)) \/ WorkerDeath \/ Expire \/ Crash
           \/ UNCHANGED vars
  BY <1>6, OthersEarned, FilesProgress DEF files
<1> QED BY <1>1, <1>2, <1>3, <1>4, <1>5, <1>6 DEF Next, Loop, CommitProcess, Misfortune, Saving

LEMMA InitProgress == Init => Progress
<1> SUFFICES ASSUME Init PROVE Progress
  OBVIOUS
<1>1. \A c \in Circuits : seed[c].work = Source[c] /\ seed[c].sha = Source[c]
  BY DEF Init, Snapshot
<1>2. ckpt = seed /\ work = Source
  BY DEF Init
<1> QED BY <1>1, <1>2 DEF Progress, SavesWhole, SavesEarned, WorkEarned, Earned

LEMMA Campaigns ==
  ASSUME NoLateDeath, NoTornSave
  PROVE  Spec => []Campaign
<1>1. Init => CompleteQuiet /\ Progress
  BY InitProgress DEF Init, CompleteQuiet
<1>2. Inv /\ Progress /\ [Next]_vars => Progress'
  BY ProgressStep
<1>3. Inv /\ CompleteQuiet /\ FunctionKept /\ Progress <=> Campaign
  BY DEF Campaign
<1> QED BY <1>1, <1>2, <1>3, QuietStep, CoverKept, FunctionIsKept, PTL DEF Spec

(* No step moves the restart point but to the AAG at hand, or a launch.    *)
LEMMA RestartMoves ==
  ASSUME NoLateDeath, NoTornSave, Campaign, Campaign', [Next]_vars, NEW c \in Circuits
  PROVE  MovesTo(c, work[c])
<1>1. TypeOK /\ TypeOK' /\ Inv /\ Progress
  BY DEF Campaign, Inv, SafetyInv, TypeInv
<1>2. CASE Launch
  BY <1>1, <1>2, LaunchProgress DEF MovesTo
<1>3. CASE Saving
  BY <1>1, <1>3, SavingSaves, SavesMove DEF Progress
<1>4. CASE UNCHANGED <<ckpt, seed>>
  BY <1>4 DEF MovesTo, RestartPoint
<1>5. CASE \E b \in barrier : CheckAndInstall(b)
  BY <1>1, <1>4, <1>5, InstallEarned
<1>6. CASE \E b \in barrier : (\E k \in b.todo : Recheck(b, k)) \/ Report(b) \/ BarrierFails(b)
  <2>1. UNCHANGED <<ckpt, seed>>
    BY <1>6 DEF Recheck, Report, BarrierFails, files
  <2> QED BY <1>4, <2>1
<1>7. CASE CrashInSave
  BY <1>7 DEF CrashInSave, NoTornSave
<1>8. CASE \/ LoopTop \/ LeaveLoop \/ (\E d \in Circuits : Dispatch(d)) \/ DispatchDone \/ Wait
           \/ (\E t \in returned : HandleWorkerError(t)) \/ Drained \/ FinalizeStart \/ Answer
           \/ (\E t \in tasks : WorkerError(t)) \/ WorkerDeath \/ Expire \/ Crash
           \/ UNCHANGED vars
  BY <1>1, <1>4, <1>8, OthersEarned DEF files
<1> QED BY <1>2, <1>3, <1>5, <1>6, <1>7, <1>8
        DEF Next, Loop, CommitProcess, Misfortune, Saving

(* The AAG a later campaign begins with never gets larger, over all        *)
(* timeouts, failed futures, crashes and restarts; unless a save has no    *)
(* gates left, which discover_best_targets does not count.                 *)
THEOREM RestartPointIsKept ==
  ASSUME NoLateDeath, NoTornSave
  PROVE  Spec => RestartPointKept
<1> DEFINE NotUp(c) == Gates[RestartPoint(c)'] <= Gates[RestartPoint(c)] \/ Gates[ckpt'[c].work] = 0
<1>1. Campaign /\ Campaign' /\ [Next]_vars => \A c \in Circuits : NotUp(c)
  <2> SUFFICES ASSUME Campaign, Campaign', [Next]_vars, NEW c \in Circuits PROVE NotUp(c)
    OBVIOUS
  <2>1. MovesTo(c, work[c])
    BY RestartMoves
  <2>2. Gates[RestartPoint(c)] \in Nat
    <3>1. seed[c].work \in Works /\ ckpt[c].work \in Works
      BY DEF Campaign, Inv, SafetyInv, TypeInv, TypeOK, Checkpoints
    <3> QED BY <3>1, WorksAssumption DEF RestartPoint, Best
  <2> QED BY <2>1, <2>2 DEF MovesTo
<1>2. Campaign /\ Campaign' /\ [Next]_vars =>
        [\A c \in Circuits :
           Gates[RestartPoint(c)'] <= Gates[RestartPoint(c)] \/ Gates[ckpt'[c].work] = 0]_vars
  BY <1>1
<1> QED BY <1>2, Campaigns, PTL DEF Spec, RestartPointKept

(* Every AAG the campaigns can meet keeps a gate: one without would not be *)
(* found again.                                                            *)
HasGates == \A w \in Works : Gates[w] > 0

(* Terminal marks go to irredundant circuits only.                         *)
LEMMA MarksIrredundant ==
  ASSUME Inv, pc # "crashed", NEW marked, MarkTerminal(marked), NEW c \in Circuits
  PROVE  complete'[c] = complete[c] \/ (complete'[c] = TRUE /\ Redundant(work[c]) = {})
<1>1. complete'[c] = (complete[c] \/ (c \in marked /\ Settled(c) /\ cands[c] = {}))
  BY DEF MarkTerminal
<1>2. Settled(c) => \A b \in barrier : b.c # c
  BY DEF Settled, Inv, SafetyInv, BarrierAlone
<1>3. Settled(c) /\ cands[c] = {} => Redundant(work[c]) = {}
  BY <1>2, CoveredHere DEF Inv, Cover
<1>4. complete[c] \in BOOLEAN
  BY DEF Inv, SafetyInv, TypeInv, TypeOK
<1> QED BY <1>1, <1>3, <1>4

(* A circuit is marked, or left as it is, while its AAG stays.             *)
LEMMA CircuitStays ==
  ASSUME NoLateDeath, NoTornSave, Campaign, Campaign', Next, ~Launch, NEW c \in Circuits
  PROVE  \/ complete'[c] = complete[c]
         \/ complete'[c] = TRUE /\ Redundant(work[c]) = {}
<1>1. Inv
  BY DEF Campaign
<1>2. CASE LoopTop \/ DispatchDone \/ \E d \in Circuits : Close(d)
  <2>1. UNCHANGED complete \/ \E marked : MarkTerminal(marked)
    BY <1>2 DEF LoopTop, DispatchDone, Close
  <2>2. pc # "crashed"
    BY <1>2 DEF LoopTop, DispatchDone, Close
  <2> QED BY <1>1, <2>1, <2>2, MarksIrredundant
<1>3. CASE \/ LeaveLoop \/ (\E d \in Circuits : Dispatch(d)) \/ Wait \/ HandleBarrier
           \/ (\E t \in returned : HandleWorkerError(t) \/ HandleResult(t)) \/ Drained
           \/ FinalizeStart \/ FinalizeEnd
  BY <1>3 DEF LeaveLoop, Dispatch, Wait, HandleBarrier, HandleWorkerError, HandleResult, Drained,
              FinalizeStart, FinalizeEnd, flags
<1>4. CASE CommitProcess \/ Answer \/ Expire \/ Misfortune
  BY <1>4 DEF CommitProcess, Recheck, CheckAndInstall, Report, Answer, Solve, Expire, Misfortune,
              WorkerError, WorkerDeath, BarrierFails, Crash, CrashInSave, Killed, flags
<1> QED BY <1>2, <1>3, <1>4 DEF Next, Loop

(* Only the install changes a work AAG.                                    *)
LEMMA AAGStays ==
  ASSUME Next, ~Launch, ~\E b \in barrier : CheckAndInstall(b)
  PROVE  UNCHANGED work
<1>1. CASE Loop
  BY <1>1 DEF Loop, LoopTop, LeaveLoop, Dispatch, DispatchDone, Wait, HandleBarrier,
              HandleWorkerError, HandleResult, Drained, FinalizeStart, FinalizeEnd, Close, files
<1>2. CASE CommitProcess \/ Answer \/ Expire \/ Misfortune
  BY <1>2 DEF CommitProcess, Recheck, Report, Answer, Solve, Expire, Misfortune, WorkerError,
              WorkerDeath, BarrierFails, Crash, CrashInSave, Killed, files
<1> QED BY <1>1, <1>2 DEF Next

LEMMA StayingStep ==
  ASSUME HasGates, Campaign', NEW c \in Circuits, work'[c] = work[c], MovesTo(c, work[c]),
         \/ complete'[c] = complete[c]
         \/ complete'[c] = TRUE /\ Redundant(work[c]) = {}
  PROVE  Step(c)
<1>1. Gates[ckpt'[c].work] > 0
  BY DEF HasGates, Campaign, Inv, SafetyInv, TypeInv, TypeOK, Checkpoints
<1>2. \/ UNCHANGED RestartPoint(c)
      \/ RestartPoint(c)' = work[c] /\ Gates[work[c]] <= Gates[RestartPoint(c)]
  BY <1>1 DEF MovesTo
<1>3. CASE complete'[c] = TRUE /\ Redundant(work[c]) = {}
  <2>1. Removal(c)!Finish
    BY <1>2, <1>3 DEF Removal!Finish, Irredundant, GatesOf
  <2> QED BY <2>1 DEF Removal!Next, Step
<1>4. CASE complete'[c] = complete[c] /\ UNCHANGED RestartPoint(c)
  BY <1>4 DEF Step
<1>5. CASE /\ complete'[c] = complete[c]
           /\ RestartPoint(c)' = work[c] /\ Gates[work[c]] <= Gates[RestartPoint(c)]
  <2>1. Removal(c)!Keep
    BY <1>5 DEF Removal!Keep, GatesOf
  <2> QED BY <2>1 DEF Removal!Next, Step
<1> QED BY <1>2, <1>3, <1>4, <1>5

LEMMA RemovalStep ==
  ASSUME NoLateDeath, NoTornSave, HasGates, Campaign, Campaign', [Next]_vars,
         NEW c \in Circuits
  PROVE  Step(c)
<1>1. TypeOK /\ Inv /\ Progress
  BY DEF Campaign, Inv, SafetyInv, TypeInv
<1>2. CASE UNCHANGED vars
  BY <1>2 DEF vars, files, flags, Step, RestartPoint
<1>3. CASE Launch
  <2>1. work'[c] = RestartPoint(c) /\ UNCHANGED RestartPoint(c) /\ complete'[c] = FALSE
    BY <1>1, <1>3, LaunchProgress
  <2>2. Removal(c)!Restart
    BY <2>1 DEF Removal!Restart
  <2> QED BY <2>2 DEF Removal!Next, Step
<1>4. ASSUME NEW b \in barrier, CheckAndInstall(b) PROVE Step(c)
  <2>1. /\ UNCHANGED RestartPoint(c) /\ UNCHANGED complete
        /\ c # b.c => work'[c] = work[c]
        /\ \/ UNCHANGED work
           \/ /\ Gates[work'[b.c]] < Gates[work[b.c]]
              /\ Meaning[work'[b.c]] = Meaning[Source[b.c]]
    BY <1>1, <1>4, InstallEarned DEF RestartPoint, CheckAndInstall, flags
  <2>2. CASE work'[c] = work[c]
    BY <2>1, <2>2 DEF Step
  <2>3. CASE c = b.c /\ ~UNCHANGED work
    <3>1. ~complete[c] /\ complete[c] \in BOOLEAN
      BY <1>1, <2>3 DEF Campaign, CompleteQuiet, Inv, SafetyInv, BarrierAlone, TypeOK
    <3>2. Meaning[work[c]] = Meaning[Source[c]]
      BY DEF Campaign, FunctionKept
    <3>3. Removal(c)!Commit
      BY <2>1, <2>3, <3>1, <3>2 DEF Removal!Commit, MeaningOf, GatesOf
    <3> QED BY <3>3 DEF Removal!Next, Step
  <2> QED BY <2>1, <2>2, <2>3
<1>5. CASE Next /\ ~Launch /\ ~\E b \in barrier : CheckAndInstall(b)
  BY <1>5, AAGStays, CircuitStays, RestartMoves, StayingStep
<1> QED BY <1>2, <1>3, <1>4, <1>5

(* Each circuit of the pool is a removal of redundancies from its source,  *)
(* however scheduler, workers and commit process interleave, and whenever  *)
(* run_dynamic_campaign ends, dies and is started again: commits shrink it *)
(* within its function, no save and no restart goes back, and COMPLETE is  *)
(* said of an irredundant circuit only.                                    *)
THEOREM PoolRemoves ==
  ASSUME NoLateDeath, NoTornSave, HasGates
  PROVE  Spec => ImplementsRemoval
<1>1. Init => \A c \in Circuits : Removal(c)!Init
  <2> SUFFICES ASSUME Init, NEW c \in Circuits PROVE Removal(c)!Init
    OBVIOUS
  <2>1. work[c] = Source[c] /\ complete[c] = FALSE /\ seed[c].work = Source[c] /\ ckpt = seed
    BY DEF Init, Snapshot
  <2>2. RestartPoint(c) = Source[c]
    BY <2>1 DEF RestartPoint, Best
  <2> QED BY <2>1, <2>2 DEF Removal!Init
<1>2. Campaign /\ Campaign' /\ [Next]_vars => [\A c \in Circuits : Step(c)]_vars
  BY RemovalStep
<1> QED BY <1>1, <1>2, Campaigns, PTL DEF Spec, ImplementsRemoval

-----------------------------------------------------------------------------
(* How a campaign ends.                                                    *)

StartFrontier(s) == IF Resumable(s) THEN s.cands ELSE Frontier[s.work]

SavesFit ==
  \A c \in Circuits : \A ck \in {seed[c], ckpt[c]} :
    ck.cands \subseteq Frontier[ck.work] /\ ck.props \subseteq ck.cands

RecheckOpen == \A b \in barrier : b.state = "recheck" => ~b.committed

(* Proposals are candidates, and candidates those of the AAG the scheduler *)
(* knows; on the AAG of the seed, or of the last save, they only got       *)
(* fewer.                                                                  *)
Fits(c) ==
  /\ props[c] \subseteq cands[c]
  /\ ~Landed(c) => cands[c] \subseteq Frontier[work[c]]
  /\ work[c] = seed[c].work => cands[c] \subseteq StartFrontier(seed[c])
  /\ \/ Gates[work[c]] < Gates[ckpt[c].work]
     \/ ~Landed(c) /\ work[c] = ckpt[c].work /\ cands[c] \subseteq ckpt[c].cands

FrontierFits == pc # "crashed" => \A c \in Circuits : Fits(c)

Fitting == SavesFit /\ RecheckOpen /\ FrontierFits

Known == Campaign /\ Fitting

(* A step that moves no files and no frontier, and lands no commit.        *)
LEMMA FitsFrame ==
  ASSUME Fitting, UNCHANGED files, RecheckOpen',
         pc' # "crashed" =>
           /\ pc # "crashed" /\ UNCHANGED <<cands, props>>
           /\ \A c \in Circuits : Landed(c)' <=> Landed(c)
  PROVE  Fitting'
<1>1. SavesFit'
  BY DEF Fitting, SavesFit, files
<1>2. FrontierFits'
  BY DEF Fitting, FrontierFits, Fits, files
<1> QED BY <1>1, <1>2 DEF Fitting

(* What a save leaves of the frontier in hand.                             *)
LEMMA PersistedFrontier ==
  ASSUME TypeOK, SavesWhole, NEW c \in Circuits, NEW cs,
         \/ UNCHANGED ckpt
         \/ \E h, ps, pb, cm : ckpt' = Persisted(c, work[c], cs, h, ps, pb, cm)
  PROVE  /\ \A d \in Circuits \ {c} : ckpt'[d] = ckpt[d]
         /\ \/ ckpt'[c] = ckpt[c]
            \/ ckpt'[c].work = work[c] /\ ckpt'[c].cands = cs /\ ckpt'[c].props \subseteq cs
<1>1. CASE UNCHANGED ckpt
  BY <1>1
<1>2. ASSUME NEW h, NEW ps, NEW pb, NEW cm, ckpt' = Persisted(c, work[c], cs, h, ps, pb, cm)
      PROVE  /\ \A d \in Circuits : d # c => ckpt'[d] = ckpt[d]
             /\ ckpt'[c] = ckpt[c] \/ ckpt'[c] = Snapshot(work[c], cs, h, ps, pb, cm)
  BY <1>2, PersistedWork
<1>3. ASSUME NEW h, NEW ps, NEW pb, NEW cm, ckpt'[c] = Snapshot(work[c], cs, h, ps, pb, cm)
      PROVE  ckpt'[c].work = work[c] /\ ckpt'[c].cands = cs /\ ckpt'[c].props \subseteq cs
  BY <1>3 DEF Snapshot
<1> QED BY <1>1, <1>2, <1>3

(* A step that saves at most what is in hand.                              *)
LEMMA FitsSaved ==
  ASSUME TypeOK, SavesWhole, Fitting, RecheckOpen', NEW c \in Circuits,
         UNCHANGED <<work, seed>>, pc # "crashed",
         \A d \in Circuits \ {c} :
           UNCHANGED <<cands[d], props[d]>> /\ (Landed(d)' <=> Landed(d)),
         props'[c] \subseteq cands'[c], ~Landed(c)',
         cands'[c] \subseteq Frontier[work[c]],
         work[c] = seed[c].work => cands'[c] \subseteq StartFrontier(seed[c]),
         \/ Gates[work[c]] < Gates[ckpt[c].work]
         \/ work[c] = ckpt[c].work /\ cands'[c] \subseteq ckpt[c].cands,
         \/ UNCHANGED ckpt
         \/ \E h, ps, pb, cm : ckpt' = Persisted(c, work[c], cands'[c], h, ps, pb, cm)
  PROVE  Fitting'
<1>1. /\ \A d \in Circuits \ {c} : ckpt'[d] = ckpt[d]
      /\ \/ ckpt'[c] = ckpt[c]
         \/ /\ ckpt'[c].work = work[c] /\ ckpt'[c].cands = cands'[c]
            /\ ckpt'[c].props \subseteq cands'[c]
  BY PersistedFrontier
<1>2. SavesFit'
  BY <1>1 DEF Fitting, SavesFit
<1>3. \A d \in Circuits \ {c} : Fits(d)'
  BY <1>1 DEF Fitting, FrontierFits, Fits
<1>4. Fits(c)'
  BY <1>1 DEF Fits
<1> QED BY <1>2, <1>3, <1>4 DEF Fitting, FrontierFits

(* A result takes rejected candidates out and proposes others.             *)
LEMMA ResultFits ==
  ASSUME Known, NEW t \in returned, HandleResult(t)
  PROVE  Fitting'
<1>1. /\ TypeOK /\ SavesWhole /\ Fitting /\ t \in tasks /\ t.c \in Circuits /\ t.work = work[t.c]
      /\ pc # "crashed" /\ UNCHANGED <<work, seed, barrier>>
  BY DEF Known, Campaign, Progress, Inv, SafetyInv, TypeInv, TypeOK, Tasks, NeverStale, Stale,
         HandleResult
<1>2. RecheckOpen' /\ \A c \in Circuits : Landed(c)' <=> Landed(c)
  BY <1>1 DEF Fitting, RecheckOpen, Landed
<1>3. ~Landed(t.c)
  BY <1>1, NoTaskUnderBarrier DEF Known, Campaign, Inv, SafetyInv, Landed
<1>4. Fits(t.c)
  BY <1>1 DEF Fitting, FrontierFits
<1>5. t.unsat \subseteq cands[t.c] /\ t.sat \cap (props[t.c] \cup t.unsat) = {}
  <2>1. t.sat \subseteq t.cands \ Redundant(t.work) /\ t.unsat \subseteq t.cands \cap Redundant(t.work)
    BY <1>1 DEF Known, Campaign, Inv, Ledger, AnswersHonest
  <2>2. t.cands \subseteq cands[t.c] \ props[t.c]
    BY <1>1 DEF Known, Campaign, Inv, SafetyInv, TasksTracked, Ledger, InflightOpen
  <2> QED BY <2>1, <2>2
<1>6. /\ \A d \in Circuits \ {t.c} : UNCHANGED <<cands[d], props[d]>>
      /\ \/ cands'[t.c] = cands[t.c] /\ props'[t.c] = props[t.c]
         \/ cands'[t.c] = cands[t.c] \ t.sat /\ props'[t.c] = props[t.c] \cup t.unsat
  BY <1>1 DEF HandleResult, TypeOK
<1>7. cands'[t.c] \subseteq cands[t.c] /\ props'[t.c] \subseteq cands'[t.c]
  BY <1>4, <1>5, <1>6 DEF Fits
<1>8. \/ UNCHANGED ckpt
      \/ \E h, ps, pb, cm : ckpt' = Persisted(t.c, work[t.c], cands'[t.c], h, ps, pb, cm)
  BY DEF HandleResult
<1> QED BY <1>1, <1>2, <1>3, <1>4, <1>6, <1>7, <1>8, FitsSaved DEF Fits

(* A commit starts the frontier over, another barrier shortens it.         *)
LEMMA BarrierFits ==
  ASSUME Known, HandleBarrier \/ FinalizeEnd
  PROVE  Fitting'
<1>1. PICK b \in barrier :
        /\ b.state \in {"finished", "error"}
        /\ \/ ApplyBarrier(b)
           \/ b.state = "error" /\ UNCHANGED <<ckpt, cands, props>>
           \/ b.generation # generation[b.c]
  BY DEF HandleBarrier, FinalizeEnd, DoneBarrier, BarrierError, StaleBarrier
<1>2. /\ TypeOK /\ SavesWhole /\ SavesEarned /\ Fitting /\ b.c \in Circuits
      /\ b.generation = generation[b.c] /\ pc # "crashed"
      /\ UNCHANGED <<work, seed>> /\ barrier' = {} /\ \A d \in barrier : d = b
  BY DEF Known, Campaign, Progress, Inv, SafetyInv, TypeInv, TypeOK, Barriers, NeverStale,
         BarrierAlone, HandleBarrier, FinalizeEnd
<1>3. /\ RecheckOpen' /\ \A c \in Circuits : ~Landed(c)'
      /\ \A c \in Circuits : Landed(c) <=> (c = b.c /\ b.state = "finished" /\ b.committed)
  BY <1>1, <1>2 DEF RecheckOpen, Landed
<1>4. CASE b.state = "error" /\ UNCHANGED <<ckpt, cands, props>>
  BY <1>2, <1>3, <1>4, FitsFrame DEF files
<1>5. CASE ApplyBarrier(b)
  <2> DEFINE c == b.c
  <2>1. Fits(c) /\ work[c] \in Works
    BY <1>2 DEF Fitting, FrontierFits, TypeOK
  <2>2. /\ cands'[c] = BarrierFrontier(b) /\ props'[c] = {}
        /\ \A d \in Circuits \ {c} : UNCHANGED <<cands[d], props[d]>>
        /\ b.state = "finished"
    BY <1>2, <1>5 DEF ApplyBarrier, TypeOK
  <2>3. /\ cands'[c] \subseteq Frontier[work[c]]
        /\ work[c] = seed[c].work => cands'[c] \subseteq StartFrontier(seed[c])
        /\ \/ Gates[work[c]] < Gates[ckpt[c].work]
           \/ work[c] = ckpt[c].work /\ cands'[c] \subseteq ckpt[c].cands
    <3>1. CASE b.committed
      <4>1. cands'[c] = Frontier[work[c]] /\ Gates[work[c]] < Gates[ckpt[c].work]
        BY <1>2, <1>3, <2>1, <2>2, <3>1 DEF BarrierFrontier, Fits
      <4>2. Gates[work[c]] \in Nat /\ Gates[ckpt[c].work] \in Nat /\ Gates[seed[c].work] \in Nat
        BY <1>2, WorksAssumption DEF TypeOK, Checkpoints
      <4>3. Gates[ckpt[c].work] <= Gates[seed[c].work]
        BY <1>2, <4>2 DEF SavesEarned, Earned
      <4> QED BY <4>1, <4>2, <4>3
    <3>2. CASE ~b.committed
      <4>1. ~Landed(c) /\ cands'[c] \subseteq cands[c]
        BY <1>2, <1>3, <2>2, <3>2 DEF BarrierFrontier
      <4> QED BY <2>1, <4>1 DEF Fits
    <3> QED BY <3>1, <3>2
  <2>4. \E h, ps, pb, cm : ckpt' = Persisted(c, work[c], cands'[c], h, ps, pb, cm)
    BY <1>5 DEF ApplyBarrier
  <2>5. \A d \in Circuits \ {c} : UNCHANGED <<cands[d], props[d]>> /\ (Landed(d)' <=> Landed(d))
    BY <1>3, <2>2
  <2> QED BY <1>2, <1>3, <2>2, <2>3, <2>4, <2>5, FitsSaved
<1> QED BY <1>1, <1>2, <1>4, <1>5

LEMMA CloseFits ==
  ASSUME Known, NEW c \in Circuits, Close(c)
  PROVE  Fitting'
<1>1. /\ TypeOK /\ SavesWhole /\ Fitting /\ pc # "crashed" /\ barrier = {}
      /\ UNCHANGED <<work, seed, cands, props, barrier>>
      /\ ckpt' = Persisted(c, work[c], cands[c], hist[c], props[c], propBudget[c], committed[c])
  BY DEF Known, Campaign, Progress, Inv, SafetyInv, TypeInv, BarrierAlone, Close, frontier,
         executors
<1>2. RecheckOpen' /\ \A d \in Circuits : ~Landed(d) /\ ~Landed(d)'
  BY <1>1 DEF RecheckOpen, Landed
<1>3. Fits(c)
  BY <1>1 DEF Fitting, FrontierFits
<1>4. \E h, ps, pb, cm : ckpt' = Persisted(c, work[c], cands'[c], h, ps, pb, cm)
  BY <1>1
<1> QED BY <1>1, <1>2, <1>3, <1>4, FitsSaved DEF Fits

(* A campaign begins with the frontier of its seed, saved at once.         *)
LEMMA LaunchFits ==
  ASSUME Known, Launch
  PROVE  Fitting'
<1> DEFINE s == [c \in Circuits |-> Best(seed[c], ckpt[c])]
<1>1. StartFrom(s)
  BY DEF Launch
<1>2. \A c \in Circuits :
        /\ s[c].cands \subseteq Frontier[s[c].work] /\ s[c].props \subseteq s[c].cands
  BY DEF Best, Known, Fitting, SavesFit
<1> HIDE DEF s
<1>3. /\ seed' = s /\ barrier' = {}
      /\ work' = [c \in Circuits |-> s[c].work]
      /\ cands' = [c \in Circuits |-> IF Resumable(s[c]) THEN s[c].cands ELSE Frontier[s[c].work]]
      /\ props' = [c \in Circuits |-> IF Resumable(s[c]) THEN s[c].props ELSE {}]
      /\ ckpt' = [c \in Circuits |->
                    Snapshot(s[c].work, cands'[c], hist'[c], props'[c], propBudget'[c], FALSE)]
  BY <1>1 DEF StartFrom
<1>4. \A c \in Circuits :
        /\ cands'[c] = StartFrontier(s[c]) /\ cands'[c] \subseteq Frontier[s[c].work]
        /\ props'[c] \subseteq cands'[c]
  BY <1>2, <1>3 DEF StartFrontier
<1>5. \A c \in Circuits :
        /\ ckpt'[c].work = s[c].work /\ ckpt'[c].cands = cands'[c]
        /\ ckpt'[c].props \subseteq cands'[c]
  BY <1>3 DEF Snapshot
<1>6. SavesFit'
  <2> SUFFICES ASSUME NEW c \in Circuits
               PROVE  \A ck \in {seed'[c], ckpt'[c]} :
                        ck.cands \subseteq Frontier[ck.work] /\ ck.props \subseteq ck.cands
    BY DEF SavesFit
  <2>1. seed'[c] = s[c]
    BY <1>3
  <2>2. s[c].cands \subseteq Frontier[s[c].work] /\ s[c].props \subseteq s[c].cands
    BY <1>2
  <2>3. /\ ckpt'[c].cands \subseteq Frontier[ckpt'[c].work]
        /\ ckpt'[c].props \subseteq ckpt'[c].cands
    BY <1>4, <1>5
  <2> QED BY <2>1, <2>2, <2>3
<1>7. RecheckOpen' /\ \A c \in Circuits : ~Landed(c)'
  BY <1>3 DEF RecheckOpen, Landed
<1>8. FrontierFits'
  BY <1>3, <1>4, <1>5, <1>7 DEF FrontierFits, Fits
<1> QED BY <1>6, <1>7, <1>8 DEF Fitting

(* A barrier that goes on, and does not land anything.                     *)
LEMMA BarrierOnFits ==
  ASSUME Known, NEW b \in barrier, NEW d, barrier' = {d}, d.c = b.c,
         d.state = "recheck" => ~d.committed,
         (d.state = "installed" \/ (d.state = "finished" /\ d.committed))
           <=> (b.state = "installed" \/ (b.state = "finished" /\ b.committed)),
         UNCHANGED <<files, cands, props, pc>>
  PROVE  Fitting'
<1>1. \A e \in barrier : e = b
  BY DEF Known, Campaign, Inv, SafetyInv, BarrierAlone
<1>2. RecheckOpen' /\ \A c \in Circuits : Landed(c)' <=> Landed(c)
  BY <1>1 DEF RecheckOpen, Landed
<1> QED BY <1>2, FitsFrame DEF Known

(* What becomes of a barrier whose next proposal was proved again.         *)
LEMMA RecheckOutcomes ==
  ASSUME NEW b \in Barriers, NEW k, Recheck(b, k)
  PROVE  \/ barrier' = {[b EXCEPT !.state = "error"]}
         \/ barrier' = {Rechecked(b, k)}
         \/ barrier' = {[Rechecked(b, k) EXCEPT !.timedOut = b.timedOut \cup {k}]}
         \/ barrier' = {[Rechecked(b, k) EXCEPT !.accepted = b.accepted \cup {k}]}
         \/ barrier' = {[Rechecked(b, k) EXCEPT !.rejected = b.rejected \cup {k}]}
BY DEF Recheck, Rechecked, Barriers

LEMMA RecheckFits ==
  ASSUME Known, NEW b \in barrier, NEW k \in b.todo, Recheck(b, k)
  PROVE  Fitting'
<1>1. /\ b \in Barriers /\ b.state = "recheck" /\ ~b.committed
      /\ UNCHANGED <<files, cands, props, pc>>
  BY DEF Known, Campaign, Inv, SafetyInv, TypeInv, TypeOK, Fitting, RecheckOpen, Recheck, frontier,
         control
<1>2. ASSUME NEW d, barrier' = {d}, d.c = b.c, d.state \in {"recheck", "error"},
             d.committed = b.committed
      PROVE  Fitting'
  BY <1>1, <1>2, BarrierOnFits
<1>3. CASE barrier' = {[b EXCEPT !.state = "error"]}
  <2> DEFINE d == [b EXCEPT !.state = "error"]
  <2>1. d.c = b.c /\ d.state = "error" /\ d.committed = b.committed
    BY <1>1 DEF Barriers
  <2> HIDE DEF d
  <2>2. barrier' = {d}
    BY <1>3 DEF d
  <2> QED BY <1>2, <2>1, <2>2
<1>4. CASE barrier' = {Rechecked(b, k)}
  <2> DEFINE d == Rechecked(b, k)
  <2>1. d.c = b.c /\ d.state = "recheck" /\ d.committed = b.committed
    BY <1>1 DEF Barriers, Rechecked
  <2> HIDE DEF d
  <2>2. barrier' = {d}
    BY <1>4 DEF d
  <2> QED BY <1>2, <2>1, <2>2
<1>5. CASE barrier' = {[Rechecked(b, k) EXCEPT !.timedOut = b.timedOut \cup {k}]}
  <2> DEFINE d == [Rechecked(b, k) EXCEPT !.timedOut = b.timedOut \cup {k}]
  <2>1. d.c = b.c /\ d.state = "recheck" /\ d.committed = b.committed
    BY <1>1 DEF Barriers, Rechecked
  <2> HIDE DEF d
  <2>2. barrier' = {d}
    BY <1>5 DEF d
  <2> QED BY <1>2, <2>1, <2>2
<1>6. CASE barrier' = {[Rechecked(b, k) EXCEPT !.accepted = b.accepted \cup {k}]}
  <2> DEFINE d == [Rechecked(b, k) EXCEPT !.accepted = b.accepted \cup {k}]
  <2>1. d.c = b.c /\ d.state = "recheck" /\ d.committed = b.committed
    BY <1>1 DEF Barriers, Rechecked
  <2> HIDE DEF d
  <2>2. barrier' = {d}
    BY <1>6 DEF d
  <2> QED BY <1>2, <2>1, <2>2
<1>7. CASE barrier' = {[Rechecked(b, k) EXCEPT !.rejected = b.rejected \cup {k}]}
  <2> DEFINE d == [Rechecked(b, k) EXCEPT !.rejected = b.rejected \cup {k}]
  <2>1. d.c = b.c /\ d.state = "recheck" /\ d.committed = b.committed
    BY <1>1 DEF Barriers, Rechecked
  <2> HIDE DEF d
  <2>2. barrier' = {d}
    BY <1>7 DEF d
  <2> QED BY <1>2, <2>1, <2>2
<1> QED BY <1>1, <1>3, <1>4, <1>5, <1>6, <1>7, RecheckOutcomes

LEMMA EndOfBarrierFits ==
  ASSUME NoLateDeath, Known, NEW b \in barrier, Report(b) \/ BarrierFails(b)
  PROVE  Fitting'
<1>1. b \in Barriers /\ (b.state = "recheck" => ~b.committed)
      /\ UNCHANGED <<files, cands, props, pc>>
  BY DEF Known, Campaign, Inv, SafetyInv, TypeInv, TypeOK, Fitting, RecheckOpen, Report,
         BarrierFails, frontier, control
<1>2. CASE Report(b)
  <2> DEFINE d == [b EXCEPT !.state = "finished", !.committed = TRUE]
  <2>1. d.c = b.c /\ d.state = "finished" /\ d.committed
    BY <1>1 DEF Barriers
  <2> HIDE DEF d
  <2>2. barrier' = {d} /\ b.state = "installed"
    BY <1>2 DEF Report, d
  <2> QED BY <1>1, <2>1, <2>2, BarrierOnFits
<1>3. CASE BarrierFails(b)
  <2> DEFINE d == [b EXCEPT !.state = "error"]
  <2>1. d.c = b.c /\ d.state = "error"
    BY <1>1 DEF Barriers
  <2> HIDE DEF d
  <2>2. barrier' = {d} /\ b.state = "recheck"
    BY <1>3 DEF BarrierFails, d, NoLateDeath
  <2> QED BY <1>1, <2>1, <2>2, BarrierOnFits
<1> QED BY <1>2, <1>3

LEMMA InstallFits ==
  ASSUME Known, NEW b \in barrier, CheckAndInstall(b)
  PROVE  Fitting'
<1>1. /\ b \in Barriers /\ b.state = "recheck" /\ ~b.committed /\ TypeOK /\ b.c \in Circuits
      /\ UNCHANGED <<ckpt, seed, cands, props, pc>> /\ \A d \in barrier : d = b
      /\ SavesEarned /\ Inv /\ Progress
  BY DEF Known, Campaign, Progress, Inv, SafetyInv, TypeInv, TypeOK, Barriers, BarrierAlone,
         Fitting, RecheckOpen, CheckAndInstall, frontier, control
<1>2. CASE UNCHANGED work /\ barrier' = {[b EXCEPT !.state = "finished"]}
  <2> DEFINE d == [b EXCEPT !.state = "finished"]
  <2>1. d.c = b.c /\ d.state = "finished" /\ ~d.committed
    BY <1>1 DEF Barriers
  <2> HIDE DEF d
  <2>2. barrier' = {d}
    BY <1>2 DEF d
  <2> QED BY <1>1, <1>2, <2>1, <2>2, BarrierOnFits DEF files
<1>3. CASE /\ b.accepted # {} /\ work' = [work EXCEPT ![b.c] = Rewrite(b)]
           /\ barrier' = {[b EXCEPT !.state = "installed"]}
  <2> DEFINE d == [b EXCEPT !.state = "installed"]
  <2>1. d.c = b.c /\ d.state = "installed"
    BY <1>1 DEF Barriers
  <2> HIDE DEF d
  <2>2. barrier' = {d}
    BY <1>3 DEF d
  <2>3. /\ RecheckOpen' /\ \A c \in Circuits : ~Landed(c)
        /\ Landed(b.c)' /\ \A c \in Circuits \ {b.c} : ~Landed(c)'
    BY <1>1, <2>1, <2>2 DEF RecheckOpen, Landed
  <2>4. /\ \A c \in Circuits \ {b.c} : work'[c] = work[c]
        /\ work'[b.c] \in Works /\ Gates[work'[b.c]] < Gates[work[b.c]]
    <3>1. b.accepted \in Safe[b.work] \ {{}} /\ b.work \in Works /\ work[b.c] = b.work
      BY <1>1, <1>3 DEF Known, Campaign, Inv, SafetyInv, TypeInv, AcceptedSafe, Barriers,
                        NeverStale
    <3>2. Rewrite(b) \in Works /\ Gates[Rewrite(b)] < Gates[b.work]
      BY <3>1, RestructuredAssumption DEF Rewrite
    <3> QED BY <1>1, <1>3, <3>1, <3>2 DEF TypeOK
  <2>5. SavesFit'
    BY <1>1 DEF Known, Fitting, SavesFit
  <2>6. ASSUME pc # "crashed" PROVE \A c \in Circuits \ {b.c} : Fits(c)'
    <3>1. \A c \in Circuits : Fits(c)
      BY <2>6 DEF Known, Fitting, FrontierFits
    <3> QED BY <1>1, <2>3, <2>4, <3>1 DEF Fits
  <2>7. ASSUME pc # "crashed" PROVE Fits(b.c)'
    <3> DEFINE c == b.c
    <3>1. Fits(c)
      BY <1>1, <2>7 DEF Known, Fitting, FrontierFits
    <3>2. /\ Gates[work[c]] \in Nat /\ Gates[work'[c]] \in Nat
          /\ Gates[ckpt[c].work] \in Nat /\ Gates[seed[c].work] \in Nat
      BY <1>1, <2>4, WorksAssumption DEF TypeOK, Checkpoints
    <3>3. Gates[ckpt[c].work] <= Gates[seed[c].work] /\ Gates[work[c]] <= Gates[ckpt[c].work]
      BY <1>1, <3>1, <3>2 DEF SavesEarned, Earned, Fits
    <3>4. Gates[work'[c]] < Gates[ckpt[c].work] /\ work'[c] # seed[c].work
      BY <2>4, <3>2, <3>3
    <3> QED BY <1>1, <2>3, <3>1, <3>4 DEF Fits
  <2>8. FrontierFits'
    BY <1>1, <2>6, <2>7 DEF FrontierFits
  <2> QED BY <2>3, <2>5, <2>8 DEF Fitting
<1> QED BY <1>2, <1>3 DEF CheckAndInstall

LEMMA OthersFit ==
  ASSUME Known,
         \/ LoopTop \/ LeaveLoop \/ (\E c \in Circuits : Dispatch(c)) \/ DispatchDone \/ Wait
         \/ (\E t \in returned : HandleWorkerError(t)) \/ Drained \/ FinalizeStart \/ Answer
         \/ (\E t \in tasks : WorkerError(t)) \/ WorkerDeath \/ Expire \/ Crash
         \/ UNCHANGED vars
  PROVE  Fitting'
<1>1. Fitting /\ Inv /\ Progress /\ UNCHANGED files
  BY OthersEarned DEF Known, Campaign
<1>2. CASE Crash
  <2>1. RecheckOpen' /\ pc' = "crashed"
    BY <1>2 DEF Crash, Killed, RecheckOpen
  <2> QED BY <1>1, <2>1, FitsFrame
<1>3. CASE LoopTop \/ FinalizeStart
  <2>1. /\ pc # "crashed" /\ UNCHANGED <<cands, props>>
        /\ \/ UNCHANGED barrier
           \/ barrier = {} /\ \E c \in Circuits : \E inPool \in BOOLEAN :
                                 barrier' = {NewBarrier(c, inPool)}
    <3>1. closing \in Circuits
      BY <1>1 DEF Inv, SafetyInv, TypeInv, TypeOK
    <3> QED BY <1>1, <1>3, <3>1 DEF LoopTop, AdmitBarrier, SkipBarrier, FinalizeStart, Inv,
               SafetyInv, BarrierAlone, frontier
  <2>2. RecheckOpen' /\ \A c \in Circuits : Landed(c)' <=> Landed(c)
    BY <1>1, <2>1 DEF Fitting, RecheckOpen, Landed, NewBarrier
  <2> QED BY <1>1, <2>1, <2>2, FitsFrame
<1>4. CASE \/ LeaveLoop \/ (\E c \in Circuits : Dispatch(c)) \/ DispatchDone \/ Wait
           \/ (\E t \in returned : HandleWorkerError(t)) \/ Drained \/ Answer
           \/ (\E t \in tasks : WorkerError(t)) \/ WorkerDeath \/ Expire \/ UNCHANGED vars
  <2>1. UNCHANGED <<cands, props, barrier>> /\ (pc' # "crashed" => pc # "crashed")
    <3>1. CASE LeaveLoop \/ DispatchDone \/ Wait \/ Drained
      BY <3>1 DEF LeaveLoop, DispatchDone, Wait, Drained, frontier, executors
    <3>2. CASE \/ \E c \in Circuits : Dispatch(c)
               \/ \E t \in returned : HandleWorkerError(t)
      BY <3>2 DEF Dispatch, HandleWorkerError
    <3>3. CASE Answer \/ (\E t \in tasks : WorkerError(t)) \/ WorkerDeath
      BY <3>3 DEF Answer, Solve, WorkerError, WorkerDeath, frontier, control
    <3>4. CASE Expire \/ UNCHANGED vars
      BY <3>4 DEF Expire, vars, frontier, executors, control
    <3> QED BY <1>4, <3>1, <3>2, <3>3, <3>4
  <2>2. RecheckOpen' /\ \A c \in Circuits : Landed(c)' <=> Landed(c)
    BY <1>1, <2>1 DEF Fitting, RecheckOpen, Landed
  <2> QED BY <1>1, <2>1, <2>2, FitsFrame
<1> QED BY <1>2, <1>3, <1>4

LEMMA FittingStep ==
  ASSUME NoLateDeath, NoTornSave
  PROVE  Known /\ [Next]_vars => Fitting'
<1> SUFFICES ASSUME Known, [Next]_vars PROVE Fitting'
  OBVIOUS
<1>1. CASE Launch
  BY <1>1, LaunchFits
<1>2. CASE Saving
  BY <1>2, ResultFits, BarrierFits, CloseFits DEF Saving
<1>3. CASE CommitProcess \/ \E b \in barrier : BarrierFails(b)
  BY <1>3, RecheckFits, InstallFits, EndOfBarrierFits DEF CommitProcess
<1>4. CASE CrashInSave
  BY <1>4 DEF CrashInSave, NoTornSave
<1>5. CASE \/ LoopTop \/ LeaveLoop \/ (\E c \in Circuits : Dispatch(c)) \/ DispatchDone \/ Wait
           \/ (\E t \in returned : HandleWorkerError(t)) \/ Drained \/ FinalizeStart \/ Answer
           \/ (\E t \in tasks : WorkerError(t)) \/ WorkerDeath \/ Expire \/ Crash
           \/ UNCHANGED vars
  BY <1>5, OthersFit
<1> QED BY <1>1, <1>2, <1>3, <1>4, <1>5 DEF Next, Loop, Misfortune, Saving

LEMMA InitFitting == Init => Fitting
<1> SUFFICES ASSUME Init PROVE Fitting
  OBVIOUS
<1>1. \A c \in Circuits :
        /\ seed[c].work = Source[c] /\ seed[c].sha = Source[c]
        /\ seed[c].cands = SeedFrontier[c] /\ seed[c].props = {}
  BY DEF Init, Snapshot
<1>2. /\ ckpt = seed /\ work = Source /\ cands = SeedFrontier /\ barrier = {}
      /\ \A c \in Circuits : props[c] = {}
  BY DEF Init
<1>3. SavesFit
  BY <1>1, <1>2, SourceAssumption DEF SavesFit
<1>4. RecheckOpen /\ \A c \in Circuits : ~Landed(c)
  BY <1>2 DEF RecheckOpen, Landed
<1>5. FrontierFits
  BY <1>1, <1>2, <1>4, SourceAssumption DEF FrontierFits, Fits, StartFrontier, Resumable
<1> QED BY <1>3, <1>4, <1>5 DEF Fitting

-----------------------------------------------------------------------------
(* The final loop saves each circuit as it leaves it.                      *)

Now(c) == Snapshot(work[c], cands[c], hist[c], props[c], propBudget[c], committed[c])

Closing == {"finalize", "final_barrier", "final", "done"}

Closed ==
  /\ pc \notin Closing \cup {"crashed"} => closing = 1
  /\ pc \in Closing =>
       /\ tasks = {}
       /\ \A b \in barrier : pc = "final_barrier" /\ b.c = closing
       /\ \A c \in Circuits : c < closing \/ pc = "done" => ckpt[c] = Now(c)

(* The main loop, up to the drain.                                         *)
LEMMA MainClosed ==
  ASSUME Closed, UNCHANGED closing, pc \notin Closing, pc' # "crashed" => pc # "crashed",
         pc' \in Closing => pc' \in {"finalize", "final"} /\ tasks' = {} /\ barrier' = {}
  PROVE  Closed'
<1>1. pc' # "crashed" => closing' = 1 /\ \A c \in Circuits : ~(c < closing')
  BY SizesAssumption DEF Closed, Circuits
<1>2. "done" \notin {"finalize", "final"} /\ "crashed" \notin Closing
  BY DEF Closing
<1> QED BY <1>1, <1>2 DEF Closed

(* A step that leaves the closed circuits alone.                           *)
LEMMA FrameClosed ==
  ASSUME Closed, UNCHANGED <<pc, closing>>,
         pc \in Closing =>
           /\ tasks' = {} /\ \A b \in barrier' : \E d \in barrier : b.c = d.c
           /\ \A c \in Circuits : c < closing \/ pc = "done" =>
                ckpt'[c] = ckpt[c] /\ Now(c)' = Now(c)
  PROVE  Closed'
BY DEF Closed

(* No checkpoint ranks before what the final loop saves.                   *)
LEMMA CloseWrites ==
  ASSUME Known, NEW c \in Circuits, Close(c)
  PROVE  /\ ckpt'[c] = Now(c) /\ \A d \in Circuits \ {c} : ckpt'[d] = ckpt[d]
         /\ \A d \in Circuits : Now(d)' = Now(d)
<1>1. /\ TypeOK /\ pc # "crashed" /\ barrier = {} /\ ckpt' = Persisted(c, work[c], cands[c],
           hist[c], props[c], propBudget[c], committed[c])
      /\ UNCHANGED <<work, cands, hist, props, propBudget, committed>>
  BY DEF Known, Campaign, Inv, SafetyInv, TypeInv, BarrierAlone, Close, frontier, commits
<1>2. ckpt' = [ckpt EXCEPT ![c] = Saved(ckpt[c], Now(c))]
  BY <1>1 DEF Persisted, Now
<1>3. Now(c).work = work[c] /\ Now(c).sha = work[c] /\ Now(c).cands = cands[c]
  BY DEF Now, Snapshot
<1>4. /\ Gates[work[c]] \in Nat /\ Gates[ckpt[c].work] \in Nat /\ ckpt[c].sha = ckpt[c].work
      /\ ckpt[c].cands \subseteq Candidate /\ cands[c] \subseteq Candidate
  BY <1>1, WorksAssumption DEF TypeOK, Checkpoints, Known, Campaign, Progress, SavesWhole
<1>5. \/ Gates[work[c]] < Gates[ckpt[c].work]
      \/ work[c] = ckpt[c].work /\ cands[c] \subseteq ckpt[c].cands
  BY <1>1 DEF Known, Fitting, FrontierFits, Fits
<1>6. cands[c] \subseteq ckpt[c].cands =>
        /\ Cardinality(cands[c]) \in Nat /\ Cardinality(ckpt[c].cands) \in Nat
        /\ Cardinality(cands[c]) <= Cardinality(ckpt[c].cands)
  <2>1. IsFiniteSet(ckpt[c].cands) /\ IsFiniteSet(cands[c])
    BY <1>4, CandidatesAssumption, FS_Subset
  <2> QED BY <2>1, FS_Subset, FS_CardinalityType
<1>7. ~RanksBefore(SaveRank(ckpt[c]), SaveRank(Now(c)))
  <2>1. /\ SaveRank(ckpt[c]).gates = Gates[ckpt[c].work]
        /\ SaveRank(ckpt[c]).open = Cardinality(ckpt[c].cands)
        /\ SaveRank(Now(c)).gates = Gates[work[c]]
        /\ SaveRank(Now(c)).open = Cardinality(cands[c])
    BY <1>3, <1>4 DEF SaveRank, Smaller
  <2> QED BY <1>4, <1>5, <1>6, <2>1 DEF RanksBefore
<1>8. ckpt'[c] = Now(c) /\ \A d \in Circuits \ {c} : ckpt'[d] = ckpt[d]
  BY <1>1, <1>2, <1>7 DEF Saved, TypeOK
<1>9. \A d \in Circuits : Now(d)' = Now(d)
  BY <1>1 DEF Now
<1> QED BY <1>8, <1>9

(* What the commit process does, it does to the circuit of its barrier.    *)
LEMMA BarrierClosed ==
  ASSUME Known, Closed, NEW b \in barrier,
         \/ (\E k \in b.todo : Recheck(b, k)) \/ CheckAndInstall(b) \/ Report(b)
         \/ BarrierFails(b)
  PROVE  Closed'
<1>1. /\ b \in Barriers /\ b.c \in Circuits /\ TypeOK
      /\ UNCHANGED <<pc, closing, tasks, ckpt, cands, hist, props, propBudget, committed>>
  BY DEF Known, Campaign, Inv, SafetyInv, TypeInv, TypeOK, Barriers, Recheck, CheckAndInstall,
         Report, BarrierFails, control, commits, frontier, files
<1>2. \A c \in Circuits \ {b.c} : work'[c] = work[c]
  BY <1>1 DEF Recheck, CheckAndInstall, Report, BarrierFails, files, TypeOK
<1>3. \A e \in barrier' : e.c = b.c
  <2>1. /\ \A x : [b EXCEPT !.state = x].c = b.c
        /\ [b EXCEPT !.state = "finished", !.committed = TRUE].c = b.c
    BY <1>1 DEF Barriers
  <2>2. ASSUME NEW k \in b.todo, NEW x
        PROVE  /\ Rechecked(b, k).c = b.c
               /\ [Rechecked(b, k) EXCEPT !.timedOut = x].c = b.c
               /\ [Rechecked(b, k) EXCEPT !.accepted = x].c = b.c
               /\ [Rechecked(b, k) EXCEPT !.rejected = x].c = b.c
    BY <1>1 DEF Barriers, Rechecked
  <2>3. CASE \E k \in b.todo : Recheck(b, k)
    <3>1. PICK k \in b.todo : Recheck(b, k)
      BY <2>3
    <3>2. \A x : [Rechecked(b, k) EXCEPT !.timedOut = x].c = b.c
      BY <2>2
    <3>3. /\ \A x : [Rechecked(b, k) EXCEPT !.accepted = x].c = b.c
          /\ \A x : [Rechecked(b, k) EXCEPT !.rejected = x].c = b.c
          /\ Rechecked(b, k).c = b.c
      BY <2>2
    <3>4. \/ barrier' = {[b EXCEPT !.state = "error"]} \/ barrier' = {Rechecked(b, k)}
          \/ barrier' = {[Rechecked(b, k) EXCEPT !.timedOut = b.timedOut \cup {k}]}
          \/ barrier' = {[Rechecked(b, k) EXCEPT !.accepted = b.accepted \cup {k}]}
          \/ barrier' = {[Rechecked(b, k) EXCEPT !.rejected = b.rejected \cup {k}]}
      BY <1>1, <3>1, RecheckOutcomes
    <3>5. /\ [Rechecked(b, k) EXCEPT !.timedOut = b.timedOut \cup {k}].c = b.c
          /\ [Rechecked(b, k) EXCEPT !.accepted = b.accepted \cup {k}].c = b.c
          /\ [Rechecked(b, k) EXCEPT !.rejected = b.rejected \cup {k}].c = b.c
          /\ [b EXCEPT !.state = "error"].c = b.c
      BY <2>1, <3>2, <3>3, Zenon
    <3> QED BY <3>3, <3>4, <3>5, Zenon
  <2>4. CASE CheckAndInstall(b)
    <3>1. \E x : barrier' = {[b EXCEPT !.state = x]}
      BY <2>4, Zenon DEF CheckAndInstall
    <3> QED BY <2>1, <3>1, Zenon
  <2>5. CASE Report(b)
    BY <2>1, <2>5, Zenon DEF Report
  <2>6. CASE BarrierFails(b)
    BY <2>1, <2>6, Zenon DEF BarrierFails
  <2> QED BY <2>3, <2>4, <2>5, <2>6
<1>4. ASSUME pc \in Closing, NEW c \in Circuits, c < closing \/ pc = "done"
      PROVE  ckpt'[c] = ckpt[c] /\ Now(c)' = Now(c)
  <2>1. pc = "final_barrier" /\ b.c = closing /\ closing \in Nat
    BY <1>1, <1>4, SizesAssumption DEF Closed, TypeOK, Circuits
  <2>2. work'[c] = work[c]
    BY <1>2, <1>4, <2>1 DEF Circuits
  <2> QED BY <1>1, <2>2 DEF Now
<1>5. pc \in Closing => tasks' = {}
  BY <1>1 DEF Closed
<1> QED BY <1>1, <1>3, <1>4, <1>5, FrameClosed

(* The main loop and the workers.                                          *)
LEMMA RunningClosed ==
  ASSUME Known, Closed,
         \/ LoopTop \/ LeaveLoop \/ (\E c \in Circuits : Dispatch(c)) \/ DispatchDone \/ Wait
         \/ HandleBarrier \/ (\E t \in returned : HandleWorkerError(t) \/ HandleResult(t))
         \/ Drained \/ Answer \/ (\E t \in tasks : WorkerError(t)) \/ WorkerDeath
         \/ Expire \/ UNCHANGED vars
  PROVE  Closed'
<1>1. CASE LoopTop
  BY <1>1, MainClosed DEF LoopTop, AdmitBarrier, SkipBarrier, Closing
<1>2. CASE \/ LeaveLoop \/ (\E c \in Circuits : Dispatch(c)) \/ DispatchDone
  BY <1>2, MainClosed DEF LeaveLoop, Dispatch, DispatchDone, Closing
<1>3. CASE Wait
  BY <1>3, MainClosed DEF Wait, Closing
<1>4. CASE HandleBarrier \/ \E t \in returned : HandleWorkerError(t) \/ HandleResult(t)
  <2>1. pc \in {"handle", "handle_barrier"} /\ UNCHANGED closing /\ pc' \in {"handle", "drain", "top"}
    BY <1>4 DEF HandleBarrier, HandleWorkerError, HandleResult, AfterHandling
  <2> QED BY <2>1, MainClosed DEF Closing
<1>5. CASE Drained
  BY <1>5, MainClosed DEF Drained, executors, Closing
<1>6. CASE Answer \/ (\E t \in tasks : WorkerError(t)) \/ WorkerDeath
  <2>1. tasks # {} /\ UNCHANGED <<pc, closing>>
    BY <1>6 DEF Answer, Solve, WorkerError, WorkerDeath, control
  <2>2. pc \notin Closing
    BY <2>1 DEF Closed
  <2> QED BY <2>1, <2>2, MainClosed
<1>7. CASE Expire \/ UNCHANGED vars
  <2>1. UNCHANGED <<pc, closing, tasks, barrier, ckpt, work, cands, hist, props, propBudget,
                    committed>>
    BY <1>7 DEF Expire, vars, files, frontier, commits, executors, control
  <2>2. \A c \in Circuits : Now(c)' = Now(c)
    BY <2>1 DEF Now
  <2> QED BY <2>1, <2>2, FrameClosed DEF Closed
<1> QED BY <1>1, <1>2, <1>3, <1>4, <1>5, <1>6, <1>7

LEMMA FinalizeEndClosed ==
  ASSUME Known, Closed, FinalizeEnd
  PROVE  Closed'
<1>1. PICK b \in barrier :
        \/ ApplyBarrier(b) /\ pc' = "finalize"
        \/ pc' = "crashed"
  BY DEF FinalizeEnd, DoneBarrier
<1>2. /\ TypeOK /\ SavesWhole /\ pc = "final_barrier" /\ tasks = {} /\ b.c = closing
      /\ UNCHANGED <<work, tasks, closing>> /\ barrier' = {} /\ closing \in Circuits
  BY DEF Known, Campaign, Progress, Inv, SafetyInv, TypeInv, TypeOK, FinalizeEnd, Closed, Closing
<1>3. CASE pc' = "crashed"
  BY <1>3 DEF Closed, Closing
<1>4. CASE ApplyBarrier(b) /\ pc' = "finalize"
  <2>1. \A c \in Circuits \ {closing} : ckpt'[c] = ckpt[c]
    BY <1>2, <1>4, PersistedWork DEF ApplyBarrier
  <2>2. \A c \in Circuits \ {closing} : Now(c)' = Now(c)
    BY <1>2, <1>4 DEF Now, ApplyBarrier, TypeOK
  <2>3. \A c \in Circuits : c < closing => ckpt'[c] = Now(c)'
    BY <1>2, <2>1, <2>2, SizesAssumption DEF Closed, Closing, Circuits
  <2> QED BY <1>2, <1>4, <2>3 DEF Closed, Closing
<1> QED BY <1>1, <1>3, <1>4

LEMMA CloseClosed ==
  ASSUME Known, Closed, NEW c \in Circuits, Close(c)
  PROVE  Closed'
<1>1. /\ pc \in {"finalize", "final"} /\ c = closing /\ tasks = {} /\ barrier = {}
      /\ UNCHANGED <<tasks, barrier>>
      /\ \/ c = NumCircuits /\ pc' = "done" /\ UNCHANGED closing
         \/ pc' = pc /\ closing' = c + 1
  BY DEF Known, Campaign, Inv, SafetyInv, BarrierAlone, Close, executors, Closed, Closing
<1>2. /\ ckpt'[c] = Now(c) /\ \A d \in Circuits \ {c} : ckpt'[d] = ckpt[d]
      /\ \A d \in Circuits : Now(d)' = Now(d)
  BY CloseWrites
<1>3. \A d \in Circuits : d <= c => ckpt'[d] = Now(d)'
  BY <1>1, <1>2, SizesAssumption DEF Closed, Closing, Circuits
<1>4. \A d \in Circuits : d < closing' \/ pc' = "done" => d <= c
  BY <1>1, SizesAssumption DEF Circuits
<1> QED BY <1>1, <1>3, <1>4 DEF Closed, Closing

LEMMA ClosedStep == Known /\ Closed /\ [Next]_vars => Closed'
<1> SUFFICES ASSUME Known, Closed, [Next]_vars PROVE Closed'
  OBVIOUS
<1>1. CASE Launch
  BY <1>1 DEF Launch, StartFrom, Closed, Closing
<1>2. CASE CommitProcess \/ \E b \in barrier : BarrierFails(b)
  BY <1>2, BarrierClosed DEF CommitProcess
<1>3. CASE \/ LoopTop \/ LeaveLoop \/ (\E c \in Circuits : Dispatch(c)) \/ DispatchDone \/ Wait
           \/ HandleBarrier \/ (\E t \in returned : HandleWorkerError(t) \/ HandleResult(t))
           \/ Drained \/ Answer \/ (\E t \in tasks : WorkerError(t)) \/ WorkerDeath
           \/ Expire \/ UNCHANGED vars
  BY <1>3, RunningClosed
<1>4. CASE FinalizeStart
  <2>1. /\ pc = "finalize" /\ pc' = "final_barrier" /\ UNCHANGED <<closing, tasks>>
        /\ barrier' = {NewBarrier(closing, FALSE)}
        /\ UNCHANGED <<ckpt, work, cands, hist, props, propBudget, committed>>
    BY <1>4 DEF FinalizeStart, files, frontier
  <2>2. \A c \in Circuits : Now(c)' = Now(c)
    BY <2>1 DEF Now
  <2> QED BY <2>1, <2>2 DEF Closed, Closing, NewBarrier
<1>5. CASE FinalizeEnd
  BY <1>5, FinalizeEndClosed
<1>6. CASE \E c \in Circuits : Close(c)
  BY <1>6, CloseClosed
<1>7. CASE Crash \/ CrashInSave
  BY <1>7 DEF Crash, CrashInSave, Killed, Closed, Closing
<1> QED BY <1>1, <1>2, <1>3, <1>4, <1>5, <1>6, <1>7 DEF Next, Loop, Misfortune

LEMMA Endings ==
  ASSUME NoLateDeath, NoTornSave
  PROVE  Spec => [](Known /\ Closed)
<1>1. Init => Closed
  BY DEF Init, Closed, Closing
<1>2. Known /\ [Next]_vars => Fitting'
  BY FittingStep
<1>3. Campaign /\ Fitting <=> Known
  BY DEF Known
<1> QED BY <1>1, <1>2, <1>3, InitFitting, ClosedStep, Campaigns, PTL DEF Spec

(* The seed does not outrank what the final loop saved.                    *)
LEMMA EndIsPreferred ==
  ASSUME Known, Closed, pc = "done", NEW c \in Circuits, cands[c] # {}
  PROVE  /\ Best(seed[c], ckpt[c]) = ckpt[c] /\ ckpt[c] = Now(c)
         /\ cands[c] \subseteq Frontier[work[c]] /\ props[c] \subseteq cands[c]
<1>1. /\ ckpt[c] = Now(c) /\ barrier = {} /\ TypeOK /\ Fits(c) /\ SavesEarned
      /\ ~Landed(c)
  BY DEF Known, Campaign, Progress, Inv, SafetyInv, TypeInv, Fitting, FrontierFits, Closed,
         Closing, Landed
<1>2. /\ ckpt[c].work = work[c] /\ ckpt[c].sha = work[c] /\ ckpt[c].cands = cands[c]
      /\ work[c] \in Works /\ seed[c].work \in Works
      /\ cands[c] \subseteq Frontier[work[c]] /\ props[c] \subseteq cands[c]
  BY <1>1 DEF Now, Snapshot, TypeOK, Checkpoints, Fits
<1>3. Gates[work[c]] \in Nat /\ Gates[seed[c].work] \in Nat
  BY <1>2, WorksAssumption
<1>4. \A w \in Works : /\ IsFiniteSet(Frontier[w]) /\ Cardinality(Frontier[w]) \in Nat
                       /\ Cardinality(Frontier[w]) <= 2 * Gates[w]
  BY CandidatesAssumption, WorksAssumption, FS_Subset, FS_CardinalityType,
     CandidateOrderAssumption
<1>5. Cardinality(cands[c]) \in Nat \ {0} /\ Cardinality(cands[c]) <= Cardinality(Frontier[work[c]])
  BY <1>2, <1>4, FS_Subset, FS_CardinalityType, FS_EmptySet
<1>6. Gates[work[c]] > 0
  BY <1>2, <1>3, <1>4, <1>5
<1>7. Discoverable(ckpt[c])
  BY <1>2, <1>6 DEF Discoverable
<1>8. CASE Gates[work[c]] < Gates[seed[c].work]
  <2>1. ~RanksBefore(SeedRank(seed[c]), SeedRank(ckpt[c]))
    BY <1>2, <1>3, <1>8 DEF RanksBefore, SeedRank
  <2> QED BY <1>1, <1>2, <1>7, <2>1 DEF Best
<1>9. CASE work[c] = seed[c].work
  <2>1. SeedRank(ckpt[c]) = [gates |-> Gates[work[c]], open |-> Cardinality(cands[c])]
    BY <1>2 DEF SeedRank
  <2>2. SeedRank(seed[c]).gates = Gates[work[c]]
    BY <1>9 DEF SeedRank
  <2>3. CASE seed[c].cands = {}
    BY <1>1, <1>2, <1>3, <1>4, <1>5, <1>7, <1>9, <2>1, <2>3 DEF Best, RanksBefore, SeedRank
  <2>4. CASE seed[c].cands # {}
    <3>1. Resumable(seed[c])
      BY <2>4 DEF Resumable, Known, Campaign, Progress, SavesWhole, Fitting, SavesFit
    <3>2. cands[c] \subseteq seed[c].cands /\ seed[c].cands \subseteq Candidate
      BY <1>1, <1>9, <3>1 DEF Fits, StartFrontier, TypeOK, Checkpoints
    <3>3. /\ Cardinality(cands[c]) <= Cardinality(seed[c].cands)
          /\ Cardinality(seed[c].cands) \in Nat
      BY <3>2, CandidatesAssumption, FS_Subset, FS_CardinalityType
    <3>4. SeedRank(seed[c]).open = Cardinality(seed[c].cands)
      BY <2>4 DEF SeedRank
    <3> QED BY <1>1, <1>2, <1>3, <1>5, <1>7, <2>1, <2>2, <3>3, <3>4 DEF Best, RanksBefore
  <2> QED BY <2>3, <2>4
<1> QED BY <1>1, <1>2, <1>8, <1>9 DEF SavesEarned, Earned

(* A campaign that ended by itself is taken up where it stopped.           *)
THEOREM CleanlyRestarted ==
  ASSUME NoLateDeath, NoTornSave
  PROVE  Spec => CleanRestart
<1>1. ASSUME Known, Closed, [Next]_vars, runs' # runs, pc = "done",
             NEW c \in Circuits, cands[c] # {}
      PROVE  /\ work'[c] = work[c] /\ cands'[c] = cands[c] /\ props'[c] = props[c]
             /\ \A k \in cands[c] : hist'[c][k] = hist[c][k]
  <2>1. Launch
    <3>1. ~Loop
      BY <1>1 DEF Loop, LoopTop, LeaveLoop, Dispatch, DispatchDone, Wait, HandleBarrier,
                  HandleWorkerError, HandleResult, Drained, FinalizeStart, FinalizeEnd, Close
    <3>2. ~(Answer \/ CommitProcess \/ Expire \/ UNCHANGED vars)
      BY <1>1 DEF Answer, Solve, CommitProcess, Recheck, CheckAndInstall, Report, Expire, vars
    <3>3. ~Misfortune
      BY <1>1 DEF Misfortune, WorkerError, WorkerDeath, BarrierFails, Crash, CrashInSave, Killed
    <3> QED BY <1>1, <3>1, <3>2, <3>3 DEF Next
  <2> DEFINE s == [d \in Circuits |-> Best(seed[d], ckpt[d])]
  <2>2. StartFrom(s)
    BY <2>1 DEF Launch
  <2>3. /\ s[c] = Now(c) /\ cands[c] \subseteq Frontier[work[c]] /\ props[c] \subseteq cands[c]
        /\ cands[c] \subseteq Candidate
    BY <1>1, EndIsPreferred DEF Known, Campaign, Inv, SafetyInv, TypeInv, TypeOK
  <2> HIDE DEF s
  <2>4. Resumable(s[c]) /\ s[c].work = work[c] /\ s[c].cands = cands[c]
    BY <1>1, <2>3 DEF Resumable, Now, Snapshot
  <2>5. /\ s[c].props = props[c]
        /\ \A k \in cands[c] : s[c].hist[k] = hist[c][k]
    BY <2>3 DEF Now, Snapshot
  <2>6. /\ work'[c] = s[c].work /\ cands'[c] = s[c].cands /\ hist'[c] = s[c].hist
        /\ props'[c] = s[c].props
    BY <2>2, <2>4 DEF StartFrom
  <2> QED BY <2>4, <2>5, <2>6
<1>2. Known /\ Closed /\ [Next]_vars =>
        [runs' # runs /\ pc = "done" =>
           \A c \in Circuits : cands[c] # {} =>
             /\ work'[c] = work[c] /\ cands'[c] = cands[c] /\ props'[c] = props[c]
             /\ \A k \in cands[c] : hist'[c][k] = hist[c][k]]_vars
  BY <1>1
<1> QED BY <1>2, Endings, PTL DEF Spec, CleanRestart
=============================================================================
