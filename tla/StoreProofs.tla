------------------------------ MODULE StoreProofs ------------------------------
(***************************************************************************)
(* What the engines may rely on of the checkpoint directories, whatever    *)
(* the policy: one checkpoint is the best, a run loads it, and a save,     *)
(* torn or not, moves the AAG of the next run to the one it saves or       *)
(* leaves it where it is.                                                  *)
(***************************************************************************)
EXTENDS CheckpointStore, FiniteSetTheorems, TLAPS

AtMostOne(S) == \A a, b \in S : a = b

(* A checkpoint of any engine; the tiered one has a status as well.        *)
Readable(ck) ==
  /\ ck.work \in Works /\ ck.about \in Works
  /\ ck.open \in Nat /\ ck.resume \subseteq Frontiers

Store(active, extern) ==
  /\ AtMostOne(active) /\ AtMostOne(extern)
  /\ \A ck \in active \cup extern : Readable(ck)

LEMMA AtMostOneCounted ==
  ASSUME NEW S, AtMostOne(S)
  PROVE  Cardinality(S) <= 1
<1>1. CASE S = {}
  BY <1>1, FS_EmptySet
<1>2. ASSUME NEW x \in S
      PROVE  Cardinality(S) <= 1
  <2>1. S = {x}
    BY DEF AtMostOne
  <2>2. Cardinality({x}) = 1
    BY FS_Singleton
  <2> QED BY <2>1, <2>2
<1> QED BY <1>1, <1>2

(* The number of candidates on a saved frontier.                           *)
LEMMA FrontierSizeNat ==
  ASSUME NEW resume \in SUBSET Frontiers
  PROVE  FrontierSize(resume) \in Nat
<1>1. /\ UNION {f.pending : f \in resume} \in SUBSET Candidate
      /\ UNION {f.escalated : f \in resume} \in SUBSET Candidate
  BY DEF Frontiers
<1>2. /\ Cardinality(UNION {f.pending : f \in resume}) \in Nat
      /\ Cardinality(UNION {f.escalated : f \in resume}) \in Nat
  BY <1>1, CandidatesAssumption, FS_Subset, FS_CardinalityType
<1> QED BY <1>2 DEF FrontierSize

LEMMA SizesNat ==
  ASSUME NEW ck, Readable(ck)
  PROVE  /\ Unresolved(ck) \in Nat
         /\ StoredGates(ck) \in Nat
         /\ StoredGates(ck) <= Gates[ck.work] /\ StoredGates(ck) <= Gates[ck.about]
         /\ StoredGates(ck) \in {Gates[ck.work], Gates[ck.about]}
         /\ Gates[ck.work] \in Nat /\ Gates[ck.about] \in Nat
<1>1. FrontierSize(ck.resume) \in Nat
  BY FrontierSizeNat DEF Readable
<1>2. Gates[ck.work] \in Nat /\ Gates[ck.about] \in Nat
  BY WorksAssumption DEF Readable
<1> QED BY <1>1, <1>2 DEF Readable, Unresolved, StoredGates, ManyOf, FewOf

(* The order of _checkpoint_rank, without its CASE.                        *)
LEMMA RankCases ==
  ASSUME NEW a, NEW b
  PROVE  /\ Policy = "gates" => RankedBefore(a, b) <=>
              (\/ StoredGates(a) < StoredGates(b)
               \/ StoredGates(a) = StoredGates(b) /\ Unresolved(a) < Unresolved(b))
         /\ Policy = "unresolved" => RankedBefore(a, b) <=>
              (\/ Unresolved(a) < Unresolved(b)
               \/ Unresolved(a) = Unresolved(b) /\ StoredGates(a) < StoredGates(b))
         /\ Policy = "recent" => ~RankedBefore(a, b)
         /\ Policy = "gates" \/ Policy = "unresolved" \/ Policy = "recent"
BY PolicyAssumption DEF RankedBefore, Less, Policies

(* A strict order in which incomparable checkpoints are equally good.      *)
LEMMA RankOrder ==
  ASSUME NEW a, NEW b, NEW c, Readable(a), Readable(b), Readable(c)
  PROVE  /\ ~RankedBefore(a, a)
         /\ RankedBefore(a, b) => ~RankedBefore(b, a)
         /\ ~RankedBefore(a, b) /\ ~RankedBefore(b, c) => ~RankedBefore(a, c)
<1>1. /\ Unresolved(a) \in Nat /\ Unresolved(b) \in Nat /\ Unresolved(c) \in Nat
      /\ StoredGates(a) \in Nat /\ StoredGates(b) \in Nat /\ StoredGates(c) \in Nat
  BY SizesNat
<1>2. CASE Policy = "gates"
  <2>1. \A x, y \in {a, b, c} : RankedBefore(x, y) <=>
          (\/ StoredGates(x) < StoredGates(y)
           \/ StoredGates(x) = StoredGates(y) /\ Unresolved(x) < Unresolved(y))
    BY <1>2, RankCases
  <2> QED BY <1>1, <2>1
<1>3. CASE Policy = "unresolved"
  <2>1. \A x, y \in {a, b, c} : RankedBefore(x, y) <=>
          (\/ Unresolved(x) < Unresolved(y)
           \/ Unresolved(x) = Unresolved(y) /\ StoredGates(x) < StoredGates(y))
    BY <1>3, RankCases
  <2> QED BY <1>1, <2>1
<1>4. CASE Policy = "recent"
  BY <1>4, RankCases
<1> QED BY <1>2, <1>3, <1>4, RankCases

(* A run loads one checkpoint, if there is any, and none is better.        *)
LEMMA LoadedIsBest ==
  ASSUME NEW active, NEW extern, Store(active, extern)
  PROVE  /\ AtMostOne(Loaded(active, extern))
         /\ Loaded(active, extern) \subseteq active \cup extern
         /\ Loaded(active, extern) = {} => active = {} /\ extern = {}
         /\ \A ck \in Loaded(active, extern), other \in active \cup extern :
              ~RankedBefore(other, ck)
<1>1. AtMostOne(Loaded(active, extern))
  BY DEF Loaded, AtMostOne, Store
<1>2. Loaded(active, extern) \subseteq active \cup extern
  BY DEF Loaded
<1>3. Loaded(active, extern) = {} => active = {} /\ extern = {}
  <2>1. ASSUME NEW a \in active, NEW e \in extern
        PROVE  a \in Loaded(active, extern) \/ e \in Loaded(active, extern)
    BY DEF Loaded, AtMostOne, Store
  <2> QED BY <2>1 DEF Loaded
<1>4. ASSUME NEW ck \in Loaded(active, extern), NEW other \in active \cup extern
      PROVE  ~RankedBefore(other, ck)
  <2>1. Readable(ck) /\ Readable(other)
    BY <1>2 DEF Store
  <2>2. ~RankedBefore(ck, ck)
    BY <2>1, RankOrder
  <2>3. RankedBefore(ck, other) => ~RankedBefore(other, ck)
    BY <2>1, RankOrder
  <2> QED BY <2>2, <2>3 DEF Loaded, AtMostOne, Store
<1> QED BY <1>1, <1>2, <1>3, <1>4

(* What is saved is what the next run loads.                               *)
LEMMA SavedIsLoaded ==
  ASSUME NEW active, NEW extern, Store(active, extern), NEW new, Readable(new),
         ~Protected(active, extern, new)
  PROVE  /\ SavedTo(active, extern, new) = {new}
         /\ Loaded({new}, extern) = {new}
BY DEF SavedTo, Protected, Loaded, Store

LEMMA SavedStore ==
  ASSUME NEW active, NEW extern, Store(active, extern), NEW new, Readable(new)
  PROVE  Store(SavedTo(active, extern, new), extern)
BY DEF Store, SavedTo, AtMostOne

(* The AAG of a torn save beside the JSON part that was there before.      *)
Torn(ck, new) == [ck EXCEPT !.work = new.work]

TearsApart(active, new) ==
  \A ck \in active :
    /\ Torn(ck, new).work = new.work /\ Torn(ck, new).about = ck.about
    /\ Torn(ck, new).open = ck.open /\ Torn(ck, new).resume = ck.resume

LEMMA TornStore ==
  ASSUME NEW active, NEW extern, Store(active, extern), NEW new, Readable(new),
         TearsApart(active, new)
  PROVE  Store(TornTo(active, extern, new), extern)
<1>1. CASE Protected(active, extern, new)
  BY <1>1 DEF TornTo
<1>2. CASE ~Protected(active, extern, new)
  <2>1. TornTo(active, extern, new) = {Torn(ck, new) : ck \in active}
    BY <1>2 DEF TornTo, Torn
  <2>2. \A ck \in active : Readable(Torn(ck, new))
    BY DEF Store, TearsApart, Readable
  <2>3. AtMostOne({Torn(ck, new) : ck \in active})
    BY DEF Store, AtMostOne
  <2> QED BY <2>1, <2>2, <2>3 DEF Store
<1> QED BY <1>1, <1>2

(* A save that dies between its two files: the next run begins with the    *)
(* new AAG or with the one it would have begun with.  The JSON part that   *)
(* stays has the AAG it had before or a smaller one, so it ranks no worse. *)
LEMMA TornSaveMovesOn ==
  ASSUME NEW active, NEW extern, Store(active, extern), NEW new, Readable(new),
         TearsApart(active, new),
         \A ck \in Loaded(active, extern) : Gates[new.work] <= Gates[ck.work],
         NEW ck \in Loaded(TornTo(active, extern, new), extern)
  PROVE  ck.work = new.work \/ ck \in Loaded(active, extern)
<1>1. CASE Protected(active, extern, new)
  BY <1>1 DEF TornTo
<1>2. CASE ~Protected(active, extern, new)
  <2>1. TornTo(active, extern, new) = {Torn(a, new) : a \in active}
    BY <1>2 DEF TornTo, Torn
  <2>2. CASE ck \in TornTo(active, extern, new)
    BY <2>1, <2>2 DEF TearsApart
  <2>3. CASE ck \in extern /\ \A own \in TornTo(active, extern, new) : RankedBefore(ck, own)
    <3> SUFFICES ASSUME NEW a \in active, ~RankedBefore(ck, a)
                 PROVE  FALSE
      BY <2>3 DEF Loaded
    <3> DEFINE t == Torn(a, new)
    <3>1. a \in Loaded(active, extern)
      BY <2>3 DEF Loaded, Store, AtMostOne
    <3>2. RankedBefore(ck, t)
      BY <2>1, <2>3
    <3>3. Readable(a) /\ Readable(ck) /\ Readable(t)
      <4>1. Readable(a) /\ Readable(ck)
        BY <2>3 DEF Store
      <4> QED BY <4>1 DEF TearsApart, Readable
    <3>4. t.work = new.work /\ t.about = a.about /\ Unresolved(t) = Unresolved(a)
      BY DEF TearsApart, Unresolved
    <3>5. StoredGates(t) <= StoredGates(a)
      <4>1. Gates[new.work] <= Gates[a.work] /\ Gates[new.work] \in Nat
        BY <3>1, WorksAssumption DEF Readable
      <4>2. Gates[a.work] \in Nat /\ Gates[a.about] \in Nat
        BY <3>3, SizesNat
      <4> QED BY <3>4, <4>1, <4>2 DEF StoredGates, FewOf
    <3> HIDE DEF t
    <3>6. \A x \in {a, ck, t} : StoredGates(x) \in Nat /\ Unresolved(x) \in Nat
      BY <3>3, SizesNat
    <3>7. CASE Policy = "gates"
      <4>1. \A y \in {a, t} : RankedBefore(ck, y) <=>
              (\/ StoredGates(ck) < StoredGates(y)
               \/ StoredGates(ck) = StoredGates(y) /\ Unresolved(ck) < Unresolved(y))
        BY <3>7, RankCases
      <4>2. RankedBefore(ck, a)
        BY <3>2, <3>4, <3>5, <3>6, <4>1
      <4> QED BY <4>2
    <3>8. CASE Policy = "unresolved"
      <4>1. \A y \in {a, t} : RankedBefore(ck, y) <=>
              (\/ Unresolved(ck) < Unresolved(y)
               \/ Unresolved(ck) = Unresolved(y) /\ StoredGates(ck) < StoredGates(y))
        BY <3>8, RankCases
      <4>2. RankedBefore(ck, a)
        BY <3>2, <3>4, <3>5, <3>6, <4>1
      <4> QED BY <4>2
    <3>9. CASE Policy = "recent"
      BY <3>2, <3>9, RankCases
    <3> QED BY <3>7, <3>8, <3>9, RankCases
  <2> QED BY <2>2, <2>3 DEF Loaded
<1> QED BY <1>1, <1>2

(* The next run begins with an AAG at least as small as the one saved,     *)
(* written or refused, if the policy compares gates first or not at all    *)
(* and no AAG lies beside the JSON part of a smaller one.  Under           *)
(* "unresolved" this is false (CommitNotSaved.cfg).                        *)
Forward(ck) == Gates[ck.work] <= Gates[ck.about]

ComparesGates(active, extern) ==
  \/ Policy = "recent"
  \/ Policy = "gates" /\ \A ck \in active \cup extern : Forward(ck)

THEOREM SaveIsNotLost ==
  ASSUME NEW active, NEW extern, Store(active, extern), ComparesGates(active, extern),
         NEW new, Readable(new), new.about = new.work
  PROVE  /\ Loaded(SavedTo(active, extern, new), extern) # {}
         /\ \A ck \in Loaded(SavedTo(active, extern, new), extern) :
              Gates[ck.work] <= Gates[new.work]
<1>0. StoredGates(new) = Gates[new.work] /\ Gates[new.work] \in Nat
  BY SizesNat
<1>1. CASE ~Protected(active, extern, new)
  <2>1. SavedTo(active, extern, new) = {new} /\ Loaded({new}, extern) = {new}
    BY <1>1, SavedIsLoaded
  <2>2. Loaded(SavedTo(active, extern, new), extern) = {new}
    BY <2>1
  <2> QED BY <1>0, <2>2
<1>2. CASE Protected(active, extern, new)
  <2>1. SavedTo(active, extern, new) = active
    BY <1>2 DEF SavedTo
  <2>2. PICK better \in active \cup extern : RankedBefore(better, new)
    BY <1>2 DEF Protected
  <2>3. Loaded(active, extern) # {}
    BY LoadedIsBest
  <2>4. ASSUME NEW ck \in Loaded(active, extern)
        PROVE  Gates[ck.work] <= Gates[new.work]
    <3>1. ck \in active \cup extern /\ ~RankedBefore(better, ck)
      BY LoadedIsBest
    <3>2. Readable(ck) /\ Readable(better)
      BY <3>1 DEF Store
    <3>3. \A x \in {ck, better, new} : StoredGates(x) \in Nat /\ Unresolved(x) \in Nat
      BY <3>2, SizesNat
    <3>4. Policy = "gates"
      BY <2>2, RankCases DEF ComparesGates
    <3>5. StoredGates(better) <= StoredGates(new)
      BY <2>2, <3>3, <3>4, RankCases
    <3>6. StoredGates(ck) <= StoredGates(better)
      BY <3>1, <3>3, <3>4, RankCases
    <3>7. StoredGates(ck) = Gates[ck.work]
      <4>1. Forward(ck)
        BY <3>1, <3>4 DEF ComparesGates
      <4> QED BY <3>2, <4>1, SizesNat DEF Forward, StoredGates, FewOf
    <3> QED BY <1>0, <3>3, <3>5, <3>6, <3>7
  <2> QED BY <2>1, <2>3, <2>4
<1> QED BY <1>1, <1>2

(* Saves, torn or not, leave no AAG beside the JSON part of a smaller one. *)
LEMMA StillForward ==
  ASSUME NEW active, NEW extern, Store(active, extern), ComparesGates(active, extern),
         NEW new, Readable(new), new.about = new.work, TearsApart(active, new)
  PROVE  /\ ComparesGates(SavedTo(active, extern, new), extern)
         /\ ComparesGates(TornTo(active, extern, new), extern)
<1> SUFFICES ASSUME Policy = "gates"
             PROVE  /\ \A ck \in SavedTo(active, extern, new) : Forward(ck)
                    /\ \A ck \in TornTo(active, extern, new) : Forward(ck)
  BY DEF ComparesGates
<1>0. \A ck \in active \cup extern : Forward(ck)
  BY DEF ComparesGates
<1>1. Forward(new) /\ StoredGates(new) = Gates[new.work]
  BY SizesNat DEF Forward
<1>2. \A ck \in SavedTo(active, extern, new) : Forward(ck)
  BY <1>0, <1>1 DEF SavedTo
<1>3. ASSUME NEW ck \in TornTo(active, extern, new)
      PROVE  Forward(ck)
  <2>1. CASE Protected(active, extern, new)
    BY <1>0, <2>1 DEF TornTo
  <2>2. CASE ~Protected(active, extern, new)
    <3>1. PICK a \in active : ck = Torn(a, new)
      BY <2>2 DEF TornTo, Torn
    <3>2. ck.work = new.work /\ ck.about = a.about
      BY <3>1 DEF TearsApart
    <3>3. ~RankedBefore(a, new) /\ Readable(a)
      BY <2>2 DEF Protected, Store
    <3>4. \A x \in {a, new} : StoredGates(x) \in Nat /\ Unresolved(x) \in Nat
      BY <3>3, SizesNat
    <3>5. StoredGates(new) <= StoredGates(a)
      BY <3>3, <3>4, RankCases
    <3>6. StoredGates(a) <= Gates[a.about] /\ Gates[a.about] \in Nat
      BY <3>3, SizesNat
    <3> QED BY <1>1, <3>2, <3>4, <3>5, <3>6 DEF Forward
  <2> QED BY <2>1, <2>2
<1> QED BY <1>2, <1>3
-----------------------------------------------------------------------------
(* The AAG the next run begins with; original if there is no checkpoint.   *)
StartFrom(active, extern, original) ==
  IF Loaded(active, extern) = {} THEN original
  ELSE (CHOOSE ck \in Loaded(active, extern) : TRUE).work

LEMMA StartIsLoaded ==
  ASSUME NEW active, NEW extern, NEW original, Store(active, extern)
  PROVE  /\ Loaded(active, extern) = {} => StartFrom(active, extern, original) = original
         /\ \A ck \in Loaded(active, extern) :
              StartFrom(active, extern, original) = ck.work
<1>1. ASSUME NEW ck \in Loaded(active, extern)
      PROVE  StartFrom(active, extern, original) = ck.work
  <2>1. (CHOOSE c \in Loaded(active, extern) : TRUE) \in Loaded(active, extern)
    OBVIOUS
  <2>2. (CHOOSE c \in Loaded(active, extern) : TRUE) = ck
    BY <2>1, LoadedIsBest DEF AtMostOne
  <2> QED BY <2>2 DEF StartFrom
<1> QED BY <1>1 DEF StartFrom

(* _save_checkpoint, torn or not, moves the AAG the next run begins with   *)
(* to the one it saves or leaves it: no save falls back behind another,    *)
(* under any policy, if the AAG saved is no larger than the next start.    *)
THEOREM SavesMoveOn ==
  ASSUME NEW active, NEW extern, NEW original, Store(active, extern),
         NEW new, Readable(new), TearsApart(active, new)
  PROVE  LET start == StartFrom(active, extern, original) IN
         /\ StartFrom(SavedTo(active, extern, new), extern, original) \in {start, new.work}
         /\ Gates[new.work] <= Gates[start] =>
              StartFrom(TornTo(active, extern, new), extern, original) \in {start, new.work}
<1> DEFINE start == StartFrom(active, extern, original)
<1>1. StartFrom(SavedTo(active, extern, new), extern, original) \in {start, new.work}
  <2>1. CASE Protected(active, extern, new)
    BY <2>1 DEF SavedTo
  <2>2. CASE ~Protected(active, extern, new)
    <3>1. SavedTo(active, extern, new) = {new} /\ Loaded({new}, extern) = {new}
      BY <2>2, SavedIsLoaded
    <3>2. StartFrom({new}, extern, original) = new.work
      BY <3>1 DEF StartFrom
    <3> QED BY <3>1, <3>2
  <2> QED BY <2>1, <2>2
<1>2. ASSUME Gates[new.work] <= Gates[start]
      PROVE  StartFrom(TornTo(active, extern, new), extern, original) \in {start, new.work}
  <2> DEFINE torn == TornTo(active, extern, new)
  <2>1. Store(torn, extern)
    BY TornStore
  <2>2. \A ck \in Loaded(active, extern) : Gates[new.work] <= Gates[ck.work]
    BY <1>2, StartIsLoaded
  <2>3. CASE Loaded(torn, extern) = {}
    <3>1. torn = {} /\ extern = {}
      BY <2>1, <2>3, LoadedIsBest
    <3>2. active = {}
      BY <3>1 DEF TornTo
    <3> QED BY <3>1, <3>2
  <2>4. ASSUME NEW ck \in Loaded(torn, extern)
        PROVE  StartFrom(torn, extern, original) \in {start, new.work}
    <3>1. ck.work = new.work \/ ck \in Loaded(active, extern)
      BY <2>2, TornSaveMovesOn
    <3>2. StartFrom(torn, extern, original) = ck.work
      BY <2>1, StartIsLoaded
    <3>3. ck \in Loaded(active, extern) => start = ck.work
      BY StartIsLoaded
    <3> QED BY <3>1, <3>2, <3>3
  <2> QED BY <2>3, <2>4
<1> QED BY <1>1, <1>2
=============================================================================
