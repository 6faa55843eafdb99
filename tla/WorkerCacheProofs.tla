-------------------------- MODULE WorkerCacheProofs --------------------------
(***************************************************************************)
(* A worker never solves another generation than the one its task was      *)
(* given for, however many circuits, workers and commits there are.  The   *)
(* key of an entry names no content; what makes it good enough is the      *)
(* order of modification times: whatever a worker has read of a work AAG   *)
(* is at most as old as the file there is now, an entry of the same age    *)
(* has its content, and a candidate is younger than both.                  *)
(***************************************************************************)
EXTENDS WorkerCache, SequenceTheorems, FiniteSetTheorems, TLAPS

Stored == [key : Keys, generation : Generations]

Task ==
  [worker : Workers, path : Paths, snapshot : Generations,
   key : SUBSET Keys, solves : SUBSET Generations]

(* The types, with the shapes the actions take apart.                      *)
Shapes ==
  /\ file \in [Paths -> AAGs] /\ clock \in Nat
  /\ candidate \subseteq [path : Paths, aag : AAGs]
  /\ \A m, n \in candidate : m = n
  /\ jobs \subseteq Task
  /\ \A j, k \in jobs : j.worker = k.worker => j = k
  /\ cache \in [Workers -> Seq(Stored)]

(* The cache is within its limit and has no key twice.                     *)
FewAndDistinct(entries) ==
  /\ Len(entries) <= Entries
  /\ \A i, j \in 1 .. Len(entries) : entries[i].key = entries[j].key => i = j

CachesFit == \A w \in Workers : FewAndDistinct(cache[w])

(* The file there is now is older than the clock, a candidate as young.    *)
FilesAge ==
  /\ \A p \in Paths : file[p].mtime < clock
  /\ \A n \in candidate : n.aag.mtime = clock

(* No entry is younger than its file, and one of the same age has its      *)
(* content.                                                                *)
Dated(e) ==
  \A p \in Paths : e.key[1] = p =>
    /\ e.key[4] <= file[p].mtime
    /\ e.key[4] = file[p].mtime => e.generation = file[p].generation

EntriesDated == \A w \in Workers : \A i \in 1 .. Len(cache[w]) : Dated(cache[w][i])

(* While a task is out its file stays: its snapshot, the key it took and   *)
(* what it solves are those of now; a key is taken on a miss only.         *)
TasksCurrent ==
  \A j \in jobs :
    /\ j.snapshot = file[j.path].generation
    /\ \A n \in candidate : n.path # j.path
    /\ j.key \subseteq {Key(j.path, file[j.path])}
    /\ j.solves \subseteq {j.snapshot}
    /\ j.solves = {} /\ j.key # {} => Cached(j) = {}

IInv == Shapes /\ CachesFit /\ FilesAge /\ EntriesDated /\ TasksCurrent

LEMMA InitIInv == Init => IInv
<1> SUFFICES ASSUME Init PROVE IInv
  OBVIOUS
<1>1. Shapes
  BY CacheAssumption DEF Init, Shapes, AAGs
<1>2. CachesFit /\ EntriesDated
  BY CacheAssumption DEF Init, CachesFit, FewAndDistinct, EntriesDated
<1>3. FilesAge /\ TasksCurrent
  BY DEF Init, FilesAge, TasksCurrent
<1> QED BY <1>1, <1>2, <1>3 DEF IInv

(* The strengthening says at least what the runs check.                    *)
LEMMA IInvImplies ==
  ASSUME IInv
  PROVE  TypeOK /\ SolvesTheSnapshot
<1>1. TypeOK
  <2>1. /\ file \in [Paths -> AAGs] /\ clock \in Nat
        /\ \A n \in candidate : n.path \in Paths /\ n.aag \in AAGs
    BY DEF IInv, Shapes
  <2>2. Cardinality(candidate) <= 1
    <3>1. CASE candidate = {}
      BY <3>1, FS_EmptySet
    <3>2. ASSUME NEW n \in candidate
          PROVE  Cardinality(candidate) <= 1
      <4>1. candidate = {n}
        BY DEF IInv, Shapes
      <4>2. Cardinality({n}) = 1
        BY FS_Singleton
      <4> QED BY <4>1, <4>2
    <3> QED BY <3>1, <3>2
  <2>3. \A j \in jobs :
          /\ j.worker \in Workers /\ j.path \in Paths /\ j.snapshot \in Generations
          /\ \A key \in j.key : key \in Keys
          /\ j.solves \subseteq Generations
          /\ \A other \in jobs : other.worker = j.worker => other = j
    BY DEF IInv, Shapes, Task
  <2>4. \A w \in Workers :
          /\ Len(cache[w]) <= Entries
          /\ \A i, j \in 1 .. Len(cache[w]) : cache[w][i].key = cache[w][j].key => i = j
    BY DEF IInv, CachesFit, FewAndDistinct
  <2> QED BY <2>1, <2>2, <2>3, <2>4 DEF TypeOK
<1>2. SolvesTheSnapshot
  BY DEF IInv, TasksCurrent, SolvesTheSnapshot
<1> QED BY <1>1, <1>2

-----------------------------------------------------------------------------
(* What the two updates of a cache keep.                                   *)

(* An entry that moves to the end: the same entries, none twice.           *)
LEMMA MovedToEnd ==
  ASSUME NEW s \in Seq(Stored), FewAndDistinct(s), NEW i \in DOMAIN s
  PROVE  LET r == Append(RemoveAt(s, i), s[i]) IN
         /\ r \in Seq(Stored) /\ FewAndDistinct(r)
         /\ \A k \in 1 .. Len(r) : \E l \in 1 .. Len(s) : r[k] = s[l]
<1> DEFINE n == Len(s)
           before == SubSeq(s, 1, i - 1)
           after == SubSeq(s, i + 1, n)
           rest == before \o after
           r == Append(rest, s[i])
<1>1. n \in Nat /\ i \in 1 .. n /\ s[i] \in Stored /\ \A k \in 1 .. n : s[k] \in Stored
  BY ElementOfSeq, LenProperties
<1>2. /\ before \in Seq(Stored) /\ Len(before) = i - 1
      /\ \A k \in 1 .. i - 1 : before[k] = s[k]
  BY <1>1, SubSeqProperties
<1>3. /\ after \in Seq(Stored) /\ Len(after) = n - i
      /\ \A k \in 1 .. n - i : after[k] = s[k + i]
  <2>1. \A k \in i + 1 .. n : s[k] \in Stored
    BY <1>1
  <2>2. /\ after \in Seq(Stored)
        /\ Len(after) = IF i + 1 <= n THEN n - (i + 1) + 1 ELSE 0
        /\ \A k \in 1 .. n - (i + 1) + 1 : after[k] = s[(i + 1) + k - 1]
    BY <1>1, <2>1, SubSeqProperties
  <2> QED BY <1>1, <2>2
<1> HIDE DEF before, after
<1>4. /\ rest \in Seq(Stored) /\ Len(rest) = n - 1
      /\ \A k \in 1 .. n - 1 : rest[k] = IF k < i THEN s[k] ELSE s[k + 1]
  BY <1>1, <1>2, <1>3, ConcatProperties
<1> HIDE DEF rest
<1>5. /\ r \in Seq(Stored) /\ Len(r) = n
      /\ \A k \in 1 .. n : r[k] = IF k = n THEN s[i] ELSE IF k < i THEN s[k] ELSE s[k + 1]
  BY <1>1, <1>4, AppendProperties
<1>6. r = Append(RemoveAt(s, i), s[i])
  BY DEF RemoveAt, rest, before, after
<1> HIDE DEF r
<1> DEFINE from(k) == IF k = n THEN i ELSE IF k < i THEN k ELSE k + 1
<1>7. \A k \in 1 .. n : from(k) \in 1 .. n /\ r[k] = s[from(k)]
  BY <1>1, <1>5
<1>8. \A k, l \in 1 .. n : from(k) = from(l) => k = l
  BY <1>1
<1>9. FewAndDistinct(r)
  BY <1>5, <1>7, <1>8 DEF FewAndDistinct
<1> QED BY <1>5, <1>6, <1>7, <1>9

(* A new entry: the cache stays within its limit, whatever that is.        *)
LEMMA StoredLast ==
  ASSUME NEW s \in Seq(Stored), FewAndDistinct(s), NEW e \in Stored,
         \A k \in 1 .. Len(s) : s[k].key # e.key
  PROVE  LET r == Evicted(Append(s, e)) IN
         /\ r \in Seq(Stored) /\ FewAndDistinct(r)
         /\ \A k \in 1 .. Len(r) : r[k] = e \/ \E l \in 1 .. Len(s) : r[k] = s[l]
<1> DEFINE n == Len(s)
           all == Append(s, e)
           first == Max({1, Len(all) - Entries + 1})
           r == SubSeq(all, first, Len(all))
<1>1. n \in Nat /\ Entries \in Nat /\ n <= Entries
  BY LenProperties, CacheAssumption DEF FewAndDistinct
<1>2. /\ all \in Seq(Stored) /\ Len(all) = n + 1
      /\ \A k \in 1 .. n + 1 : all[k] = IF k = n + 1 THEN e ELSE s[k]
      /\ \A k \in 1 .. n + 1 : all[k] \in Stored
  BY <1>1, AppendProperties, ElementOfSeq
<1> HIDE DEF all
<1>3. /\ first \in Nat /\ 1 <= first /\ n + 2 - Entries <= first
      /\ first = 1 \/ first = n + 2 - Entries
  <2> DEFINE m == Len(all) - Entries + 1
  <2>1. m \in Int /\ m = n + 2 - Entries
    BY <1>1, <1>2
  <2> HIDE DEF m
  <2>2. \E x \in {1, m} : \A y \in {1, m} : x >= y
    BY <2>1
  <2>3. first \in {1, m} /\ \A y \in {1, m} : first >= y
    BY <2>2 DEF Max, m
  <2> QED BY <2>1, <2>3
<1> HIDE DEF first
<1>4. /\ r \in Seq(Stored)
      /\ Len(r) = IF first <= n + 1 THEN n + 1 - first + 1 ELSE 0
      /\ \A k \in 1 .. n + 1 - first + 1 : r[k] = all[first + k - 1]
  <2>1. \A k \in first .. Len(all) : all[k] \in Stored
    BY <1>2, <1>3
  <2> QED BY <1>1, <1>2, <1>3, <2>1, SubSeqProperties
<1>5. r = Evicted(Append(s, e))
  BY DEF Evicted, all, first
<1> HIDE DEF r
<1>6. Len(r) \in Nat /\ Len(r) <= Entries
  BY <1>1, <1>3, <1>4
<1>7. \A k \in 1 .. Len(r) :
        first + k - 1 \in 1 .. n + 1 /\ r[k] = all[first + k - 1]
  BY <1>1, <1>3, <1>4
<1>8. \A k, l \in 1 .. n + 1 : all[k].key = all[l].key => k = l
  BY <1>1, <1>2 DEF FewAndDistinct
<1>9. FewAndDistinct(r)
  <2>1. ASSUME NEW k \in 1 .. Len(r), NEW l \in 1 .. Len(r), r[k].key = r[l].key
        PROVE  k = l
    <3>1. PICK x \in 1 .. n + 1 : x = first + k - 1 /\ r[k] = all[x]
      BY <1>7
    <3>2. PICK y \in 1 .. n + 1 : y = first + l - 1 /\ r[l] = all[y]
      BY <1>7
    <3>3. x = y
      BY <1>8, <2>1, <3>1, <3>2
    <3> QED BY <1>3, <1>6, <3>1, <3>2, <3>3
  <2> QED BY <1>6, <2>1 DEF FewAndDistinct
<1>10. \A k \in 1 .. Len(r) : r[k] = e \/ \E l \in 1 .. n : r[k] = s[l]
  BY <1>1, <1>2, <1>7
<1> QED BY <1>4, <1>5, <1>9, <1>10

-----------------------------------------------------------------------------
(* The steps.                                                              *)

LEMMA DispatchStep ==
  ASSUME IInv, NEW w \in Workers, NEW p \in Paths, Dispatch(w, p)
  PROVE  IInv'
<1> DEFINE new == [worker |-> w, path |-> p, snapshot |-> file[p].generation,
                   key |-> {}, solves |-> {}]
<1>1. /\ jobs' = jobs \cup {new} /\ UNCHANGED <<file, candidate, clock, cache>>
      /\ \A j \in jobs : j.worker # w
      /\ \A n \in candidate : n.path # p
  BY DEF Dispatch, Committing
<1>2. new \in Task
  BY DEF IInv, Shapes, Task, AAGs, Generations
<1>3. Shapes'
  <2>1. new.worker = w
    OBVIOUS
  <2> HIDE DEF new
  <2>2. \A j, k \in jobs' : j.worker = k.worker => j = k
    BY <1>1, <2>1 DEF IInv, Shapes
  <2> QED BY <1>1, <1>2, <2>2 DEF IInv, Shapes
<1>4. CachesFit' /\ FilesAge' /\ EntriesDated'
  BY <1>1 DEF IInv, CachesFit, FilesAge, EntriesDated, Dated
<1>5. TasksCurrent'
  BY <1>1 DEF IInv, TasksCurrent, Key, Cached
<1> QED BY <1>3, <1>4, <1>5 DEF IInv

(* What a task that goes on needs, when only its worker's cache changes.   *)
LEMMA GoesOnStep ==
  ASSUME IInv, NEW j \in jobs, NEW next \in Task, GoesOn(j, next),
         UNCHANGED <<file, candidate, clock>>,
         next.worker = j.worker, next.path = j.path, next.snapshot = j.snapshot,
         next.key \subseteq {Key(j.path, file[j.path])},
         next.solves \subseteq {j.snapshot},
         NEW r \in Seq(Stored), cache' = [cache EXCEPT ![j.worker] = r],
         FewAndDistinct(r), \A i \in 1 .. Len(r) : Dated(r[i]),
         next.solves = {} /\ next.key # {} =>
           \A i \in DOMAIN r : r[i].key # Key(j.path, file[j.path])
  PROVE  IInv'
<1>1. j \in Task /\ j.worker \in Workers /\ jobs' = (jobs \ {j}) \cup {next}
  BY DEF IInv, Shapes, Task, GoesOn
<1>2. cache \in [Workers -> Seq(Stored)]
  BY DEF IInv, Shapes
<1>3. \A w \in Workers : cache'[w] = IF w = j.worker THEN r ELSE cache[w]
  BY <1>2
<1>4. Shapes'
  <2>1. cache' \in [Workers -> Seq(Stored)]
    BY <1>2
  <2>2. \A k \in jobs : k.worker = j.worker => k = j
    BY DEF IInv, Shapes
  <2> QED BY <1>1, <2>1, <2>2 DEF IInv, Shapes
<1>5. CachesFit'
  BY <1>3 DEF IInv, CachesFit, FewAndDistinct
<1>6. FilesAge'
  BY DEF IInv, FilesAge
<1>7. EntriesDated'
  BY <1>3 DEF IInv, EntriesDated, Dated
<1>8. TasksCurrent'
  <2> SUFFICES ASSUME NEW k \in jobs'
               PROVE  /\ k.snapshot = file[k.path].generation
                      /\ \A n \in candidate : n.path # k.path
                      /\ k.key \subseteq {Key(k.path, file[k.path])}
                      /\ k.solves \subseteq {k.snapshot}
                      /\ k.solves = {} /\ k.key # {} => Cached(k)' = {}
    BY DEF TasksCurrent, Key
  <2>1. CASE k = next
    <3>1. cache'[k.worker] = r
      BY <1>1, <1>3, <2>1
    <3>2. k.solves = {} /\ k.key # {} => Cached(k)' = {}
      BY <2>1, <3>1 DEF Cached, Key
    <3> QED BY <2>1, <3>2 DEF IInv, TasksCurrent
  <2>2. CASE k # next
    <3>1. k \in jobs /\ k.worker # j.worker /\ k.worker \in Workers
      BY <1>1, <2>2 DEF IInv, Shapes, Task
    <3>2. cache'[k.worker] = cache[k.worker]
      BY <1>3, <3>1
    <3>3. Cached(k)' = Cached(k)
      BY <3>2 DEF Cached, Key
    <3> QED BY <3>1, <3>3 DEF IInv, TasksCurrent
  <2> QED BY <2>1, <2>2
<1> QED BY <1>4, <1>5, <1>6, <1>7, <1>8 DEF IInv

LEMMA HitStep ==
  ASSUME IInv, NEW j \in jobs, Hit(j)
  PROVE  IInv'
<1>1. PICK i \in Cached(j) :
        /\ cache' = [cache EXCEPT ![j.worker] = Append(RemoveAt(@, i), @[i])]
        /\ GoesOn(j, [j EXCEPT !.solves = {cache[j.worker][i].generation}])
  BY DEF Hit
<1> DEFINE s == cache[j.worker]
           r == Append(RemoveAt(s, i), s[i])
           next == [j EXCEPT !.solves = {s[i].generation}]
<1>2. j \in Task /\ j.worker \in Workers /\ j.path \in Paths /\ s \in Seq(Stored)
  BY DEF IInv, Shapes, Task
<1>3. FewAndDistinct(s) /\ \A k \in 1 .. Len(s) : Dated(s[k])
  BY <1>2 DEF IInv, CachesFit, EntriesDated
<1>4. i \in 1 .. Len(s) /\ i \in DOMAIN s /\ s[i].key = Key(j.path, file[j.path])
  BY <1>2, LenProperties DEF Cached
<1>5. s[i] \in Stored /\ s[i].generation = file[j.path].generation
  BY <1>2, <1>3, <1>4, ElementOfSeq DEF Dated, Key
<1>6. s[i].generation = j.snapshot /\ s[i].generation \in Generations
  BY <1>5 DEF IInv, TasksCurrent, Stored
<1>7. /\ r \in Seq(Stored) /\ FewAndDistinct(r)
      /\ \A k \in 1 .. Len(r) : \E l \in 1 .. Len(s) : r[k] = s[l]
  BY <1>2, <1>3, <1>4, MovedToEnd
<1>8. /\ next \in Task /\ next.worker = j.worker /\ next.path = j.path
      /\ next.snapshot = j.snapshot /\ next.key = {} /\ next.solves = {j.snapshot}
  BY <1>2, <1>6 DEF Task, Hit
<1>9. cache' = [cache EXCEPT ![j.worker] = r] /\ GoesOn(j, next)
      /\ UNCHANGED <<file, candidate, clock>>
  BY <1>1 DEF Hit
<1>10. \A k \in 1 .. Len(r) : Dated(r[k])
  BY <1>3, <1>7
<1> HIDE DEF s, r, next
<1> QED BY <1>7, <1>8, <1>9, <1>10, GoesOnStep

LEMMA MissStep ==
  ASSUME IInv, NEW j \in jobs, Miss(j)
  PROVE  IInv'
<1> DEFINE r == cache[j.worker]
           next == [j EXCEPT !.key = {Key(j.path, file[j.path])}]
<1>1. j \in Task /\ j.worker \in Workers /\ j.path \in Paths /\ r \in Seq(Stored)
  BY DEF IInv, Shapes, Task
<1>2. FewAndDistinct(r) /\ \A k \in 1 .. Len(r) : Dated(r[k])
  BY <1>1 DEF IInv, CachesFit, EntriesDated
<1>3. Key(j.path, file[j.path]) \in Keys
  BY <1>1 DEF IInv, Shapes, Key, Keys, AAGs
<1>4. /\ next \in Task /\ next.worker = j.worker /\ next.path = j.path
      /\ next.snapshot = j.snapshot /\ next.solves = {}
      /\ next.key = {Key(j.path, file[j.path])}
  BY <1>1, <1>3 DEF Task, Miss
<1>5. cache' = [cache EXCEPT ![j.worker] = r] /\ GoesOn(j, next)
      /\ UNCHANGED <<file, candidate, clock>>
  BY DEF Miss, IInv, Shapes
<1>6. \A k \in DOMAIN r : r[k].key # Key(j.path, file[j.path])
  BY DEF Miss, Cached
<1> HIDE DEF r, next
<1> QED BY <1>1, <1>2, <1>4, <1>5, <1>6, GoesOnStep

LEMMA ParseStep ==
  ASSUME IInv, NEW j \in jobs, Parse(j)
  PROVE  IInv'
<1> DEFINE e == [key |-> Key(j.path, file[j.path]), generation |-> file[j.path].generation]
           s == cache[j.worker]
           r == Evicted(Append(s, e))
           next == [j EXCEPT !.solves = {e.generation}]
<1>1. j \in Task /\ j.worker \in Workers /\ j.path \in Paths /\ s \in Seq(Stored)
  BY DEF IInv, Shapes, Task
<1>2. FewAndDistinct(s) /\ \A k \in 1 .. Len(s) : Dated(s[k])
  BY <1>1 DEF IInv, CachesFit, EntriesDated
<1>3. /\ j.key = {Key(j.path, file[j.path])} /\ Cached(j) = {}
      /\ file[j.path].generation = j.snapshot
  BY DEF Parse, IInv, TasksCurrent
<1>4. cache' = [cache EXCEPT ![j.worker] = r] /\ GoesOn(j, next)
      /\ UNCHANGED <<file, candidate, clock>>
  BY <1>3 DEF Parse
<1>5. e \in Stored /\ e.generation = j.snapshot /\ e.key = Key(j.path, file[j.path])
  BY <1>1, <1>3 DEF IInv, Shapes, Key, Keys, AAGs, Stored, Generations
<1>6. Dated(e)
  BY <1>1 DEF IInv, Shapes, AAGs, Dated, Key
<1>7. \A k \in 1 .. Len(s) : s[k].key # e.key
  BY <1>1, <1>3, <1>5, LenProperties DEF Cached
<1>8. /\ next \in Task /\ next.worker = j.worker /\ next.path = j.path
      /\ next.snapshot = j.snapshot /\ next.key = j.key /\ next.solves = {j.snapshot}
  BY <1>1, <1>5 DEF Task, Stored
<1> HIDE DEF e, s, next
<1>9. /\ r \in Seq(Stored) /\ FewAndDistinct(r)
      /\ \A k \in 1 .. Len(r) : r[k] = e \/ \E l \in 1 .. Len(s) : r[k] = s[l]
  BY <1>1, <1>2, <1>5, <1>7, StoredLast
<1>10. \A k \in 1 .. Len(r) : Dated(r[k])
  BY <1>2, <1>6, <1>9
<1> HIDE DEF r
<1> QED BY <1>3, <1>4, <1>8, <1>9, <1>10, GoesOnStep

LEMMA AnswerStep ==
  ASSUME IInv, NEW j \in jobs, Answer(j)
  PROVE  IInv'
<1>1. jobs' = jobs \ {j} /\ UNCHANGED <<file, candidate, clock, cache>>
  BY DEF Answer
<1>2. Shapes' /\ CachesFit' /\ FilesAge' /\ EntriesDated'
  BY <1>1 DEF IInv, Shapes, CachesFit, FilesAge, EntriesDated, Dated
<1>3. TasksCurrent'
  BY <1>1 DEF IInv, TasksCurrent, Key, Cached
<1> QED BY <1>2, <1>3 DEF IInv

LEMMA WriteStep ==
  ASSUME IInv, NEW p \in Paths, WriteCandidate(p)
  PROVE  IInv'
<1>1. PICK i \in Inodes, size \in Sizes :
        candidate' = {[path |-> p,
                       aag |-> [inode |-> i, size |-> size, mtime |-> clock,
                                generation |-> file[p].generation + 1]]}
  BY DEF WriteCandidate
<1>2. UNCHANGED <<file, clock, cache, jobs>> /\ \A j \in jobs : j.path # p
  BY DEF WriteCandidate, MayCommit
<1>3. file[p].generation + 1 \in 0 .. MaxGeneration /\ clock \in Nat
  BY CacheAssumption DEF WriteCandidate, IInv, Shapes, AAGs
<1>4. candidate' \subseteq [path : Paths, aag : AAGs]
  BY <1>1, <1>3 DEF AAGs
<1>5. Shapes'
  BY <1>1, <1>2, <1>4 DEF IInv, Shapes
<1>6. CachesFit' /\ EntriesDated' /\ FilesAge'
  BY <1>1, <1>2 DEF IInv, CachesFit, EntriesDated, Dated, FilesAge
<1>7. TasksCurrent'
  BY <1>1, <1>2 DEF IInv, TasksCurrent, Key, Cached
<1> QED BY <1>5, <1>6, <1>7 DEF IInv

(* The file that is replaced is no task's, and the new one is younger than *)
(* every entry.                                                            *)
LEMMA PassStep ==
  ASSUME IInv, CheckPasses
  PROVE  IInv'
<1>1. PICK n \in candidate : file' = [file EXCEPT ![n.path] = n.aag]
  BY DEF CheckPasses
<1>2. candidate' = {} /\ clock' = clock + 1 /\ UNCHANGED <<cache, jobs>>
  BY DEF CheckPasses
<1>3. n.path \in Paths /\ n.aag \in AAGs /\ n.aag.mtime = clock
  BY DEF IInv, Shapes, FilesAge
<1>4. \A p \in Paths : file'[p] = IF p = n.path THEN n.aag ELSE file[p]
  BY <1>1 DEF IInv, Shapes
<1>5. Shapes'
  BY <1>1, <1>2, <1>3 DEF IInv, Shapes
<1>6. CachesFit'
  BY <1>2 DEF IInv, CachesFit
<1>7. FilesAge'
  BY <1>2, <1>3, <1>4 DEF IInv, Shapes, AAGs, FilesAge
<1>8. EntriesDated'
  <2> SUFFICES ASSUME NEW w \in Workers, NEW i \in 1 .. Len(cache[w]), NEW p \in Paths,
                      cache[w][i].key[1] = p
               PROVE  /\ cache[w][i].key[4] <= file'[p].mtime
                      /\ cache[w][i].key[4] = file'[p].mtime =>
                           cache[w][i].generation = file'[p].generation
    BY <1>2 DEF EntriesDated, Dated
  <2>1. cache[w][i] \in Stored
    BY ElementOfSeq DEF IInv, Shapes
  <2>2. cache[w][i].key[4] \in Nat
    BY <2>1 DEF Stored, Keys
  <2>3. /\ cache[w][i].key[4] <= file[p].mtime
        /\ cache[w][i].key[4] = file[p].mtime => cache[w][i].generation = file[p].generation
    BY DEF IInv, EntriesDated, Dated
  <2>4. file[p].mtime \in Nat /\ file[p].mtime < clock /\ clock \in Nat
    BY DEF IInv, FilesAge, Shapes, AAGs
  <2> QED BY <1>3, <1>4, <2>2, <2>3, <2>4
<1>9. TasksCurrent'
  <2>1. \A j \in jobs : j.path \in Paths /\ j.path # n.path
    BY DEF IInv, Shapes, Task, TasksCurrent
  <2>2. \A j \in jobs : file'[j.path] = file[j.path]
    BY <1>4, <2>1
  <2> QED BY <1>2, <2>2 DEF IInv, TasksCurrent, Key, Cached
<1> QED BY <1>5, <1>6, <1>7, <1>8, <1>9 DEF IInv

LEMMA FailStep ==
  ASSUME IInv, CheckFails
  PROVE  IInv'
<1>1. candidate' = {} /\ UNCHANGED <<file, clock, cache, jobs>>
  BY DEF CheckFails
<1>2. Shapes' /\ CachesFit' /\ FilesAge' /\ EntriesDated'
  BY <1>1 DEF IInv, Shapes, CachesFit, FilesAge, EntriesDated, Dated
<1>3. TasksCurrent'
  BY <1>1 DEF IInv, TasksCurrent, Key, Cached
<1> QED BY <1>2, <1>3 DEF IInv

LEMMA StepIInv == IInv /\ [Next]_vars => IInv'
<1> SUFFICES ASSUME IInv, [Next]_vars PROVE IInv'
  OBVIOUS
<1>1. CASE UNCHANGED vars
  BY <1>1 DEF vars, IInv, Shapes, CachesFit, FilesAge, EntriesDated, Dated, TasksCurrent,
              Key, Cached
<1>2. CASE Next
  BY <1>2, DispatchStep, HitStep, MissStep, ParseStep, AnswerStep, WriteStep, PassStep,
     FailStep DEF Next
<1> QED BY <1>1, <1>2

(* The cache of _worker_circuit holds at most worker_cache_entries parsed  *)
(* circuits, none under two keys, for every number of workers and circuits.*)
THEOREM CacheTyped == Spec => []TypeOK
<1>1. Spec => []IInv
  BY InitIInv, StepIInv, PTL DEF Spec
<1> QED BY <1>1, IInvImplies, PTL

(* A worker solves the content its task was given for (_solve_items with   *)
(* the circuit that _worker_circuit returns), over any number of commits.  *)
THEOREM SnapshotIsSolved == Spec => []SolvesTheSnapshot
<1>1. Spec => []IInv
  BY InitIInv, StepIInv, PTL DEF Spec
<1> QED BY <1>1, IInvImplies, PTL
=============================================================================
