---------------------------- MODULE WorkerCache ----------------------------
(***************************************************************************)
(* The circuits a pool worker keeps parsed between its tasks               *)
(* (alg10_frontier_shard_probe.py), beside the commits that replace the    *)
(* work AAGs underneath.                                                   *)
(*                                                                         *)
(* A worker finds a parsed circuit by path, inode, size and modification   *)
(* time of the work AAG, never by its content.  The commit process writes  *)
(* the next generation to a file beside the work AAG and renames it over   *)
(* it when the equivalence check passes.  The inode of the file replaced   *)
(* is free again and may be that of the next one; sizes may coincide; the  *)
(* modification time is that of the write, on a clock that stands still    *)
(* for shorter than one equivalence check takes.                           *)
(***************************************************************************)
EXTENDS Naturals, FiniteSets, SequencesExt

CONSTANTS Paths,          \* work AAGs, one per circuit
          Workers,
          Entries,        \* worker_cache_entries; 0 turns the cache off
          Inodes,
          Sizes,
          MaxGeneration   \* bound: commits per circuit

ASSUME CacheAssumption ==
  /\ Entries \in Nat
  /\ MaxGeneration \in Nat
  /\ IsFiniteSet(Inodes) /\ Cardinality(Inodes) > Cardinality(Paths)
  /\ Sizes # {}


VARIABLES file,        \* the work AAGs, with the generation that is their content
          candidate,   \* the next generation written beside its work AAG, if any
          clock,       \* of the file system
          cache,       \* per worker: keys and parsed circuits, least recently used first
          jobs         \* the tasks workers are at

vars == <<file, candidate, clock, cache, jobs>>

AAGs == [inode : Inodes, size : Sizes, mtime : Nat, generation : 0 .. MaxGeneration]

\* Mutant of Key: the modification time is not looked at.
KeyWithoutTime(p, f) == <<p, f.inode, f.size, 0>>

(* _worker_cache_key                                                       *)
Key(p, f) == <<p, f.inode, f.size, f.mtime>>

UsedInodes == {file[p].inode : p \in Paths} \cup {n.aag.inode : n \in candidate}

(* Work AAGs are copied into place before the pool starts, all at once.    *)
Init ==
  /\ \E at \in [Paths -> Inodes], size \in [Paths -> Sizes] :
       /\ \A p, q \in Paths : p # q => at[p] # at[q]
       /\ file = [p \in Paths |->
                    [inode |-> at[p], size |-> size[p], mtime |-> 0, generation |-> 0]]
  /\ candidate = {}
  /\ clock = 1
  /\ cache = [w \in Workers |-> <<>>]
  /\ jobs = {}

Committing(p) == \E n \in candidate : n.path = p

(* One commit at a time, of a circuit that has no task out.                *)
MayCommit(p) == candidate = {} /\ \A j \in jobs : j.path # p

(* A task goes to an idle worker with the work AAG of now as its snapshot; *)
(* none while the circuit is in a commit (_dispatch_task).                 *)
Dispatch(w, p) ==
  /\ \A j \in jobs : j.worker # w
  /\ ~Committing(p)
  /\ jobs' = jobs \cup {[worker |-> w, path |-> p, snapshot |-> file[p].generation,
                         key |-> {}, solves |-> {}]}
  /\ UNCHANGED <<file, candidate, clock, cache>>

GoesOn(j, next) == jobs' = (jobs \ {j}) \cup {next}

(* Where the worker has the file of its task, if it has.                   *)
Cached(j) ==
  {i \in DOMAIN cache[j.worker] : cache[j.worker][i].key = Key(j.path, file[j.path])}

(* A hit: the entry is now the most recently used.                         *)
Hit(j) ==
  /\ j.key = {} /\ j.solves = {}
  /\ \E i \in Cached(j) :
       /\ cache' = [cache EXCEPT ![j.worker] = Append(RemoveAt(@, i), @[i])]
       /\ GoesOn(j, [j EXCEPT !.solves = {cache[j.worker][i].generation}])
  /\ UNCHANGED <<file, candidate, clock>>

(* A miss: the key is that of the file before it is parsed.                *)
Miss(j) ==
  /\ j.key = {} /\ j.solves = {}
  /\ Cached(j) = {}
  /\ GoesOn(j, [j EXCEPT !.key = {Key(j.path, file[j.path])}])
  /\ UNCHANGED <<file, candidate, clock, cache>>

\* Mutant of Evicted: one entry too many stays.
EvictedLate(entries) ==
  SubSeq(entries, Max({1, Len(entries) - Entries}), Len(entries))

(* The least recently used entries go until the rest fit; with no entries  *)
(* allowed nothing is kept, as when the cache is off.                      *)
Evicted(entries) ==
  SubSeq(entries, Max({1, Len(entries) - Entries + 1}), Len(entries))

(* The file is parsed and the circuit stored under the key taken before.   *)
Parse(j) ==
  /\ j.solves = {}
  /\ \E key \in j.key :
       LET entry == [key |-> key, generation |-> file[j.path].generation] IN
       /\ cache' = [cache EXCEPT ![j.worker] = Evicted(Append(@, entry))]
       /\ GoesOn(j, [j EXCEPT !.solves = {entry.generation}])
  /\ UNCHANGED <<file, candidate, clock>>

(* The answers of the task are back.                                       *)
Answer(j) ==
  /\ j.solves # {}
  /\ jobs' = jobs \ {j}
  /\ UNCHANGED <<file, candidate, clock, cache>>

(* The one commit process writes the next generation beside the work AAG   *)
(* (_cec_transaction).                                                     *)
WriteCandidate(p) ==
  /\ MayCommit(p)
  /\ file[p].generation < MaxGeneration
  /\ \E i \in Inodes \ UsedInodes, s \in Sizes :
       candidate' = {[path |-> p,
                      aag |-> [inode |-> i, size |-> s, mtime |-> clock,
                               generation |-> file[p].generation + 1]]}
  /\ UNCHANGED <<file, clock, cache, jobs>>

(* The equivalence check takes longer than the clock stands still.  If it  *)
(* passes the candidate is renamed over the work AAG, otherwise removed.   *)
CheckPasses ==
  /\ \E n \in candidate : file' = [file EXCEPT ![n.path] = n.aag]
  /\ candidate' = {}
  /\ clock' = clock + 1
  /\ UNCHANGED <<cache, jobs>>

(* A candidate that fails the check is removed.                            *)
CheckFails ==
  /\ candidate # {}
  /\ candidate' = {}
  /\ UNCHANGED <<file, clock, cache, jobs>>

Next ==
  \/ \E w \in Workers, p \in Paths : Dispatch(w, p)
  \/ \E j \in jobs : Hit(j) \/ Miss(j) \/ Parse(j) \/ Answer(j)
  \/ \E p \in Paths : WriteCandidate(p)
  \/ CheckPasses
  \/ CheckFails

Spec == Init /\ [][Next]_vars

-----------------------------------------------------------------------------

Generations == 0 .. MaxGeneration

Keys == Paths \X Inodes \X Sizes \X Nat

(* The variables have their types; at most one candidate is being checked, *)
(* a worker keeps no more circuits than worker_cache_entries, and no two   *)
(* entries of it have the same key.                                        *)
TypeOK ==
  /\ file \in [Paths -> AAGs]
  /\ Cardinality(candidate) <= 1
  /\ \A n \in candidate : n.path \in Paths /\ n.aag \in AAGs
  /\ clock \in Nat
  /\ \A j \in jobs :
       /\ j.worker \in Workers /\ j.path \in Paths /\ j.snapshot \in Generations
       /\ \A key \in j.key : key \in Keys
       /\ j.solves \subseteq Generations
       /\ \A other \in jobs : other.worker = j.worker => other = j
  /\ \A w \in Workers :
       /\ Len(cache[w]) <= Entries
       /\ \A i, j \in 1 .. Len(cache[w]) : cache[w][i].key = cache[w][j].key => i = j

(* A worker solves the circuit whose content its task was given for, be it *)
(* parsed now or generations ago: the sha check of _handle_worker_result   *)
(* compares the work AAG with the task's snapshot and could not see that   *)
(* the worker solved an older one from its cache.                          *)
SolvesTheSnapshot ==
  \A j \in jobs : j.solves \subseteq {j.snapshot}
=============================================================================
