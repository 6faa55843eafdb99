---------------------------- MODULE DynamicPool ----------------------------
(***************************************************************************)
(* The dynamic cross-circuit worker pool (alg10_dynamic_tfo_pool_campaign):*)
(* one scheduler process, Jobs worker processes that classify stuck-at     *)
(* candidates, and one commit process that runs proposal barriers.         *)
(*                                                                         *)
(* The scheduler hands batches of one circuit's candidates to free workers.*)
(* A candidate that a worker finds redundant is a proposal: it stops       *)
(* dispatching for its circuit until the tasks in flight are back, then a  *)
(* barrier proves the proposals again, one on top of the other, rewrites   *)
(* the work AAG, has it checked against the source and installs it.  A     *)
(* commit renumbers the gates, so the frontier starts over.  Progress is   *)
(* kept in checkpoints from which a later campaign resumes.                *)
(*                                                                         *)
(* Circuits are data here (CircuitData): what the scheduler and the solvers*)
(* can observe of them.  The model of one barrier on concrete gates is     *)
(* SerialCommit.                                                           *)
(***************************************************************************)
EXTENDS BudgetLadder, CircuitData

CONSTANTS
  NumCircuits,          \* targets of the campaign, in list order
  Source,               \* the source AAG of each circuit
  SeedFrontier,         \* what earlier campaigns left unresolved on it
  Jobs,                 \* worker slots, shared with the barrier
  MicrobatchSize, RetryMicrobatchSize, RetryTiers,
  DeadlineMayCome,      \* FALSE: ample time, every estimate fits
  Faults,               \* the failures this instance may suffer
  MaxRuns               \* bound: campaigns started one after the other

Circuits == 1 .. NumCircuits

AllFaults ==
  {"worker_error", "worker_death", "barrier_error", "barrier_death",
   "late_barrier_death", "cec_timeout", "source_change", "crash", "torn_save"}

ASSUME SizesAssumption ==
  /\ NumCircuits \in Nat \ {0} /\ Jobs \in Nat \ {0} /\ MaxRuns \in Nat \ {0}
  /\ MicrobatchSize \in Nat \ {0} /\ RetryMicrobatchSize \in Nat \ {0}
  /\ RetryTiers \in Nat \ {0}
  /\ DeadlineMayCome \in BOOLEAN /\ Faults \subseteq AllFaults

ASSUME SourceAssumption ==
  /\ Source \in [Circuits -> Works]
  /\ SeedFrontier \in [Circuits -> SUBSET Candidate]
  /\ \A c \in Circuits :
       /\ SeedFrontier[c] \subseteq Frontier[Source[c]]
       /\ Redundant(Source[c]) \subseteq SeedFrontier[c]

VARIABLES
  (* files of each circuit *)
  work,         \* current.work.aag
  ckpt,         \* the checkpoint in this campaign's directory
  seed,         \* the checkpoint this campaign was seeded from
  (* PoolCircuitState, one entry per circuit *)
  cands, hist, inflight, props, propBudget, committing, generation,
  committed,    \* cec_pass_commits > 0 in this campaign
  complete, failed, exhausted,
  (* executors *)
  tasks,        \* classification futures with their PoolTask
  barrier,      \* the proposal future, if any
  poolBroken, commitPoolBroken,
  (* scheduler *)
  pc,           \* where run_dynamic_campaign is
  returned,     \* worker futures the last wait returned, not yet handled
  blocked,      \* deadline_blocked
  expired,      \* time.time() >= deadline
  stop,         \* why the main loop was left
  closing,      \* the circuit the final loop is at
  runs

files      == <<work, ckpt, seed>>
frontier   == <<cands, hist, inflight, props, propBudget>>
flags      == <<complete, failed, exhausted>>
commits    == <<committing, generation, committed>>
executors  == <<tasks, barrier, poolBroken, commitPoolBroken>>
control    == <<pc, returned, blocked, stop, closing>>
vars == <<files, frontier, flags, commits, executors, control, expired, runs>>

-----------------------------------------------------------------------------
(* Checkpoints.  sha is the AAG the JSON part speaks about; it differs     *)
(* from work, the AAG copied beside it, when a save was torn.  The JSON    *)
(* part has no frontier when cands is empty.                               *)

Resumable(ck) ==
  ck.sha = ck.work /\ ck.cands # {} /\ ck.cands \subseteq Frontier[ck.work]

(* Lexicographic (gates, unresolved), the policy the pool configures.      *)
RanksBefore(a, b) ==
  a.gates < b.gates \/ (a.gates = b.gates /\ a.open < b.open)

SaveRank(ck) ==
  [gates |-> Smaller(Gates[ck.sha], Gates[ck.work]), open |-> Cardinality(ck.cands)]

(* What _save_checkpoint leaves in the directory: a checkpoint that ranks  *)
(* strictly better than the new one is protected.                          *)
Saved(old, new) == IF RanksBefore(SaveRank(old), SaveRank(new)) THEN old ELSE new

\* Mutant of Snapshot: waiting proposals are no candidates of the saved frontier.
SnapshotWithoutProposals(w, cs, h, ps, pb, cm) ==
  [work |-> w, sha |-> w, cands |-> cs \ ps,
   hist |-> [k \in Candidate |-> IF k \in cs THEN h[k] ELSE 0],
   props |-> ps \cap cs, propBudget |-> pb, committed |-> cm]

\* Mutant of Snapshot: the conflict history is not saved.
SnapshotWithoutHistory(w, cs, h, ps, pb, cm) ==
  [work |-> w, sha |-> w, cands |-> cs, hist |-> [k \in Candidate |-> 0],
   props |-> ps \cap cs, propBudget |-> pb, committed |-> cm]

(* Only the frontier's history and proposals are serialized.               *)
Snapshot(w, cs, h, ps, pb, cm) ==
  [work |-> w, sha |-> w, cands |-> cs,
   hist |-> [k \in Candidate |-> IF k \in cs THEN h[k] ELSE 0],
   props |-> ps \cap cs,
   propBudget |-> [k \in Candidate |-> IF k \in ps \cap cs THEN pb[k] ELSE 0],
   committed |-> cm]

(* _persist_state with the values the handler has just computed.           *)
Persisted(c, w, cs, h, ps, pb, cm) ==
  [ckpt EXCEPT ![c] = Saved(@, Snapshot(w, cs, h, ps, pb, cm))]

\* Mutant of Discoverable: a checkpoint needs a frontier, commit or not.
DiscoverableByFrontier(ck) ==
  Gates[ck.work] > 0 /\ ck.sha = ck.work /\ ck.cands # {}

(* Which checkpoints a new campaign recognises, and the one it prefers.    *)
Discoverable(ck) ==
  /\ Gates[ck.work] > 0
  /\ Gates[ck.sha] = Gates[ck.work]
  /\ IF ck.cands = {} THEN ck.committed ELSE ck.sha = ck.work

SeedRank(ck) ==
  [gates |-> Gates[ck.work],
   open |-> IF ck.cands = {} THEN 2 * Gates[ck.work] ELSE Cardinality(ck.cands)]

Best(older, newer) ==
  IF Discoverable(newer) /\ ~RanksBefore(SeedRank(older), SeedRank(newer))
  THEN newer ELSE older

Untried == [k \in Candidate |-> 0]

(* _initialize_state of every target from its seed: the saved frontier     *)
(* with its history and deferred proposals when it speaks about the seed's *)
(* AAG, the full frontier otherwise.                                       *)
StartFrom(s) ==
  /\ seed' = s
  /\ work' = [c \in Circuits |-> s[c].work]
  /\ cands' = [c \in Circuits |->
                 IF Resumable(s[c]) THEN s[c].cands ELSE Frontier[s[c].work]]
  /\ hist' = [c \in Circuits |-> IF Resumable(s[c]) THEN s[c].hist ELSE Untried]
  /\ props' = [c \in Circuits |-> IF Resumable(s[c]) THEN s[c].props ELSE {}]
  /\ propBudget' = [c \in Circuits |->
                      IF Resumable(s[c]) THEN s[c].propBudget ELSE Untried]
  /\ ckpt' = [c \in Circuits |->
                Snapshot(s[c].work, cands'[c], hist'[c], props'[c], propBudget'[c], FALSE)]
  /\ inflight' = [c \in Circuits |-> {}]
  /\ committing' = [c \in Circuits |-> FALSE]
  /\ generation' = [c \in Circuits |-> 0]
  /\ committed' = [c \in Circuits |-> FALSE]
  /\ complete' = [c \in Circuits |-> FALSE]
  /\ failed' = [c \in Circuits |-> FALSE]
  /\ exhausted' = [c \in Circuits |-> FALSE]
  /\ tasks' = {} /\ barrier' = {}
  /\ poolBroken' = FALSE /\ commitPoolBroken' = FALSE
  /\ pc' = "top" /\ returned' = {} /\ blocked' = {}
  /\ expired' = FALSE /\ stop' = "none" /\ closing' = 1

Init ==
  /\ seed = [c \in Circuits |->
               Snapshot(Source[c], SeedFrontier[c], Untried, {}, Untried, FALSE)]
  /\ ckpt = seed
  /\ work = Source
  /\ cands = SeedFrontier
  /\ hist = [c \in Circuits |-> Untried]
  /\ props = [c \in Circuits |-> {}]
  /\ propBudget = [c \in Circuits |-> Untried]
  /\ inflight = [c \in Circuits |-> {}]
  /\ committing = [c \in Circuits |-> FALSE]
  /\ generation = [c \in Circuits |-> 0]
  /\ committed = [c \in Circuits |-> FALSE]
  /\ complete = [c \in Circuits |-> FALSE]
  /\ failed = [c \in Circuits |-> FALSE]
  /\ exhausted = [c \in Circuits |-> FALSE]
  /\ tasks = {} /\ barrier = {}
  /\ poolBroken = FALSE /\ commitPoolBroken = FALSE
  /\ pc = "off" /\ returned = {} /\ blocked = {}
  /\ expired = FALSE /\ stop = "none" /\ closing = 1
  /\ runs = 0

(* A campaign begins: every target is seeded from the best checkpoint the  *)
(* earlier ones left, in a new output directory.  A scheduler that raised  *)
(* is gone only when its executors have shut down.                         *)
Launch ==
  /\ pc \in {"off", "done", "crashed"}
  /\ runs < MaxRuns
  /\ \A t \in tasks : t.state # "running"
  /\ \A b \in barrier : b.state \in {"finished", "error"}
  /\ StartFrom([c \in Circuits |-> Best(seed[c], ckpt[c])])
  /\ runs' = runs + 1

-----------------------------------------------------------------------------
(* The main loop of the scheduler.                                         *)

(* _mark_terminal_states: only circuits with nothing under way.            *)
Settled(c) ==
  ~failed[c] /\ inflight[c] = {} /\ props[c] = {} /\ ~committing[c]

NoBudgetLeft(c) == \A k \in cands[c] : NextBudget(hist[c][k]) = 0

MarkTerminal(marked) ==
  /\ complete' = [c \in Circuits |->
       complete[c] \/ (c \in marked /\ Settled(c) /\ cands[c] = {})]
  /\ exhausted' = [c \in Circuits |->
       exhausted[c] \/ (c \in marked /\ Settled(c) /\ cands[c] # {} /\ NoBudgetLeft(c))]

\* Mutant of SlotFree: the barrier takes no slot.
WorkerSlotFree == Cardinality(tasks) < Jobs

SlotFree == Cardinality(tasks) + Cardinality(barrier) < Jobs

\* Mutant of AwaitsBarrier: the barrier does not wait for tasks in flight.
AwaitsBarrierEarly(c) == props[c] # {} /\ ~committing[c] /\ ~failed[c]

AwaitsBarrier(c) ==
  props[c] # {} /\ inflight[c] = {} /\ ~committing[c] /\ ~failed[c]

NewBarrier(c, inPool) ==
  [c |-> c, generation |-> generation[c], work |-> work[c], todo |-> props[c],
   accepted |-> {}, rejected |-> {}, timedOut |-> {}, committed |-> FALSE,
   state |-> "recheck", inPool |-> inPool]

(* The barrier goes to the first waiting circuit whose estimate fits.      *)
(* Submitting to an executor whose process died raises.                    *)
AdmitBarrier ==
  \E c \in Circuits :
    /\ AwaitsBarrier(c)
    /\ DeadlineMayCome \/ \A d \in Circuits : d < c => ~AwaitsBarrier(d)
    /\ committing' = [committing EXCEPT ![c] = TRUE]
    /\ IF commitPoolBroken
       THEN pc' = "crashed" /\ UNCHANGED barrier
       ELSE pc' = "dispatch" /\ barrier' = {NewBarrier(c, TRUE)}

SkipBarrier ==
  /\ \/ barrier # {} \/ ~SlotFree
     \/ DeadlineMayCome
     \/ \A c \in Circuits : ~AwaitsBarrier(c)
  /\ pc' = "dispatch"
  /\ UNCHANGED <<committing, barrier>>

LoopTop ==
  /\ pc = "top" /\ ~expired
  /\ MarkTerminal(Circuits)
  /\ blocked' = {}
  /\ \/ barrier = {} /\ SlotFree /\ AdmitBarrier
     \/ SkipBarrier
  /\ UNCHANGED <<files, frontier, failed, generation, committed, tasks,
                 poolBroken, commitPoolBroken, returned, stop, closing, expired, runs>>

(* The loop condition turned false, or the pinned sources were edited.     *)
LeaveLoop ==
  /\ pc = "top"
  /\ \/ expired /\ stop' = "DRAINING_AT_DEADLINE"
     \/ ~expired /\ "source_change" \in Faults /\ stop' = "SOURCE_CHANGED_CHECKPOINT"
  /\ pc' = "drain"
  /\ UNCHANGED <<files, frontier, flags, commits, executors, returned, blocked,
                 closing, expired, runs>>

\* Mutant of Available: candidates in flight can be handed out again.
AvailableAgain(c) == cands[c]

(* select_candidate_batch.                                                 *)
Available(c) == cands[c] \ inflight[c]

LeastTried(c) == Least({hist[c][k] : k \in Available(c)})

BatchBudget(c) == NextBudget(LeastTried(c))

\* Mutant of Dispatchable: proposals and commits do not hold a circuit back.
DispatchableAlways(c) ==
  ~complete[c] /\ ~failed[c] /\ Available(c) # {} /\ BatchBudget(c) > 0

\* Mutant of Dispatchable: a circuit without a next budget is served.
DispatchableExhausted(c) ==
  /\ ~complete[c] /\ ~failed[c] /\ props[c] = {} /\ ~committing[c]
  /\ Available(c) # {}

Dispatchable(c) ==
  /\ ~complete[c] /\ ~failed[c] /\ props[c] = {} /\ ~committing[c]
  /\ Available(c) # {}
  /\ BatchBudget(c) > 0

SameTier(c) == {k \in Available(c) : NextBudget(hist[c][k]) = BatchBudget(c)}

BatchLimit(c) ==
  IF LeastTried(c) > 0 THEN RetryMicrobatchSize
  ELSE IF Cardinality(Available(c)) <= Jobs THEN 1 ELSE MicrobatchSize

(* Least tried first; frontier order among equals is left open.            *)
LeadingPart(c, part, whole) ==
  part \subseteq whole /\ \A k \in part : \A l \in whole \ part : hist[c][k] <= hist[c][l]

Batches(c) ==
  {B \in SUBSET SameTier(c) :
     /\ Cardinality(B) = Smaller(BatchLimit(c), Cardinality(SameTier(c)))
     /\ LeadingPart(c, B, SameTier(c))}

BudgetTargets(c, batch) ==
  IF LeastTried(c) > 0 /\ RetryTiers > 1 /\ Cardinality(batch) = 1
  THEN RetryTargets(BatchBudget(c), RetryTiers) ELSE {BatchBudget(c)}

(* select_ready_circuit: fewest tasks in flight, then untried work before  *)
(* retries; least recently served among equals is left open.               *)
ServedBefore(c, d) ==
  LET m == Cardinality(inflight[c])  n == Cardinality(inflight[d])
  IN  m < n \/ (m = n /\ LeastTried(c) = 0 /\ LeastTried(d) > 0)

Ready == {c \in Circuits \ blocked : Dispatchable(c)}

Selected(c) == c \in Ready /\ \A d \in Ready : ~ServedBefore(d, c)

NewTask(c, batch, fitted) ==
  [c |-> c, generation |-> generation[c], work |-> work[c],
   budget |-> BatchBudget(c), targets |-> BudgetTargets(c, batch),
   cands |-> fitted, state |-> "running", sat |-> {}, unsat |-> {}, at |-> 0]

(* One round of the dispatch loop: _fit_batch_to_deadline may cut the      *)
(* batch, and an empty one keeps its circuit out of this round.            *)
Dispatch(c) ==
  /\ pc = "dispatch" /\ SlotFree /\ ~expired
  /\ Selected(c)
  /\ \E batch \in Batches(c) : \E fitted \in SUBSET batch :
       /\ IF DeadlineMayCome THEN LeadingPart(c, fitted, batch) ELSE fitted = batch
       /\ IF fitted = {}
          THEN blocked' = blocked \cup {c} /\ UNCHANGED <<inflight, tasks, pc>>
          ELSE /\ blocked' = blocked
               /\ inflight' = [inflight EXCEPT ![c] = @ \cup fitted]
               /\ IF poolBroken
                  THEN pc' = "crashed" /\ UNCHANGED tasks
                  ELSE tasks' = tasks \cup {NewTask(c, batch, fitted)} /\ pc' = pc
  /\ UNCHANGED <<files, cands, hist, props, propBudget, flags, commits, barrier,
                 poolBroken, commitPoolBroken, returned, stop, closing, expired, runs>>

(* Nothing more to hand out.  With futures outstanding the scheduler waits;*)
(* without, it stops when every circuit is terminal and idles otherwise.   *)
DispatchDone ==
  /\ pc = "dispatch"
  /\ ~SlotFree \/ expired \/ Ready = {}
  /\ IF tasks # {} \/ barrier # {}
     THEN pc' = "wait" /\ UNCHANGED <<complete, exhausted, stop>>
     ELSE /\ MarkTerminal(Circuits)
          /\ IF \A c \in Circuits : complete'[c] \/ failed[c] \/ exhausted'[c]
             THEN pc' = "drain" /\ stop' = "NO_RUNNABLE_WORK"
             ELSE pc' = "top" /\ UNCHANGED stop
  /\ UNCHANGED <<files, frontier, failed, commits, executors, returned, blocked,
                 closing, expired, runs>>

-----------------------------------------------------------------------------
(* Worker processes.                                                       *)

Running == pc \notin {"off", "done"}

(* _solve_items reads the work AAG when it starts, not when the task was   *)
(* submitted.  A query that finishes is exact; any query may time out, and *)
(* then it has climbed all of its targets.                                 *)
Solve(t) ==
  /\ Running /\ t.state = "running"
  /\ \E unsat \in SUBSET (t.cands \cap Redundant(work[t.c])) :
     \E sat \in SUBSET (t.cands \ Redundant(work[t.c])) :
     \E at \in t.targets :
       tasks' = (tasks \ {t}) \cup
                  {[t EXCEPT !.state = "solved", !.sat = sat, !.unsat = unsat,
                             !.at = IF unsat = {} THEN 0 ELSE at]}
  /\ UNCHANGED <<files, frontier, flags, commits, barrier, poolBroken,
                 commitPoolBroken, control, expired, runs>>

(* An exception inside _solve_items fails only its own future.             *)
WorkerError(t) ==
  /\ "worker_error" \in Faults
  /\ Running /\ t.state = "running"
  /\ tasks' = (tasks \ {t}) \cup {[t EXCEPT !.state = "error"]}
  /\ UNCHANGED <<files, frontier, flags, commits, barrier, poolBroken,
                 commitPoolBroken, control, expired, runs>>

(* The death of a worker process breaks the executor: every unfinished     *)
(* future raises, and so does every later submit.                          *)
WorkerDeath ==
  /\ "worker_death" \in Faults
  /\ Running /\ ~poolBroken
  /\ \E t \in tasks : t.state = "running"
  /\ poolBroken' = TRUE
  /\ tasks' = {IF t.state = "running" THEN [t EXCEPT !.state = "error"] ELSE t : t \in tasks}
  /\ UNCHANGED <<files, frontier, flags, commits, barrier, commitPoolBroken,
                 control, expired, runs>>

-----------------------------------------------------------------------------
(* The commit process: _run_proposal_barrier.                              *)

Rechecked(b, k) == [b EXCEPT !.todo = @ \ {k}]

(* One proposal, proved on the gates that carry the accepted ones.  A      *)
(* stale AAG or an index outside the present gate list raises.             *)
Recheck(b, k) ==
  /\ Running /\ b.state = "recheck" /\ k \in b.todo
  /\ \/ /\ work[b.c] # b.work \/ k \notin Frontier[work[b.c]]
        /\ barrier' = {[b EXCEPT !.state = "error"]}
     \/ /\ work[b.c] = b.work /\ k \in Frontier[work[b.c]]
        /\ \E a \in b.accepted : a[1] = k[1]
        /\ barrier' = {Rechecked(b, k)}
     \/ /\ work[b.c] = b.work /\ k \in Frontier[work[b.c]]
        /\ \A a \in b.accepted : a[1] # k[1]
        /\ \/ barrier' = {[Rechecked(b, k) EXCEPT !.timedOut = @ \cup {k}]}
           \/ IF b.accepted \cup {k} \in Safe[work[b.c]]
              THEN barrier' = {[Rechecked(b, k) EXCEPT !.accepted = @ \cup {k}]}
              ELSE barrier' = {[Rechecked(b, k) EXCEPT !.rejected = @ \cup {k}]}
  /\ UNCHANGED <<files, frontier, flags, commits, tasks, poolBroken,
                 commitPoolBroken, control, expired, runs>>

Rewrite(b) == Restructured[b.work][b.accepted]

(* _cec_transaction: PASS installs the rewritten AAG by os.replace.  The   *)
(* checker may also fail to answer.                                        *)
CheckAndInstall(b) ==
  /\ Running /\ b.state = "recheck" /\ b.todo = {}
  /\ \/ /\ b.accepted = {}
        /\ barrier' = {[b EXCEPT !.state = "finished"]}
        /\ UNCHANGED work
     \/ /\ b.accepted # {}
        /\ Meaning[Rewrite(b)] = Meaning[Source[b.c]]
        /\ work' = [work EXCEPT ![b.c] = Rewrite(b)]
        /\ barrier' = {[b EXCEPT !.state = "installed"]}
     \/ /\ b.accepted # {}
        /\ Meaning[Rewrite(b)] # Meaning[Source[b.c]] \/ "cec_timeout" \in Faults
        /\ barrier' = {[b EXCEPT !.state = "finished"]}
        /\ UNCHANGED work
  /\ UNCHANGED <<ckpt, seed, frontier, flags, commits, tasks, poolBroken,
                 commitPoolBroken, control, expired, runs>>

(* After the install the commit process still parses the new AAG before    *)
(* its result reaches the scheduler.                                       *)
Report(b) ==
  /\ Running /\ b.state = "installed"
  /\ barrier' = {[b EXCEPT !.state = "finished", !.committed = TRUE]}
  /\ UNCHANGED <<files, frontier, flags, commits, tasks, poolBroken,
                 commitPoolBroken, control, expired, runs>>

(* The barrier raises, or its process dies, before or after the install.   *)
BarrierFails(b) ==
  /\ Running /\ b.inPool
  /\ \/ b.state = "recheck" /\ "barrier_error" \in Faults /\ UNCHANGED commitPoolBroken
     \/ /\ \/ b.state = "recheck" /\ "barrier_death" \in Faults
           \/ b.state = "installed" /\ "late_barrier_death" \in Faults
        /\ commitPoolBroken' = TRUE
  /\ barrier' = {[b EXCEPT !.state = "error"]}
  /\ UNCHANGED <<files, frontier, flags, commits, tasks, poolBroken,
                 control, expired, runs>>

-----------------------------------------------------------------------------
(* Back in the scheduler: wait() and the handling of what it returned.     *)

DoneTasks == {t \in tasks : t.state # "running"}

DoneBarrier == {b \in barrier : b.state \in {"finished", "error"}}

Draining == stop # "none"

(* wait returns everything that is done; in the main loop it gives up      *)
(* after a second, while draining it does not.                             *)
Wait ==
  /\ pc = "wait" \/ (pc = "drain" /\ (tasks # {} \/ barrier # {}))
  /\ DoneTasks # {} \/ DoneBarrier # {} \/ ~Draining
  /\ returned' = DoneTasks
  /\ pc' = IF DoneBarrier # {} THEN "handle_barrier"
           ELSE IF DoneTasks # {} THEN "handle" ELSE "top"
  /\ UNCHANGED <<files, frontier, flags, commits, executors, blocked, stop,
                 closing, expired, runs>>

AfterHandling(left) ==
  IF left # {} THEN "handle" ELSE IF Draining THEN "drain" ELSE "top"

(* A future that raised fails its circuit; the circuit keeps its proposals.*)
HandleWorkerError(t) ==
  /\ pc = "handle" /\ t \in returned /\ t.state = "error"
  /\ tasks' = tasks \ {t} /\ returned' = returned \ {t}
  /\ inflight' = [inflight EXCEPT ![t.c] = @ \ t.cands]
  /\ failed' = [failed EXCEPT ![t.c] = TRUE]
  /\ pc' = AfterHandling(returned')
  /\ UNCHANGED <<files, cands, hist, props, propBudget, complete, exhausted, commits,
                 barrier, poolBroken, commitPoolBroken, blocked, stop, closing,
                 expired, runs>>

Stale(t) == generation[t.c] # t.generation \/ work[t.c] # t.work

(* SAT leaves the frontier, a timeout raises the history, UNSAT becomes a  *)
(* proposal; a stale result only leaves the inflight set.  In the main     *)
(* loop the state is saved when the checkpoint interval has passed and the *)
(* circuit is quiet.                                                       *)
HandleResult(t) ==
  /\ pc = "handle" /\ t \in returned /\ t.state = "solved"
  /\ tasks' = tasks \ {t} /\ returned' = returned \ {t}
  /\ inflight' = [inflight EXCEPT ![t.c] = @ \ t.cands]
  /\ IF Stale(t) THEN UNCHANGED <<cands, hist, props, propBudget>>
     ELSE /\ cands' = [cands EXCEPT ![t.c] = @ \ t.sat]
          /\ hist' = [hist EXCEPT ![t.c] =
               [k \in Candidate |->
                  IF k \in t.cands \ (t.sat \cup t.unsat)
                  THEN Larger(@[k], Greatest(t.targets)) ELSE @[k]]]
          /\ props' = [props EXCEPT ![t.c] = @ \cup t.unsat]
          /\ propBudget' = [propBudget EXCEPT ![t.c] =
               [k \in Candidate |-> IF k \in t.unsat THEN t.at ELSE @[k]]]
  /\ \/ /\ ~Draining /\ inflight'[t.c] = {} /\ props'[t.c] = {}
        /\ ckpt' = Persisted(t.c, work[t.c], cands'[t.c], hist'[t.c], {},
                             Untried, committed[t.c])
     \/ UNCHANGED ckpt
  /\ pc' = AfterHandling(returned')
  /\ UNCHANGED <<work, seed, flags, commits, barrier, poolBroken, commitPoolBroken,
                 blocked, stop, closing, expired, runs>>

(* A barrier that raised fails its circuit, which keeps its proposals.     *)
BarrierError(b) ==
  /\ b.state = "error"
  /\ committing' = [committing EXCEPT ![b.c] = FALSE]
  /\ failed' = [failed EXCEPT ![b.c] = TRUE]
  /\ UNCHANGED <<ckpt, cands, hist, props, propBudget, generation, committed>>

(* The proposals of another generation are dropped.                        *)
StaleBarrier(b) ==
  /\ b.state = "finished" /\ b.generation # generation[b.c]
  /\ props' = [props EXCEPT ![b.c] = {}]
  /\ propBudget' = [propBudget EXCEPT ![b.c] = Untried]
  /\ committing' = [committing EXCEPT ![b.c] = FALSE]
  /\ UNCHANGED <<ckpt, cands, hist, failed, generation, committed>>

\* Mutant of BarrierFrontier: proposals that timed out leave the frontier too.
BarrierFrontierDropsTimeouts(b) ==
  IF b.committed THEN Frontier[work[b.c]]
  ELSE IF b.accepted # {} THEN cands[b.c] ELSE cands[b.c] \ (b.rejected \cup b.timedOut)

(* _apply_proposal_barrier: a commit starts the frontier over, a refused   *)
(* one fails the circuit, and without an accepted proposal the candidates  *)
(* that turned out SAT leave while those that timed out are remembered.    *)
BarrierFrontier(b) ==
  IF b.committed THEN Frontier[work[b.c]]
  ELSE IF b.accepted # {} THEN cands[b.c] ELSE cands[b.c] \ b.rejected

\* Mutant of BarrierHistory: a recheck that timed out is not remembered.
BarrierHistoryForgets(b) == IF b.committed THEN Untried ELSE hist[b.c]

BarrierHistory(b) ==
  IF b.committed THEN Untried
  ELSE [k \in Candidate |->
          IF b.accepted = {} /\ k \in b.timedOut
          THEN Larger(hist[b.c][k], propBudget[b.c][k]) ELSE hist[b.c][k]]

ApplyBarrier(b) ==
  /\ b.state = "finished" /\ b.generation = generation[b.c]
  /\ cands' = [cands EXCEPT ![b.c] = BarrierFrontier(b)]
  /\ hist' = [hist EXCEPT ![b.c] = BarrierHistory(b)]
  /\ props' = [props EXCEPT ![b.c] = {}]
  /\ propBudget' = [propBudget EXCEPT ![b.c] = Untried]
  /\ committing' = [committing EXCEPT ![b.c] = FALSE]
  /\ generation' = [generation EXCEPT ![b.c] = IF b.committed THEN @ + 1 ELSE @]
  /\ committed' = [committed EXCEPT ![b.c] = @ \/ b.committed]
  /\ failed' = [failed EXCEPT ![b.c] = @ \/ (b.accepted # {} /\ ~b.committed)]
  /\ ckpt' = Persisted(b.c, work[b.c], cands'[b.c], hist'[b.c], {}, Untried,
                       committed'[b.c])

(* wait returns barriers and tasks together; barriers are handled first.   *)
HandleBarrier ==
  /\ pc = "handle_barrier"
  /\ \E b \in DoneBarrier : BarrierError(b) \/ StaleBarrier(b) \/ ApplyBarrier(b)
  /\ barrier' = {}
  /\ pc' = AfterHandling(returned)
  /\ UNCHANGED <<work, seed, inflight, complete, exhausted, tasks, poolBroken,
                 commitPoolBroken, returned, blocked, stop, closing, expired, runs>>

-----------------------------------------------------------------------------
(* The end of a campaign: the final loop visits the circuits in order.     *)

\* Mutant of Drained: the drain waits for proposals that no barrier takes.
DrainedOfProposals ==
  /\ pc = "drain" /\ tasks = {} /\ barrier = {}
  /\ \A c \in Circuits : props[c] = {}
  /\ pc' = IF stop = "NO_RUNNABLE_WORK" /\ ~expired THEN "finalize" ELSE "final"
  /\ UNCHANGED <<files, frontier, flags, commits, executors, returned, blocked,
                 stop, closing, expired, runs>>

(* All futures are back.  finalize_proposals is decided here, once.        *)
Drained ==
  /\ pc = "drain" /\ tasks = {} /\ barrier = {}
  /\ pc' = IF stop = "NO_RUNNABLE_WORK" /\ ~expired THEN "finalize" ELSE "final"
  /\ UNCHANGED <<files, frontier, flags, commits, executors, returned, blocked,
                 stop, closing, expired, runs>>

(* _finalize_proposals runs one more barrier, in the scheduler's own       *)
(* process.                                                                *)
ToFinalize(c) == props[c] # {} /\ inflight[c] = {} /\ ~committing[c]

FinalizeStart ==
  /\ pc = "finalize" /\ ToFinalize(closing)
  /\ barrier' = {NewBarrier(closing, FALSE)}
  /\ committing' = [committing EXCEPT ![closing] = TRUE]
  /\ pc' = "final_barrier"
  /\ UNCHANGED <<files, frontier, flags, generation, committed, tasks, poolBroken,
                 commitPoolBroken, returned, blocked, stop, closing, expired, runs>>

(* Nothing catches an exception of that barrier.                           *)
FinalizeEnd ==
  /\ pc = "final_barrier"
  /\ \E b \in DoneBarrier :
       \/ ApplyBarrier(b) /\ pc' = "finalize"
       \/ /\ b.state = "error" /\ pc' = "crashed"
          /\ UNCHANGED <<ckpt, cands, hist, props, propBudget, committing,
                         generation, committed, failed>>
  /\ barrier' = {}
  /\ UNCHANGED <<work, seed, inflight, complete, exhausted, tasks, poolBroken,
                 commitPoolBroken, returned, blocked, stop, closing, expired, runs>>

(* The last save of a circuit and its final equivalence check.             *)
Close(c) ==
  /\ pc \in {"finalize", "final"} /\ c = closing
  /\ pc = "final" \/ ~ToFinalize(c)
  /\ MarkTerminal({c})
  /\ ckpt' = Persisted(c, work[c], cands[c], hist[c], props[c], propBudget[c],
                       committed[c])
  /\ \/ Meaning[work[c]] = Meaning[Source[c]] /\ UNCHANGED failed
     \/ /\ Meaning[work[c]] # Meaning[Source[c]] \/ "cec_timeout" \in Faults
        /\ failed' = [failed EXCEPT ![c] = TRUE]
  /\ IF c = NumCircuits THEN pc' = "done" /\ UNCHANGED closing
     ELSE pc' = pc /\ closing' = c + 1
  /\ UNCHANGED <<work, seed, frontier, commits, executors, returned, blocked, stop,
                 expired, runs>>

(* The status the campaign reports.                                        *)
Outcome ==
  IF \A c \in Circuits : complete[c] THEN "ALL_TARGETS_COMPLETE"
  ELSE IF \E c \in Circuits : failed[c] THEN "FINISHED_WITH_FAILURES"
  ELSE IF stop = "DRAINING_AT_DEADLINE" THEN "TIME_BUDGET_COMPLETE" ELSE stop

-----------------------------------------------------------------------------
(* The clock and the end of the scheduler process.                         *)

Expire ==
  /\ DeadlineMayCome /\ Running /\ pc # "crashed" /\ ~expired
  /\ expired' = TRUE
  /\ UNCHANGED <<files, frontier, flags, commits, executors, control, runs>>

Killed ==
  /\ pc' = "crashed" /\ tasks' = {} /\ barrier' = {} /\ returned' = {}
  /\ UNCHANGED <<work, seed, frontier, flags, commits, poolBroken,
                 commitPoolBroken, blocked, stop, closing, expired, runs>>

Crash ==
  /\ "crash" \in Faults
  /\ Running /\ pc # "crashed"
  /\ Killed /\ UNCHANGED ckpt

(* _save_checkpoint copies the work AAG before it writes the JSON part; a  *)
(* save in between matters when a commit has just changed the work AAG.    *)
CrashInSave ==
  /\ "torn_save" \in Faults
  /\ pc \in {"handle_barrier", "final_barrier"}
  /\ \E b \in DoneBarrier :
       /\ b.committed
       /\ ckpt' = [ckpt EXCEPT ![b.c].work = work[b.c]]
  /\ Killed

-----------------------------------------------------------------------------
Loop ==
  \/ LoopTop \/ LeaveLoop
  \/ (\E c \in Circuits : Dispatch(c)) \/ DispatchDone
  \/ Wait \/ HandleBarrier
  \/ \E t \in returned : HandleWorkerError(t) \/ HandleResult(t)
  \/ Drained \/ FinalizeStart \/ FinalizeEnd
  \/ \E c \in Circuits : Close(c)

Answer == \E t \in tasks : Solve(t)

CommitProcess ==
  \E b \in barrier :
    \/ \E k \in b.todo : Recheck(b, k)
    \/ CheckAndInstall(b) \/ Report(b)

Misfortune ==
  \/ (\E t \in tasks : WorkerError(t)) \/ WorkerDeath
  \/ \E b \in barrier : BarrierFails(b)
  \/ Crash \/ CrashInSave

Next == Launch \/ Loop \/ Answer \/ CommitProcess \/ Expire \/ Misfortune

(* The scheduler is a loop that always takes its next step, a solver call  *)
(* ends because its conflict budget does, ABC runs under a timeout, and    *)
(* the clock goes on.                                                      *)
Fairness ==
  WF_vars(Loop) /\ WF_vars(Answer) /\ WF_vars(CommitProcess) /\ WF_vars(Expire)

Spec == Init /\ [][Next]_vars /\ Fairness

-----------------------------------------------------------------------------
Checkpoints ==
  [work : Works, sha : Works, cands : SUBSET Candidate,
   hist : [Candidate -> Nat], props : SUBSET Candidate,
   propBudget : [Candidate -> Nat], committed : BOOLEAN]

Tasks ==
  [c : Circuits, generation : Nat, work : Works, budget : Nat \ {0},
   targets : SUBSET Nat, cands : SUBSET Candidate,
   state : {"running", "solved", "error"},
   sat : SUBSET Candidate, unsat : SUBSET Candidate, at : Nat]

Barriers ==
  [c : Circuits, generation : Nat, work : Works, todo : SUBSET Candidate,
   accepted : SUBSET Candidate, rejected : SUBSET Candidate,
   timedOut : SUBSET Candidate, committed : BOOLEAN,
   state : {"recheck", "installed", "finished", "error"}, inPool : BOOLEAN]

(* The variables have their types: frontiers, inflight sets and proposals  *)
(* are candidates of the AAG at hand, tasks and barriers carry what their  *)
(* futures may carry, on every path through run_dynamic_campaign.          *)
TypeOK ==
  /\ work \in [Circuits -> Works]
  /\ ckpt \in [Circuits -> Checkpoints] /\ seed \in [Circuits -> Checkpoints]
  /\ cands \in [Circuits -> SUBSET Candidate]
  /\ inflight \in [Circuits -> SUBSET Candidate]
  /\ props \in [Circuits -> SUBSET Candidate]
  /\ hist \in [Circuits -> [Candidate -> Nat]]
  /\ propBudget \in [Circuits -> [Candidate -> Nat]]
  /\ generation \in [Circuits -> Nat]
  /\ committing \in [Circuits -> BOOLEAN] /\ committed \in [Circuits -> BOOLEAN]
  /\ complete \in [Circuits -> BOOLEAN] /\ failed \in [Circuits -> BOOLEAN]
  /\ exhausted \in [Circuits -> BOOLEAN]
  /\ tasks \subseteq Tasks /\ returned \subseteq tasks
  /\ barrier \subseteq Barriers
  /\ poolBroken \in BOOLEAN /\ commitPoolBroken \in BOOLEAN
  /\ pc \in {"off", "top", "dispatch", "wait", "handle_barrier", "handle", "drain",
            "finalize", "final_barrier", "final", "done", "crashed"}
  /\ blocked \subseteq Circuits /\ closing \in Circuits
  /\ expired \in BOOLEAN /\ runs \in Nat
  /\ stop \in {"none", "DRAINING_AT_DEADLINE", "SOURCE_CHANGED_CHECKPOINT",
              "NO_RUNNABLE_WORK"}

(* The drain-before-commit discipline makes the stale checks redundant: no *)
(* worker result and no barrier ever speaks about another AAG than the     *)
(* scheduler's, whatever fails (_handle_worker_result,                     *)
(* _run_proposal_barrier and _apply_proposal_barrier all guard against it).*)
NeverStale ==
  /\ \A t \in tasks : ~Stale(t)
  /\ \A b \in barrier :
       /\ b.generation = generation[b.c]
       /\ b.state = "recheck" => b.work = work[b.c]

(* While a circuit is being committed none of its candidates is out at a   *)
(* worker, so no worker can read the work AAG before and after os.replace  *)
(* in one task, and the barrier holds exactly the circuit's proposals.     *)
BarrierExclusive ==
  \A b \in barrier :
    /\ committing[b.c] /\ inflight[b.c] = {}
    /\ \A t \in tasks : t.c # b.c
    /\ b.todo \cup b.accepted \cup b.rejected \cup b.timedOut \subseteq props[b.c]

(* The inflight set is the exact record of what the workers hold: no       *)
(* candidate is out twice, none stays marked after its task came back, by  *)
(* result, error or a broken pool, and none is out while it is a proposal. *)
InflightExact ==
  pc # "crashed" =>
    \A c \in Circuits :
      LET own == {t \in tasks : t.c = c}
      IN  /\ inflight[c] = UNION {t.cands : t \in own}
          /\ \A t, u \in own : t # u => t.cands \cap u.cands = {}
          /\ inflight[c] \subseteq cands[c] \ props[c]

(* No redundancy is ever dropped: whatever is still redundant in the work  *)
(* AAG is still in the frontier, except while a commit waits to be handled.*)
NothingLost ==
  \A c \in Circuits :
    \/ pc = "crashed" \/ \E b \in barrier : b.c = c /\ b.work # work[c]
    \/ Redundant(work[c]) \subseteq cands[c]

(* The same of every checkpoint a later campaign may resume from.          *)
SavedFrontierCovers ==
  \A c \in Circuits : \A ck \in {ckpt[c], seed[c]} :
    Resumable(ck) => Redundant(ck.work) \subseteq ck.cands

(* A circuit is reported complete only when nothing in it is redundant any *)
(* more (_mark_terminal_states).                                           *)
CompleteIsIrredundant ==
  \A c \in Circuits : complete[c] /\ pc \notin {"off", "crashed"} => Redundant(work[c]) = {}

(* Work AAGs and checkpoints compute the function of the source.           *)
FunctionKept ==
  \A c \in Circuits : \A w \in {work[c], ckpt[c].work, seed[c].work} :
    Meaning[w] = Meaning[Source[c]]

(* Workers and barrier together never exceed the worker budget.            *)
WithinCapacity == Cardinality(tasks) + Cardinality(barrier) <= Jobs

(* Every candidate a worker holds is tried with more conflicts than ever   *)
(* before on this AAG, campaigns before included.                          *)
HigherBudgetOnly == \A t \in tasks : \A k \in t.cands : hist[t.c][k] < t.budget

(* A campaign that ended by itself and is started again goes on where it   *)
(* stopped: same AAG, same frontier, history and waiting proposals.        *)
CleanRestart ==
  [][runs' # runs /\ pc = "done" =>
       \A c \in Circuits : cands[c] # {} =>
         /\ work'[c] = work[c] /\ cands'[c] = cands[c] /\ props'[c] = props[c]
         /\ \A k \in cands[c] : hist'[c][k] = hist[c][k]]_vars

RestartPoint(c) == Best(seed[c], ckpt[c]).work

(* The AAG a later campaign would start from never gets larger, over       *)
(* timeouts, failed barriers and crashes between the steps of the          *)
(* scheduler: discover_best_targets finds every reduction that was ever    *)
(* saved.  An AAG without gates does not count as a checkpoint.  A crash   *)
(* between the two files of one save breaks it (TornSave).                 *)
RestartPointKept ==
  [][\A c \in Circuits :
       Gates[RestartPoint(c)'] <= Gates[RestartPoint(c)] \/ Gates[ckpt'[c].work] = 0]_vars

(* A circuit stopped for audit stays as it is for the rest of the campaign.*)
FailedStays ==
  [][\A c \in Circuits : failed[c] /\ runs' = runs => work'[c] = work[c]]_vars

(* The best campaign status is not given to a circuit whose final          *)
(* equivalence check did not pass.                                         *)
CompleteMeansVerified ==
  pc = "done" /\ Outcome = "ALL_TARGETS_COMPLETE" => \A c \in Circuits : ~failed[c]

(* Every campaign ends, by itself, at the deadline or by a crash.          *)
CampaignEnds == (pc = "top") ~> (pc \in {"done", "crashed"})

(* With ample time and no failure a campaign ends by itself, and it leaves *)
(* every circuit irredundant or with all budgets tried: a waiting proposal *)
(* is never starved by other circuits' work, and no candidate forgotten.   *)
Settles ==
  (pc = "top") ~>
    (pc = "done" /\ \A c \in Circuits : complete[c] \/ exhausted[c])
=============================================================================
