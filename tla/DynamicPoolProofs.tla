-------------------------- MODULE DynamicPoolProofs --------------------------
(***************************************************************************)
(* Proofs about the dynamic pool, for every set of circuits and            *)
(* candidates, every number of workers and every pattern of failures.      *)
(***************************************************************************)
EXTENDS DynamicPool, BudgetLadderProofs, FiniteSetTheorems, TLAPS

(* Each task's budgets have a highest one, and an accepted set of          *)
(* replacements is one the AAG of the barrier can take together.           *)
TargetsBounded == \A t \in tasks : Greatest(t.targets) \in Nat

AcceptedSafe == \A b \in barrier : b.accepted = {} \/ b.accepted \in Safe[b.work]

TypeInv == TypeOK /\ TargetsBounded /\ AcceptedSafe

(* A snapshot is a checkpoint.                                             *)
LEMMA SnapshotType ==
  ASSUME NEW w \in Works, NEW cs \in SUBSET Candidate, NEW h \in [Candidate -> Nat],
         NEW ps \in SUBSET Candidate, NEW pb \in [Candidate -> Nat], NEW cm \in BOOLEAN
  PROVE  Snapshot(w, cs, h, ps, pb, cm) \in Checkpoints
BY DEF Snapshot, Checkpoints

(* Saving leaves a checkpoint for every circuit.                           *)
LEMMA PersistedType ==
  ASSUME ckpt \in [Circuits -> Checkpoints], NEW c \in Circuits,
         NEW w \in Works, NEW cs \in SUBSET Candidate, NEW h \in [Candidate -> Nat],
         NEW ps \in SUBSET Candidate, NEW pb \in [Candidate -> Nat], NEW cm \in BOOLEAN
  PROVE  Persisted(c, w, cs, h, ps, pb, cm) \in [Circuits -> Checkpoints]
BY SnapshotType DEF Persisted, Saved

(* The next state of Untried and of the sizes.                             *)
LEMMA UntriedType == Untried \in [Candidate -> Nat]
BY DEF Untried

(* Before the first campaign everything is typed.                          *)
LEMMA InitType == Init => TypeInv
<1> SUFFICES ASSUME Init PROVE TypeInv
  OBVIOUS
<1> USE DEF Init
<1>1. 1 \in Circuits
  BY SizesAssumption DEF Circuits
<1>2. \A c \in Circuits : Snapshot(Source[c], SeedFrontier[c], Untried, {}, Untried, FALSE) \in Checkpoints
  BY SnapshotType, UntriedType, SourceAssumption
<1>3. seed \in [Circuits -> Checkpoints] /\ ckpt \in [Circuits -> Checkpoints]
  BY <1>2
<1>4. TypeOK
  BY <1>1, <1>3, UntriedType, SourceAssumption DEF TypeOK
<1> QED BY <1>4 DEF TypeInv, TargetsBounded, AcceptedSafe

(* A campaign that resumes from any of the checkpoints is typed.           *)
LEMMA LaunchType == TypeInv /\ Launch => TypeInv'
<1> SUFFICES ASSUME TypeInv, Launch PROVE TypeInv'
  OBVIOUS
<1> DEFINE s == [c \in Circuits |-> Best(seed[c], ckpt[c])]
<1>1. s \in [Circuits -> Checkpoints]
  BY DEF TypeInv, TypeOK, Best
<1>2. StartFrom(s) /\ runs' = runs + 1
  BY DEF Launch
<1> HIDE DEF s
<1>3. \A c \in Circuits :
        /\ s[c].work \in Works /\ s[c].cands \in SUBSET Candidate
        /\ s[c].hist \in [Candidate -> Nat] /\ s[c].props \in SUBSET Candidate
        /\ s[c].propBudget \in [Candidate -> Nat]
  BY <1>1 DEF Checkpoints
<1>4. 1 \in Circuits
  BY SizesAssumption DEF Circuits
<1>5. /\ work' \in [Circuits -> Works]
      /\ cands' \in [Circuits -> SUBSET Candidate]
      /\ hist' \in [Circuits -> [Candidate -> Nat]]
      /\ props' \in [Circuits -> SUBSET Candidate]
      /\ propBudget' \in [Circuits -> [Candidate -> Nat]]
  BY <1>2, <1>3, UntriedType, WorksAssumption DEF StartFrom
<1>6. ckpt' \in [Circuits -> Checkpoints]
  BY <1>2, <1>3, <1>5, SnapshotType DEF StartFrom
<1>7. /\ inflight' \in [Circuits -> SUBSET Candidate]
      /\ generation' \in [Circuits -> Nat]
      /\ committing' \in [Circuits -> BOOLEAN] /\ committed' \in [Circuits -> BOOLEAN]
      /\ complete' \in [Circuits -> BOOLEAN] /\ failed' \in [Circuits -> BOOLEAN]
      /\ exhausted' \in [Circuits -> BOOLEAN]
  BY <1>2 DEF StartFrom
<1>8. /\ tasks' = {} /\ returned' = {} /\ barrier' = {} /\ blocked' = {}
      /\ poolBroken' = FALSE /\ commitPoolBroken' = FALSE /\ expired' = FALSE
      /\ pc' = "top" /\ stop' = "none" /\ closing' \in Circuits /\ runs' \in Nat
  BY <1>2, <1>4 DEF StartFrom, TypeInv, TypeOK
<1>9. seed' \in [Circuits -> Checkpoints]
  BY <1>1, <1>2 DEF StartFrom
<1>10. TypeOK'
  BY <1>5, <1>6, <1>7, <1>8, <1>9 DEF TypeOK
<1> QED BY <1>8, <1>10 DEF TypeInv, TargetsBounded, AcceptedSafe

(* A step that leaves the frontiers, checkpoints, tasks and barrier alone. *)
LEMMA ControlType ==
  ASSUME TypeInv,
         UNCHANGED <<files, frontier, generation, committed, tasks, barrier>>,
         committing' \in [Circuits -> BOOLEAN], complete' \in [Circuits -> BOOLEAN],
         failed' \in [Circuits -> BOOLEAN], exhausted' \in [Circuits -> BOOLEAN],
         poolBroken' \in BOOLEAN, commitPoolBroken' \in BOOLEAN,
         pc' \in {"top", "dispatch", "wait", "handle_barrier", "handle", "drain",
                  "finalize", "final", "done", "crashed"},
         stop' \in {"none", "DRAINING_AT_DEADLINE", "SOURCE_CHANGED_CHECKPOINT",
                    "NO_RUNNABLE_WORK"},
         returned' \subseteq tasks, blocked' \subseteq Circuits, closing' \in Circuits,
         expired' \in BOOLEAN, runs' \in Nat
  PROVE  TypeInv'
<1>1. TypeOK'
  BY DEF TypeInv, TypeOK, files, frontier
<1> QED BY <1>1 DEF TypeInv, TargetsBounded, AcceptedSafe

(* Terminal marks are flags.                                               *)
LEMMA MarkType ==
  ASSUME TypeOK, NEW marked, MarkTerminal(marked)
  PROVE  complete' \in [Circuits -> BOOLEAN] /\ exhausted' \in [Circuits -> BOOLEAN]
BY DEF MarkTerminal, Settled, NoBudgetLeft, TypeOK

(* A barrier that is put up, or that goes on, is a barrier.                *)
LEMMA NewBarrierType ==
  ASSUME TypeOK, NEW c \in Circuits, NEW inPool \in BOOLEAN
  PROVE  NewBarrier(c, inPool) \in Barriers /\ NewBarrier(c, inPool).accepted = {}
BY DEF NewBarrier, Barriers, TypeOK

(* The head of the loop: terminal marks and the admission of a barrier.    *)
LEMMA LoopTopType == TypeInv /\ LoopTop => TypeInv'
<1> SUFFICES ASSUME TypeInv, LoopTop PROVE TypeInv'
  OBVIOUS
<1> USE DEF files, frontier
<1>1. TypeOK
  BY DEF TypeInv
<1>2. complete' \in [Circuits -> BOOLEAN] /\ exhausted' \in [Circuits -> BOOLEAN]
  BY <1>1, MarkType DEF LoopTop
<1>3. CASE UNCHANGED barrier
  <2>1. committing' \in [Circuits -> BOOLEAN] /\ pc' \in {"dispatch", "crashed"}
    BY <1>1 DEF LoopTop, AdmitBarrier, SkipBarrier, TypeOK
  <2> QED BY <1>1, <1>2, <1>3, <2>1, ControlType DEF LoopTop, TypeOK
<1>4. ASSUME NEW c \in Circuits,
             committing' = [committing EXCEPT ![c] = TRUE],
             pc' = "dispatch", barrier' = {NewBarrier(c, TRUE)}
      PROVE  TypeInv'
  <2>1. barrier' \subseteq Barriers /\ AcceptedSafe'
    BY <1>1, <1>4, NewBarrierType DEF AcceptedSafe
  <2>2. committing' \in [Circuits -> BOOLEAN]
    BY <1>1, <1>4 DEF TypeOK
  <2>3. TypeOK'
    BY <1>1, <1>2, <1>4, <2>1, <2>2 DEF LoopTop, TypeOK
  <2> QED BY <2>1, <2>3 DEF LoopTop, TypeInv, TargetsBounded
<1> QED BY <1>3, <1>4 DEF LoopTop, AdmitBarrier, SkipBarrier

(* Leaving the loop moves control only.                                    *)
LEMMA LeaveLoopType == TypeInv /\ LeaveLoop => TypeInv'
<1> SUFFICES ASSUME TypeInv, LeaveLoop PROVE TypeInv'
  OBVIOUS
<1> QED BY ControlType DEF LeaveLoop, TypeInv, TypeOK, files, frontier, flags, commits, executors

(* The end of a dispatch round marks circuits and moves control.           *)
LEMMA DispatchDoneType == TypeInv /\ DispatchDone => TypeInv'
<1> SUFFICES ASSUME TypeInv, DispatchDone PROVE TypeInv'
  OBVIOUS
<1>1. TypeOK
  BY DEF TypeInv
<1>2. complete' \in [Circuits -> BOOLEAN] /\ exhausted' \in [Circuits -> BOOLEAN]
  BY <1>1, MarkType DEF DispatchDone, TypeOK
<1> QED BY <1>1, <1>2, ControlType DEF DispatchDone, TypeOK, files, frontier, commits, executors

(* What wait returns are tasks.                                            *)
LEMMA WaitType == TypeInv /\ Wait => TypeInv'
<1> SUFFICES ASSUME TypeInv, Wait PROVE TypeInv'
  OBVIOUS
<1> QED BY ControlType DEF Wait, DoneTasks, TypeInv, TypeOK, files, frontier, flags, commits, executors

(* The end of the drain moves control only.                                *)
LEMMA DrainedType == TypeInv /\ Drained => TypeInv'
<1> SUFFICES ASSUME TypeInv, Drained PROVE TypeInv'
  OBVIOUS
<1> QED BY ControlType DEF Drained, TypeInv, TypeOK, files, frontier, flags, commits, executors

(* The deadline touches nothing else.                                      *)
LEMMA ExpireType == TypeInv /\ Expire => TypeInv'
<1> SUFFICES ASSUME TypeInv, Expire PROVE TypeInv'
  OBVIOUS
<1>1. TypeOK'
  BY DEF Expire, TypeInv, TypeOK, files, frontier, flags, commits, executors, control
<1> QED BY <1>1 DEF Expire, TypeInv, TargetsBounded, AcceptedSafe, executors

(* What a dispatchable circuit hands out has a positive budget, and every  *)
(* candidate of the batch was tried with less.                             *)
LEMMA BatchFacts ==
  ASSUME TypeOK, NEW c \in Circuits, Dispatchable(c)
  PROVE  /\ LeastTried(c) \in Nat
         /\ BatchBudget(c) \in Nat \ {0}
         /\ \A B \in Batches(c) : B \in SUBSET Available(c)
         /\ \A k \in SameTier(c) : hist[c][k] < BatchBudget(c)
<1>1. /\ Available(c) \in SUBSET Candidate /\ Available(c) # {}
      /\ \A k \in Candidate : hist[c][k] \in Nat
  BY DEF Dispatchable, Available, TypeOK
<1>2. LeastTried(c) \in Nat
  <2> DEFINE tried == {hist[c][k] : k \in Available(c)}
  <2>1. tried \in SUBSET Nat /\ tried # {}
    BY <1>1
  <2> HIDE DEF tried
  <2>2. Least(tried) \in Nat
    BY <2>1, LeastOfNaturals
  <2> QED BY <2>2 DEF LeastTried, tried
<1>3. BatchBudget(c) \in Nat \ {0}
  BY <1>2, NextBudgetAscends DEF BatchBudget, Dispatchable
<1>4. \A k \in SameTier(c) : hist[c][k] < BatchBudget(c)
  <2> SUFFICES ASSUME NEW k \in SameTier(c) PROVE hist[c][k] < BatchBudget(c)
    OBVIOUS
  <2>1. hist[c][k] \in Nat /\ NextBudget(hist[c][k]) = BatchBudget(c)
    BY <1>1 DEF SameTier
  <2> QED BY <1>3, <2>1, NextBudgetAscends
<1>5. \A B \in Batches(c) : B \in SUBSET Available(c)
  BY DEF Batches, SameTier
<1> QED BY <1>2, <1>3, <1>4, <1>5

(* The targets of a task are naturals with a greatest one.                 *)
LEMMA BudgetTargetsType ==
  ASSUME TypeOK, NEW c \in Circuits, Dispatchable(c), NEW batch
  PROVE  BudgetTargets(c, batch) \in SUBSET Nat /\ Greatest(BudgetTargets(c, batch)) \in Nat
<1>1. BatchBudget(c) \in Nat
  BY BatchFacts
<1>2. RetryTiers \in Nat \ {0}
  BY SizesAssumption
<1>3. /\ RetryTargets(BatchBudget(c), RetryTiers) \in SUBSET Nat
      /\ Greatest(RetryTargets(BatchBudget(c), RetryTiers)) \in Nat
  BY <1>1, <1>2, RetryTargetsAscend
<1>4. Greatest({BatchBudget(c)}) \in Nat
  BY <1>1, GreatestOfBounded
<1> QED BY <1>1, <1>3, <1>4 DEF BudgetTargets

(* What the dispatch loop submits is a task.                               *)
LEMMA NewTaskType ==
  ASSUME TypeOK, NEW c \in Circuits, Dispatchable(c), NEW batch, NEW fitted \in SUBSET Candidate
  PROVE  NewTask(c, batch, fitted) \in Tasks /\ Greatest(NewTask(c, batch, fitted).targets) \in Nat
<1>1. BatchBudget(c) \in Nat \ {0}
  BY BatchFacts
<1>2. BudgetTargets(c, batch) \in SUBSET Nat /\ Greatest(BudgetTargets(c, batch)) \in Nat
  BY BudgetTargetsType
<1>3. generation[c] \in Nat /\ work[c] \in Works
  BY DEF TypeOK
<1> QED BY <1>1, <1>2, <1>3 DEF NewTask, Tasks

(* A dispatch round keeps the types.                                       *)
LEMMA DispatchType ==
  ASSUME TypeInv, NEW c \in Circuits, Dispatch(c)
  PROVE  TypeInv'
<1> USE DEF files, flags, commits
<1>1. TypeOK
  BY DEF TypeInv
<1>2. Dispatchable(c)
  BY DEF Dispatch, Selected, Ready
<1> DEFINE HandsOut(batch, fitted) ==
      IF fitted = {}
      THEN blocked' = blocked \cup {c} /\ UNCHANGED <<inflight, tasks, pc>>
      ELSE /\ blocked' = blocked
           /\ inflight' = [inflight EXCEPT ![c] = inflight[c] \cup fitted]
           /\ IF poolBroken
              THEN pc' = "crashed" /\ UNCHANGED tasks
              ELSE tasks' = tasks \cup {NewTask(c, batch, fitted)} /\ pc' = pc
<1>3. PICK batch \in Batches(c) : \E fitted \in SUBSET batch : HandsOut(batch, fitted)
  BY DEF Dispatch
<1>4. PICK fitted \in SUBSET batch : HandsOut(batch, fitted)
  BY <1>3
<1>5. fitted \in SUBSET Candidate
  BY <1>1, <1>2, <1>4, BatchFacts DEF Available, TypeOK
<1>6. tasks' \subseteq Tasks /\ tasks \subseteq tasks' /\ TargetsBounded'
  BY <1>1, <1>2, <1>4, <1>5, NewTaskType DEF TypeInv, TypeOK, TargetsBounded
<1>7. inflight' \in [Circuits -> SUBSET Candidate] /\ blocked' \subseteq Circuits
  <2>1. CASE fitted = {}
    BY <1>1, <1>4, <2>1 DEF TypeOK
  <2>2. CASE fitted # {}
    <3>1. inflight' = [inflight EXCEPT ![c] = inflight[c] \cup fitted] /\ blocked' = blocked
      BY <1>4, <2>2
    <3>2. inflight[c] \cup fitted \in SUBSET Candidate
      BY <1>1, <1>5 DEF TypeOK
    <3> QED BY <1>1, <3>1, <3>2 DEF TypeOK
  <2> QED BY <2>1, <2>2
<1>8. pc' \in {"dispatch", "crashed"}
  BY <1>4 DEF Dispatch
<1>9. TypeOK'
  BY <1>1, <1>6, <1>7, <1>8 DEF Dispatch, TypeOK
<1> QED BY <1>6, <1>9 DEF Dispatch, TypeInv, AcceptedSafe

(* A step of the executors alone: tasks keep their budgets.                *)
LEMMA TasksType ==
  ASSUME TypeInv,
         UNCHANGED <<files, frontier, flags, commits, barrier, control, expired, runs>>,
         poolBroken' \in BOOLEAN, commitPoolBroken' \in BOOLEAN,
         tasks' \subseteq Tasks, returned \subseteq tasks',
         \A t \in tasks' : \E u \in tasks : t.targets = u.targets
  PROVE  TypeInv'
<1>1. TypeOK'
  BY DEF TypeInv, TypeOK, files, frontier, flags, commits, control
<1>2. returned' = returned
  BY DEF control
<1> QED BY <1>1, <1>2 DEF TypeInv, TargetsBounded, AcceptedSafe

(* The answer of a worker is a task again, with the same budgets.          *)
LEMMA SolveType ==
  ASSUME TypeInv, NEW t \in tasks, Solve(t), t \notin returned
  PROVE  TypeInv'
<1>1. TypeOK
  BY DEF TypeInv
<1>2. t \in Tasks
  BY <1>1 DEF TypeOK
<1>3. PICK s \in Tasks : s.targets = t.targets /\ tasks' = (tasks \ {t}) \cup {s}
  <2>1. PICK unsat \in SUBSET t.cands, sat \in SUBSET t.cands, at \in t.targets :
          tasks' = (tasks \ {t}) \cup
                     {[t EXCEPT !.state = "solved", !.sat = sat, !.unsat = unsat,
                                !.at = IF unsat = {} THEN 0 ELSE at]}
    BY DEF Solve
  <2> DEFINE s == [t EXCEPT !.state = "solved", !.sat = sat, !.unsat = unsat,
                            !.at = IF unsat = {} THEN 0 ELSE at]
  <2>2. s \in Tasks /\ s.targets = t.targets
    BY <1>2 DEF Tasks
  <2> QED BY <2>1, <2>2
<1>4. returned \subseteq tasks'
  BY <1>1, <1>3 DEF TypeOK
<1> QED BY <1>1, <1>3, <1>4, TasksType DEF Solve, TypeOK

(* So is a task whose worker raised.                                       *)
LEMMA WorkerErrorType ==
  ASSUME TypeInv, NEW t \in tasks, WorkerError(t), t \notin returned
  PROVE  TypeInv'
<1>1. TypeOK
  BY DEF TypeInv
<1>2. t \in Tasks
  BY <1>1 DEF TypeOK
<1>3. PICK s \in Tasks : s.targets = t.targets /\ tasks' = (tasks \ {t}) \cup {s}
  <2>1. [t EXCEPT !.state = "error"] \in Tasks /\ [t EXCEPT !.state = "error"].targets = t.targets
    BY <1>2 DEF Tasks
  <2> QED BY <2>1 DEF WorkerError
<1> QED BY <1>1, <1>3, TasksType DEF WorkerError, TypeOK

(* So are the tasks of a broken pool.                                      *)
LEMMA WorkerDeathType ==
  ASSUME TypeInv, WorkerDeath, \A t \in returned : t.state # "running"
  PROVE  TypeInv'
<1>1. TypeOK
  BY DEF TypeInv
<1> DEFINE After(t) == IF t.state = "running" THEN [t EXCEPT !.state = "error"] ELSE t
<1>2. \A t \in tasks : After(t) \in Tasks /\ After(t).targets = t.targets
  <2> SUFFICES ASSUME NEW t \in tasks PROVE After(t) \in Tasks /\ After(t).targets = t.targets
    OBVIOUS
  <2>1. t \in Tasks
    BY <1>1 DEF TypeOK
  <2>2. [t EXCEPT !.state = "error"] \in Tasks /\ [t EXCEPT !.state = "error"].targets = t.targets
    BY <2>1 DEF Tasks
  <2> QED BY <2>1, <2>2
<1>3. tasks' \subseteq Tasks /\ \A t \in tasks' : \E u \in tasks : t.targets = u.targets
  BY <1>2 DEF WorkerDeath
<1>4. returned \subseteq tasks'
  <2> SUFFICES ASSUME NEW t \in returned PROVE t \in tasks'
    OBVIOUS
  <2>1. t \in tasks /\ t.state # "running"
    BY <1>1 DEF TypeOK
  <2>2. t = IF t.state = "running" THEN [t EXCEPT !.state = "error"] ELSE t
    BY <2>1
  <2> QED BY <2>1, <2>2 DEF WorkerDeath
<1> QED BY <1>1, <1>3, <1>4, TasksType DEF WorkerDeath, TypeOK

(* A step of the commit process: the barrier goes on.                      *)
LEMMA BarrierType ==
  ASSUME TypeInv,
         UNCHANGED <<ckpt, seed, frontier, flags, commits, tasks, poolBroken, control,
                     expired, runs>>,
         work' \in [Circuits -> Works], commitPoolBroken' \in BOOLEAN,
         barrier' \subseteq Barriers, AcceptedSafe'
  PROVE  TypeInv'
<1>1. TypeOK'
  BY DEF TypeInv, TypeOK, frontier, flags, commits, control
<1> QED BY <1>1 DEF TypeInv, TargetsBounded

(* One round of the serial recheck; the accepted set stays safe.           *)
LEMMA RecheckType ==
  ASSUME TypeInv, NEW b \in barrier, NEW k \in b.todo, Recheck(b, k)
  PROVE  TypeInv'
<1>1. TypeOK /\ b \in Barriers /\ k \in Candidate
  BY DEF TypeInv, TypeOK, Barriers
<1> DEFINE fails   == [b EXCEPT !.state = "error"]
           skips   == Rechecked(b, k)
           late    == [Rechecked(b, k) EXCEPT !.timedOut = b.timedOut \cup {k}]
           accepts == [Rechecked(b, k) EXCEPT !.accepted = b.accepted \cup {k}]
           rejects == [Rechecked(b, k) EXCEPT !.rejected = b.rejected \cup {k}]
<1>2. /\ fails \in Barriers /\ fails.accepted = b.accepted /\ fails.work = b.work
      /\ skips \in Barriers /\ skips.accepted = b.accepted /\ skips.work = b.work
      /\ late \in Barriers /\ late.accepted = b.accepted /\ late.work = b.work
      /\ rejects \in Barriers /\ rejects.accepted = b.accepted /\ rejects.work = b.work
      /\ accepts \in Barriers /\ accepts.accepted = b.accepted \cup {k}
      /\ accepts.work = b.work
  <2>1. /\ fails \in Barriers /\ fails.accepted = b.accepted /\ fails.work = b.work
        /\ skips \in Barriers /\ skips.accepted = b.accepted /\ skips.work = b.work
    BY <1>1 DEF Barriers, Rechecked
  <2>2. late \in Barriers /\ late.accepted = b.accepted /\ late.work = b.work
    BY <1>1 DEF Barriers, Rechecked
  <2>3. rejects \in Barriers /\ rejects.accepted = b.accepted /\ rejects.work = b.work
    BY <1>1 DEF Barriers, Rechecked
  <2>4. /\ accepts \in Barriers /\ accepts.accepted = b.accepted \cup {k}
        /\ accepts.work = b.work
    BY <1>1 DEF Barriers, Rechecked
  <2> QED BY <2>1, <2>2, <2>3, <2>4
<1>3. \/ barrier' = {fails} \/ barrier' = {skips} \/ barrier' = {late} \/ barrier' = {rejects}
      \/ barrier' = {accepts} /\ b.accepted \cup {k} \in Safe[b.work]
  BY <1>1 DEF Recheck, Rechecked, Barriers
<1> HIDE DEF fails, skips, late, accepts, rejects
<1>4. barrier' \subseteq Barriers /\ AcceptedSafe'
  BY <1>2, <1>3 DEF TypeInv, AcceptedSafe
<1> QED BY <1>1, <1>4, BarrierType DEF Recheck, TypeOK, files

(* The install leads to an AAG of the campaign.                            *)
LEMMA CheckAndInstallType ==
  ASSUME TypeInv, NEW b \in barrier, CheckAndInstall(b)
  PROVE  TypeInv'
<1>1. TypeOK /\ b \in Barriers
  BY DEF TypeInv, TypeOK
<1>2. b.accepted # {} => Rewrite(b) \in Works
  BY <1>1, RestructuredAssumption DEF TypeInv, AcceptedSafe, Rewrite, Barriers
<1>3. work' \in [Circuits -> Works]
  BY <1>1, <1>2 DEF CheckAndInstall, TypeOK, Barriers
<1>4. \E state \in {"finished", "installed"} : barrier' = {[b EXCEPT !.state = state]}
  BY DEF CheckAndInstall
<1>5. barrier' \subseteq Barriers /\ AcceptedSafe'
  BY <1>1, <1>4 DEF TypeInv, AcceptedSafe, Barriers
<1> QED BY <1>1, <1>3, <1>5, BarrierType DEF CheckAndInstall, TypeOK

(* The report of a commit keeps the types.                                 *)
LEMMA ReportType ==
  ASSUME TypeInv, NEW b \in barrier, Report(b)
  PROVE  TypeInv'
<1>1. TypeOK /\ b \in Barriers
  BY DEF TypeInv, TypeOK
<1>2. barrier' \subseteq Barriers /\ AcceptedSafe'
  BY <1>1 DEF Report, TypeInv, AcceptedSafe, Barriers
<1> QED BY <1>1, <1>2, BarrierType DEF Report, TypeOK, files

(* A barrier that raises is still a barrier.                               *)
LEMMA BarrierFailsType ==
  ASSUME TypeInv, NEW b \in barrier, BarrierFails(b)
  PROVE  TypeInv'
<1>1. TypeOK /\ b \in Barriers
  BY DEF TypeInv, TypeOK
<1>2. barrier' \subseteq Barriers /\ AcceptedSafe'
  BY <1>1 DEF BarrierFails, TypeInv, AcceptedSafe, Barriers
<1> QED BY <1>1, <1>2, BarrierType DEF BarrierFails, TypeOK, files

(* Where the scheduler goes after it handled a future.                     *)
LEMMA AfterHandlingType ==
  ASSUME NEW left
  PROVE  AfterHandling(left) \in {"handle", "drain", "top"}
BY DEF AfterHandling

(* The handling of a failed task keeps the types.                          *)
LEMMA HandleWorkerErrorType ==
  ASSUME TypeInv, NEW t \in tasks, HandleWorkerError(t)
  PROVE  TypeInv'
<1>1. TypeOK /\ t \in Tasks
  BY DEF TypeInv, TypeOK
<1>2. /\ inflight' \in [Circuits -> SUBSET Candidate]
      /\ failed' \in [Circuits -> BOOLEAN]
  BY <1>1 DEF HandleWorkerError, TypeOK
<1>3. tasks' \subseteq tasks /\ returned' \subseteq tasks'
  BY <1>1 DEF HandleWorkerError, TypeOK
<1>4. pc' \in {"handle", "drain", "top"}
  BY AfterHandlingType DEF HandleWorkerError
<1>5. TypeOK'
  BY <1>1, <1>2, <1>3, <1>4 DEF HandleWorkerError, TypeOK, files, commits
<1> QED BY <1>3, <1>5 DEF HandleWorkerError, TypeInv, TargetsBounded, AcceptedSafe

(* The frontier of a circuit after a fresh result.                         *)
LEMMA HandleResultType ==
  ASSUME TypeInv, NEW t \in tasks, HandleResult(t)
  PROVE  TypeInv'
<1>1. TypeOK /\ t \in Tasks /\ Greatest(t.targets) \in Nat
  BY DEF TypeInv, TypeOK, TargetsBounded
<1>2. /\ t.c \in Circuits /\ t.sat \in SUBSET Candidate /\ t.unsat \in SUBSET Candidate
      /\ t.cands \in SUBSET Candidate /\ t.at \in Nat
  BY <1>1 DEF Tasks
<1>3. inflight' \in [Circuits -> SUBSET Candidate]
  BY <1>1 DEF HandleResult, TypeOK
<1>4. tasks' \subseteq tasks /\ returned' \subseteq tasks'
  BY <1>1 DEF HandleResult, TypeOK
<1>5. /\ cands' \in [Circuits -> SUBSET Candidate]
      /\ props' \in [Circuits -> SUBSET Candidate]
  <2>1. CASE Stale(t)
    BY <1>1, <2>1 DEF HandleResult, TypeOK
  <2>2. CASE ~Stale(t)
    <3>1. /\ cands' = [cands EXCEPT ![t.c] = cands[t.c] \ t.sat]
          /\ props' = [props EXCEPT ![t.c] = props[t.c] \cup t.unsat]
      BY <2>2 DEF HandleResult
    <3> QED BY <1>1, <1>2, <3>1 DEF TypeOK
  <2> QED BY <2>1, <2>2
<1>6. hist' \in [Circuits -> [Candidate -> Nat]]
  <2>1. CASE Stale(t)
    BY <1>1, <2>1 DEF HandleResult, TypeOK
  <2>2. CASE ~Stale(t)
    <3> DEFINE h == [k \in Candidate |->
                       IF k \in t.cands \ (t.sat \cup t.unsat)
                       THEN Larger(hist[t.c][k], Greatest(t.targets)) ELSE hist[t.c][k]]
    <3>1. hist' = [hist EXCEPT ![t.c] = h]
      BY <1>1, <1>2, <2>2 DEF HandleResult, TypeOK
    <3>2. h \in [Candidate -> Nat]
      BY <1>1, <1>2 DEF TypeOK, Larger
    <3> QED BY <1>1, <1>2, <3>1, <3>2 DEF TypeOK
  <2> QED BY <2>1, <2>2
<1>7. propBudget' \in [Circuits -> [Candidate -> Nat]]
  <2>1. CASE Stale(t)
    BY <1>1, <2>1 DEF HandleResult, TypeOK
  <2>2. CASE ~Stale(t)
    <3> DEFINE h == [k \in Candidate |-> IF k \in t.unsat THEN t.at ELSE propBudget[t.c][k]]
    <3>1. propBudget' = [propBudget EXCEPT ![t.c] = h]
      BY <1>1, <1>2, <2>2 DEF HandleResult, TypeOK
    <3>2. h \in [Candidate -> Nat]
      BY <1>1, <1>2 DEF TypeOK
    <3> QED BY <1>1, <1>2, <3>1, <3>2 DEF TypeOK
  <2> QED BY <2>1, <2>2
<1>8. ckpt' \in [Circuits -> Checkpoints]
  <2>1. CASE UNCHANGED ckpt
    BY <1>1, <2>1 DEF TypeOK
  <2>2. CASE ckpt' = Persisted(t.c, work[t.c], cands'[t.c], hist'[t.c], {}, Untried,
                               committed[t.c])
    <3>1. /\ work[t.c] \in Works /\ committed[t.c] \in BOOLEAN
          /\ cands'[t.c] \in SUBSET Candidate /\ hist'[t.c] \in [Candidate -> Nat]
      BY <1>1, <1>2, <1>5, <1>6 DEF TypeOK
    <3> QED BY <1>1, <1>2, <2>2, <3>1, PersistedType, UntriedType DEF TypeOK
  <2> QED BY <2>1, <2>2 DEF HandleResult
<1>9. pc' \in {"handle", "drain", "top"}
  BY AfterHandlingType DEF HandleResult
<1>10. TypeOK'
  BY <1>1, <1>3, <1>4, <1>5, <1>6, <1>7, <1>8, <1>9 DEF HandleResult, TypeOK, flags, commits
<1> QED BY <1>4, <1>10 DEF HandleResult, TypeInv, TargetsBounded, AcceptedSafe

(* What applying a barrier leaves of its circuit.                          *)
LEMMA ApplyBarrierType ==
  ASSUME TypeOK, NEW b \in barrier, ApplyBarrier(b)
  PROVE  /\ cands' \in [Circuits -> SUBSET Candidate]
         /\ hist' \in [Circuits -> [Candidate -> Nat]]
         /\ props' \in [Circuits -> SUBSET Candidate]
         /\ propBudget' \in [Circuits -> [Candidate -> Nat]]
         /\ committing' \in [Circuits -> BOOLEAN] /\ generation' \in [Circuits -> Nat]
         /\ committed' \in [Circuits -> BOOLEAN] /\ failed' \in [Circuits -> BOOLEAN]
         /\ ckpt' \in [Circuits -> Checkpoints]
<1>1. b \in Barriers
  BY DEF TypeOK
<1>2. b.c \in Circuits /\ b.committed \in BOOLEAN /\ work[b.c] \in Works
  BY <1>1 DEF TypeOK, Barriers
<1>3. BarrierFrontier(b) \in SUBSET Candidate
  BY <1>2, WorksAssumption DEF BarrierFrontier, TypeOK
<1>4. BarrierHistory(b) \in [Candidate -> Nat]
  <2>1. \A k \in Candidate : hist[b.c][k] \in Nat /\ propBudget[b.c][k] \in Nat
    BY <1>2 DEF TypeOK
  <2> QED BY <2>1, UntriedType DEF BarrierHistory, Larger
<1>5. cands' \in [Circuits -> SUBSET Candidate] /\ hist' \in [Circuits -> [Candidate -> Nat]]
  BY <1>3, <1>4 DEF ApplyBarrier, TypeOK
<1>6. props' \in [Circuits -> SUBSET Candidate] /\ propBudget' \in [Circuits -> [Candidate -> Nat]]
  BY UntriedType DEF ApplyBarrier, TypeOK
<1>7. /\ committing' \in [Circuits -> BOOLEAN] /\ generation' \in [Circuits -> Nat]
      /\ committed' \in [Circuits -> BOOLEAN] /\ failed' \in [Circuits -> BOOLEAN]
  BY <1>2 DEF ApplyBarrier, TypeOK
<1>8. ckpt' \in [Circuits -> Checkpoints]
  <2>1. /\ cands'[b.c] \in SUBSET Candidate /\ hist'[b.c] \in [Candidate -> Nat]
        /\ committed'[b.c] \in BOOLEAN
    BY <1>2, <1>5, <1>7
  <2> QED BY <1>2, <2>1, PersistedType, UntriedType DEF ApplyBarrier, TypeOK
<1> QED BY <1>5, <1>6, <1>7, <1>8

(* The handling of any barrier keeps the types.                            *)
LEMMA HandleBarrierType == TypeInv /\ HandleBarrier => TypeInv'
<1> SUFFICES ASSUME TypeInv, HandleBarrier PROVE TypeInv'
  OBVIOUS
<1>1. TypeOK
  BY DEF TypeInv
<1>2. PICK b \in barrier : BarrierError(b) \/ StaleBarrier(b) \/ ApplyBarrier(b)
  BY DEF HandleBarrier, DoneBarrier
<1>3. /\ cands' \in [Circuits -> SUBSET Candidate]
      /\ hist' \in [Circuits -> [Candidate -> Nat]]
      /\ props' \in [Circuits -> SUBSET Candidate]
      /\ propBudget' \in [Circuits -> [Candidate -> Nat]]
      /\ committing' \in [Circuits -> BOOLEAN] /\ generation' \in [Circuits -> Nat]
      /\ committed' \in [Circuits -> BOOLEAN] /\ failed' \in [Circuits -> BOOLEAN]
      /\ ckpt' \in [Circuits -> Checkpoints]
  <2>1. CASE BarrierError(b)
    BY <1>1, <2>1 DEF BarrierError, TypeOK
  <2>2. CASE StaleBarrier(b)
    BY <1>1, <2>2, UntriedType DEF StaleBarrier, TypeOK
  <2>3. CASE ApplyBarrier(b)
    BY <1>1, <2>3, ApplyBarrierType
  <2> QED BY <1>2, <2>1, <2>2, <2>3
<1>4. pc' \in {"handle", "drain", "top"}
  BY AfterHandlingType DEF HandleBarrier
<1>5. TypeOK'
  BY <1>1, <1>3, <1>4 DEF HandleBarrier, TypeOK
<1> QED BY <1>5 DEF HandleBarrier, TypeInv, TargetsBounded, AcceptedSafe

(* The barrier of the final loop is a barrier.                             *)
LEMMA FinalizeStartType == TypeInv /\ FinalizeStart => TypeInv'
<1> SUFFICES ASSUME TypeInv, FinalizeStart PROVE TypeInv'
  OBVIOUS
<1>1. TypeOK
  BY DEF TypeInv
<1>2. barrier' \subseteq Barriers /\ AcceptedSafe'
  BY <1>1, NewBarrierType DEF FinalizeStart, AcceptedSafe, TypeOK
<1>3. TypeOK'
  BY <1>1, <1>2 DEF FinalizeStart, TypeOK, files, frontier, flags
<1> QED BY <1>2, <1>3 DEF FinalizeStart, TypeInv, TargetsBounded

(* Its result is applied like any other.                                   *)
LEMMA FinalizeEndType == TypeInv /\ FinalizeEnd => TypeInv'
<1> SUFFICES ASSUME TypeInv, FinalizeEnd PROVE TypeInv'
  OBVIOUS
<1>1. TypeOK
  BY DEF TypeInv
<1>2. /\ cands' \in [Circuits -> SUBSET Candidate]
      /\ hist' \in [Circuits -> [Candidate -> Nat]]
      /\ props' \in [Circuits -> SUBSET Candidate]
      /\ propBudget' \in [Circuits -> [Candidate -> Nat]]
      /\ committing' \in [Circuits -> BOOLEAN] /\ generation' \in [Circuits -> Nat]
      /\ committed' \in [Circuits -> BOOLEAN] /\ failed' \in [Circuits -> BOOLEAN]
      /\ ckpt' \in [Circuits -> Checkpoints]
      /\ pc' \in {"finalize", "crashed"}
  <2>1. CASE \E b \in barrier : ApplyBarrier(b) /\ pc' = "finalize"
    BY <1>1, <2>1, ApplyBarrierType
  <2>2. CASE /\ pc' = "crashed"
             /\ UNCHANGED <<ckpt, cands, hist, props, propBudget, committing,
                            generation, committed, failed>>
    BY <1>1, <2>2 DEF TypeOK
  <2> QED BY <2>1, <2>2 DEF FinalizeEnd, DoneBarrier
<1>3. TypeOK'
  BY <1>1, <1>2 DEF FinalizeEnd, TypeOK
<1> QED BY <1>3 DEF FinalizeEnd, TypeInv, TargetsBounded, AcceptedSafe

(* The last save of a circuit keeps the types.                             *)
LEMMA CloseType ==
  ASSUME TypeInv, NEW c \in Circuits, Close(c)
  PROVE  TypeInv'
<1>1. TypeOK
  BY DEF TypeInv
<1>2. complete' \in [Circuits -> BOOLEAN] /\ exhausted' \in [Circuits -> BOOLEAN]
  BY <1>1, MarkType DEF Close
<1>3. failed' \in [Circuits -> BOOLEAN]
  BY <1>1 DEF Close, TypeOK
<1>4. ckpt' \in [Circuits -> Checkpoints]
  BY <1>1, PersistedType DEF Close, TypeOK
<1>5. pc' \in {"finalize", "final", "done"} /\ closing' \in Circuits
  BY <1>1, SizesAssumption DEF Close, TypeOK, Circuits
<1>6. TypeOK'
  BY <1>1, <1>2, <1>3, <1>4, <1>5 DEF Close, TypeOK, frontier, commits, executors
<1> QED BY <1>6 DEF Close, TypeInv, TargetsBounded, AcceptedSafe, executors

(* A dead scheduler leaves no futures.                                     *)
LEMMA KilledType ==
  ASSUME TypeInv, Killed, ckpt' \in [Circuits -> Checkpoints]
  PROVE  TypeInv'
<1>1. TypeOK'
  BY DEF Killed, TypeInv, TypeOK, frontier, flags, commits
<1> QED BY <1>1 DEF Killed, TypeInv, TargetsBounded, AcceptedSafe

(* A crash, between saves or inside one, keeps the types.                  *)
LEMMA CrashType == TypeInv /\ (Crash \/ CrashInSave) => TypeInv'
<1> SUFFICES ASSUME TypeInv, Crash \/ CrashInSave PROVE TypeInv'
  OBVIOUS
<1>1. TypeOK
  BY DEF TypeInv
<1>2. CASE Crash
  BY <1>1, <1>2, KilledType DEF Crash, TypeOK
<1>3. CASE CrashInSave
  <2>1. PICK b \in barrier : ckpt' = [ckpt EXCEPT ![b.c].work = work[b.c]]
    BY <1>3 DEF CrashInSave, DoneBarrier
  <2>2. b.c \in Circuits /\ work[b.c] \in Works /\ ckpt[b.c] \in Checkpoints
    BY <1>1 DEF TypeOK, Barriers
  <2>3. [ckpt[b.c] EXCEPT !.work = work[b.c]] \in Checkpoints
    BY <2>2 DEF Checkpoints
  <2>4. ckpt' = [ckpt EXCEPT ![b.c] = [ckpt[b.c] EXCEPT !.work = work[b.c]]]
    BY <2>1
  <2>5. ckpt' \in [Circuits -> Checkpoints]
    BY <1>1, <2>2, <2>3, <2>4 DEF TypeOK
  <2> QED BY <1>3, <2>5, KilledType DEF CrashInSave
<1> QED BY <1>2, <1>3

-----------------------------------------------------------------------------
(* The bookkeeping that keeps a circuit's workers and its barrier apart.   *)
(* A task holds some of its circuit's candidates, no two tasks hold the    *)
(* same one, and the circuit of the barrier has nothing in flight.         *)
TasksTracked ==
  /\ \A t \in tasks : t.cands # {} /\ t.cands \subseteq inflight[t.c]
  /\ \A t, u \in tasks : t.c = u.c /\ t # u => t.cands \cap u.cands = {}
  /\ \A t \in returned : t.state # "running"

BarrierAlone ==
  /\ \A b, d \in barrier : b = d
  /\ \A b \in barrier :
       /\ committing[b.c] /\ inflight[b.c] = {}
       /\ b.todo \cup b.accepted \cup b.rejected \cup b.timedOut \subseteq props[b.c]
  /\ pc \in {"finalize", "final"} => barrier = {}

SafetyInv == TypeInv /\ TasksTracked /\ BarrierAlone /\ NeverStale

Kept == TasksTracked /\ BarrierAlone /\ NeverStale

(* No task speaks about the circuit of the barrier.                        *)
LEMMA NoTaskUnderBarrier ==
  ASSUME TasksTracked, BarrierAlone, NEW b \in barrier
  PROVE  \A t \in tasks : t.c # b.c
BY DEF TasksTracked, BarrierAlone

(* A step that moves neither tasks nor barrier nor what they refer to.     *)
LEMMA FrameKept ==
  ASSUME SafetyInv,
         UNCHANGED <<work, generation, inflight, props, tasks, barrier>>,
         \A b \in barrier : committing'[b.c],
         \A t \in returned' : t.state # "running",
         pc' \in {"finalize", "final"} => barrier = {}
  PROVE  Kept'
<1>1. TasksTracked'
  BY DEF SafetyInv, TasksTracked
<1>2. BarrierAlone'
  BY DEF SafetyInv, BarrierAlone
<1>3. NeverStale'
  BY DEF SafetyInv, NeverStale, Stale
<1> QED BY <1>1, <1>2, <1>3 DEF Kept

(* A step after which nothing is under way.                                *)
LEMMA IdleKept ==
  ASSUME tasks' = {}, returned' = {}, barrier' = {}
  PROVE  Kept'
BY DEF Kept, TasksTracked, BarrierAlone, NeverStale

(* The invariant holds before the first campaign.                          *)
LEMMA InitSafe == Init => SafetyInv
BY InitType DEF Init, SafetyInv, TasksTracked, BarrierAlone, NeverStale

(* A barrier is admitted only for a circuit with nothing in flight.        *)
LEMMA LoopTopKept == SafetyInv /\ LoopTop => Kept'
<1> SUFFICES ASSUME SafetyInv, LoopTop PROVE Kept'
  OBVIOUS
<1>1. TypeOK
  BY DEF SafetyInv, TypeInv
<1>2. /\ UNCHANGED <<work, generation, inflight, props, tasks, returned>>
      /\ pc' \in {"dispatch", "crashed"}
  BY DEF LoopTop, AdmitBarrier, SkipBarrier, files, frontier
<1>3. CASE UNCHANGED barrier
  <2>1. \A b \in barrier : committing'[b.c]
    <3>1. \A b \in barrier : committing[b.c] /\ b.c \in Circuits
      BY <1>1 DEF SafetyInv, BarrierAlone, TypeOK, Barriers
    <3> QED BY <1>1, <3>1 DEF LoopTop, AdmitBarrier, SkipBarrier, TypeOK
  <2> QED BY <1>2, <1>3, <2>1, FrameKept DEF SafetyInv, TasksTracked
<1>4. ASSUME NEW c \in Circuits, AwaitsBarrier(c),
             committing' = [committing EXCEPT ![c] = TRUE], barrier' = {NewBarrier(c, TRUE)}
      PROVE  Kept'
  <2>1. TasksTracked'
    BY <1>2 DEF SafetyInv, TasksTracked
  <2>2. BarrierAlone'
    BY <1>1, <1>2, <1>4 DEF BarrierAlone, NewBarrier, AwaitsBarrier, TypeOK
  <2>3. NeverStale'
    BY <1>2, <1>4 DEF SafetyInv, NeverStale, Stale, NewBarrier
  <2> QED BY <2>1, <2>2, <2>3 DEF Kept
<1> QED BY <1>3, <1>4 DEF LoopTop, AdmitBarrier, SkipBarrier

(* A batch is handed out only from a circuit without proposals, and from   *)
(* candidates that are not in flight, so it meets no barrier and no other  *)
(* task.                                                                   *)
LEMMA DispatchKept ==
  ASSUME SafetyInv, NEW c \in Circuits, Dispatch(c)
  PROVE  Kept'
<1>1. TypeOK
  BY DEF SafetyInv, TypeInv
<1>2. /\ UNCHANGED <<work, generation, props, committing, barrier, returned>>
      /\ pc' \in {"dispatch", "crashed"} /\ Dispatchable(c)
  BY DEF Dispatch, Selected, Ready, files, commits
<1>3. \A b \in barrier : b.c # c
  BY <1>2 DEF SafetyInv, BarrierAlone, Dispatchable
<1>4. PICK fitted \in SUBSET Available(c) :
        IF fitted = {}
        THEN UNCHANGED <<inflight, tasks>>
        ELSE /\ inflight' = [inflight EXCEPT ![c] = inflight[c] \cup fitted]
             /\ \/ UNCHANGED tasks
                \/ \E batch : tasks' = tasks \cup {NewTask(c, batch, fitted)}
  <2>1. PICK batch \in Batches(c) : \E fitted \in SUBSET batch :
          IF fitted = {}
          THEN UNCHANGED <<inflight, tasks>>
          ELSE /\ inflight' = [inflight EXCEPT ![c] = inflight[c] \cup fitted]
               /\ \/ UNCHANGED tasks
                  \/ tasks' = tasks \cup {NewTask(c, batch, fitted)}
    BY DEF Dispatch
  <2> QED BY <1>1, <1>2, <2>1, BatchFacts
<1>5. CASE fitted = {}
  BY <1>2, <1>4, <1>5, FrameKept DEF SafetyInv, BarrierAlone, TasksTracked
<1>6. CASE fitted # {}
  <2>1. inflight' = [inflight EXCEPT ![c] = inflight[c] \cup fitted]
    BY <1>4, <1>6
  <2>2. /\ inflight'[c] = inflight[c] \cup fitted /\ inflight[c] \cap fitted = {}
        /\ \A d \in Circuits : d # c => inflight'[d] = inflight[d]
    BY <1>1, <2>1 DEF Available, TypeOK
  <2>3. \A t \in tasks : t.c \in Circuits /\ t.cands \subseteq inflight'[t.c]
    BY <1>1, <2>2 DEF SafetyInv, TasksTracked, TypeOK, Tasks
  <2>4. BarrierAlone'
    <3>1. \A b \in barrier : inflight'[b.c] = inflight[b.c]
      BY <1>1, <1>3, <2>2 DEF TypeOK, Barriers
    <3> QED BY <1>2, <3>1 DEF SafetyInv, BarrierAlone
  <2>5. CASE UNCHANGED tasks
    <3>1. TasksTracked'
      BY <1>2, <2>3, <2>5 DEF SafetyInv, TasksTracked
    <3>2. NeverStale'
      BY <1>2, <2>5 DEF SafetyInv, NeverStale, Stale
    <3> QED BY <2>4, <3>1, <3>2 DEF Kept
  <2>6. ASSUME NEW batch, tasks' = tasks \cup {NewTask(c, batch, fitted)}
        PROVE  Kept'
    <3> DEFINE new == NewTask(c, batch, fitted)
    <3>1. /\ new.c = c /\ new.cands = fitted
          /\ new.generation = generation[c] /\ new.work = work[c]
      BY DEF NewTask
    <3> HIDE DEF new
    <3>2. \A t \in tasks : t.c = c => t.cands \cap fitted = {}
      BY <2>2 DEF SafetyInv, TasksTracked
    <3>3. TasksTracked'
      <4>1. \A t \in tasks' : t.cands # {} /\ t.cands \subseteq inflight'[t.c]
        BY <1>6, <2>2, <2>3, <2>6, <3>1 DEF SafetyInv, TasksTracked, new
      <4>2. \A t, u \in tasks' : t.c = u.c /\ t # u => t.cands \cap u.cands = {}
        BY <2>6, <3>1, <3>2 DEF SafetyInv, TasksTracked, new
      <4> QED BY <1>2, <4>1, <4>2 DEF SafetyInv, TasksTracked
    <3>4. NeverStale'
      BY <1>2, <2>6, <3>1 DEF SafetyInv, NeverStale, Stale, new
    <3> QED BY <2>4, <3>3, <3>4 DEF Kept
  <2> QED BY <1>4, <1>6, <2>5, <2>6
<1> QED BY <1>5, <1>6

(* A running task is replaced by its own answer.                           *)
LEMMA AnsweredKept ==
  ASSUME SafetyInv, NEW t \in tasks, t.state = "running", NEW s,
         s.c = t.c, s.cands = t.cands, s.generation = t.generation, s.work = t.work,
         tasks' = (tasks \ {t}) \cup {s},
         UNCHANGED <<work, generation, inflight, props, committing, barrier, pc, returned>>
  PROVE  Kept'
<1>1. TasksTracked'
  <2>1. \A u \in tasks' : u.cands # {} /\ u.cands \subseteq inflight'[u.c]
    BY DEF SafetyInv, TasksTracked
  <2>2. \A u, v \in tasks' : u.c = v.c /\ u # v => u.cands \cap v.cands = {}
    BY DEF SafetyInv, TasksTracked
  <2> QED BY <2>1, <2>2 DEF SafetyInv, TasksTracked
<1>2. BarrierAlone'
  BY DEF SafetyInv, BarrierAlone
<1>3. NeverStale'
  BY DEF SafetyInv, NeverStale, Stale
<1> QED BY <1>1, <1>2, <1>3 DEF Kept

(* A worker that answers or raises keeps what its task stands for.         *)
LEMMA AnswerKept ==
  ASSUME SafetyInv, NEW t \in tasks, Solve(t) \/ WorkerError(t)
  PROVE  Kept'
<1>1. t \in Tasks /\ t.state = "running"
  BY DEF SafetyInv, TypeInv, TypeOK, Solve, WorkerError
<1>2. UNCHANGED <<work, generation, inflight, props, committing, barrier, pc, returned>>
  BY DEF Solve, WorkerError, files, frontier, commits, control
<1>3. \E s : /\ s.c = t.c /\ s.cands = t.cands
             /\ s.generation = t.generation /\ s.work = t.work
             /\ tasks' = (tasks \ {t}) \cup {s}
  <2>1. CASE Solve(t)
    <3>1. PICK sat, unsat, at :
            tasks' = (tasks \ {t}) \cup
                       {[t EXCEPT !.state = "solved", !.sat = sat, !.unsat = unsat,
                                  !.at = IF unsat = {} THEN 0 ELSE at]}
      BY <2>1 DEF Solve
    <3> DEFINE s == [t EXCEPT !.state = "solved", !.sat = sat, !.unsat = unsat,
                              !.at = IF unsat = {} THEN 0 ELSE at]
    <3>2. /\ s.c = t.c /\ s.cands = t.cands
          /\ s.generation = t.generation /\ s.work = t.work
      BY <1>1 DEF Tasks
    <3> QED BY <3>1, <3>2
  <2>2. CASE WorkerError(t)
    <3> DEFINE s == [t EXCEPT !.state = "error"]
    <3>1. /\ s.c = t.c /\ s.cands = t.cands
          /\ s.generation = t.generation /\ s.work = t.work
      BY <1>1 DEF Tasks
    <3> QED BY <2>2, <3>1 DEF WorkerError
  <2> QED BY <2>1, <2>2
<1> QED BY <1>1, <1>2, <1>3, AnsweredKept

(* A broken pool keeps what the tasks stand for.                           *)
LEMMA WorkerDeathKept == SafetyInv /\ WorkerDeath => Kept'
<1> SUFFICES ASSUME SafetyInv, WorkerDeath PROVE Kept'
  OBVIOUS
<1> DEFINE After(t) == IF t.state = "running" THEN [t EXCEPT !.state = "error"] ELSE t
<1>1. UNCHANGED <<work, generation, inflight, props, committing, barrier, pc, returned>>
  BY DEF WorkerDeath, files, frontier, commits, control
<1>2. \A t \in tasks : /\ After(t).c = t.c /\ After(t).cands = t.cands
                       /\ After(t).generation = t.generation /\ After(t).work = t.work
  <2> SUFFICES ASSUME NEW t \in tasks
               PROVE  /\ After(t).c = t.c /\ After(t).cands = t.cands
                      /\ After(t).generation = t.generation /\ After(t).work = t.work
    OBVIOUS
  <2>1. t \in Tasks
    BY DEF SafetyInv, TypeInv, TypeOK
  <2> QED BY <2>1 DEF Tasks
<1>3. tasks' = {After(t) : t \in tasks}
  BY DEF WorkerDeath
<1> HIDE DEF After
<1>4. TasksTracked'
  <2>1. \A u \in tasks' : u.cands # {} /\ u.cands \subseteq inflight'[u.c]
    BY <1>1, <1>2, <1>3 DEF SafetyInv, TasksTracked
  <2>2. ASSUME NEW u \in tasks', NEW v \in tasks', u.c = v.c, u # v
        PROVE  u.cands \cap v.cands = {}
    <3>1. PICK x \in tasks, y \in tasks : u = After(x) /\ v = After(y)
      BY <1>3
    <3> QED BY <1>2, <2>2, <3>1 DEF SafetyInv, TasksTracked
  <2> QED BY <1>1, <2>1, <2>2 DEF SafetyInv, TasksTracked
<1>5. BarrierAlone'
  BY <1>1 DEF SafetyInv, BarrierAlone
<1>6. NeverStale'
  BY <1>1, <1>2, <1>3 DEF SafetyInv, NeverStale, Stale
<1> QED BY <1>4, <1>5, <1>6 DEF Kept

(* A task comes back: its candidates, and no others, leave the inflight    *)
(* set, and its circuit has no barrier.                                    *)
LEMMA ReturnedKept ==
  ASSUME SafetyInv, NEW t \in tasks,
         tasks' = tasks \ {t}, returned' = returned \ {t},
         inflight' = [inflight EXCEPT ![t.c] = inflight[t.c] \ t.cands],
         \A c \in Circuits : c # t.c => props'[c] = props[c],
         UNCHANGED <<work, generation, committing, barrier>>,
         pc' \in {"handle", "drain", "top"}
  PROVE  Kept'
<1>1. TypeOK /\ t.c \in Circuits
  BY DEF SafetyInv, TypeInv, TypeOK, Tasks
<1>2. /\ inflight'[t.c] = inflight[t.c] \ t.cands
      /\ \A c \in Circuits : c # t.c => inflight'[c] = inflight[c]
  BY <1>1 DEF TypeOK
<1>3. TasksTracked'
  <2>1. ASSUME NEW u \in tasks' PROVE u.cands # {} /\ u.cands \subseteq inflight'[u.c]
    <3>1. /\ u \in tasks /\ u # t /\ u.c \in Circuits
          /\ u.cands # {} /\ u.cands \subseteq inflight[u.c]
          /\ u.c = t.c => u.cands \cap t.cands = {}
      BY <1>1 DEF SafetyInv, TasksTracked, TypeOK, Tasks
    <3> QED BY <1>2, <3>1
  <2> QED BY <2>1 DEF SafetyInv, TasksTracked
<1>4. BarrierAlone'
  <2>1. \A b \in barrier : b.c # t.c /\ b.c \in Circuits
    BY <1>1, NoTaskUnderBarrier DEF SafetyInv, TypeOK, Barriers
  <2> QED BY <1>2, <2>1 DEF SafetyInv, BarrierAlone
<1>5. NeverStale'
  BY DEF SafetyInv, NeverStale, Stale
<1> QED BY <1>3, <1>4, <1>5 DEF Kept

(* A task that came back leaves the inflight set with its candidates only. *)
LEMMA HandlersKept ==
  ASSUME SafetyInv, NEW t \in returned, HandleWorkerError(t) \/ HandleResult(t)
  PROVE  Kept'
<1>1. TypeOK /\ t \in tasks
  BY DEF SafetyInv, TypeInv, TypeOK
<1>2. /\ tasks' = tasks \ {t} /\ returned' = returned \ {t}
      /\ inflight' = [inflight EXCEPT ![t.c] = inflight[t.c] \ t.cands]
      /\ UNCHANGED <<work, generation, committing, barrier>>
  BY <1>1 DEF HandleWorkerError, HandleResult, files, commits
<1>3. \A c \in Circuits : c # t.c => props'[c] = props[c]
  BY <1>1 DEF HandleWorkerError, HandleResult, TypeOK
<1>4. pc' \in {"handle", "drain", "top"}
  BY AfterHandlingType DEF HandleWorkerError, HandleResult
<1> QED BY <1>1, <1>2, <1>3, <1>4, ReturnedKept

(* The barrier comes back: only its circuit changes, which has no tasks.   *)
LEMMA BarrierBackKept ==
  ASSUME SafetyInv, NEW b \in barrier, barrier' = {},
         \A c \in Circuits : c # b.c => generation'[c] = generation[c],
         UNCHANGED <<work, inflight, tasks, returned>>
  PROVE  Kept'
<1>1. TasksTracked'
  BY DEF SafetyInv, TasksTracked
<1>2. BarrierAlone'
  BY DEF BarrierAlone
<1>3. NeverStale'
  <2>1. \A t \in tasks : t.c \in Circuits /\ t.c # b.c
    BY NoTaskUnderBarrier DEF SafetyInv, TypeInv, TypeOK, Tasks
  <2> QED BY <2>1 DEF SafetyInv, NeverStale, Stale
<1> QED BY <1>1, <1>2, <1>3 DEF Kept

(* After its handler no barrier is left.                                   *)
LEMMA HandleBarrierKept == SafetyInv /\ HandleBarrier => Kept'
<1> SUFFICES ASSUME SafetyInv, HandleBarrier PROVE Kept'
  OBVIOUS
<1>1. PICK b \in barrier : BarrierError(b) \/ StaleBarrier(b) \/ ApplyBarrier(b)
  BY DEF HandleBarrier, DoneBarrier
<1>2. \A c \in Circuits : c # b.c => generation'[c] = generation[c]
  BY <1>1 DEF BarrierError, StaleBarrier, ApplyBarrier, SafetyInv, TypeInv, TypeOK
<1> QED BY <1>1, <1>2, BarrierBackKept DEF HandleBarrier

(* The same in the final loop.                                             *)
LEMMA FinalizeEndKept == SafetyInv /\ FinalizeEnd => Kept'
<1> SUFFICES ASSUME SafetyInv, FinalizeEnd PROVE Kept'
  OBVIOUS
<1>1. PICK b \in barrier : ApplyBarrier(b) \/ UNCHANGED generation
  BY DEF FinalizeEnd, DoneBarrier
<1>2. \A c \in Circuits : c # b.c => generation'[c] = generation[c]
  BY <1>1 DEF ApplyBarrier, SafetyInv, TypeInv, TypeOK
<1> QED BY <1>1, <1>2, BarrierBackKept DEF FinalizeEnd

(* The final loop runs its barrier alone.                                  *)
LEMMA FinalizeStartKept == SafetyInv /\ FinalizeStart => Kept'
<1> SUFFICES ASSUME SafetyInv, FinalizeStart PROVE Kept'
  OBVIOUS
<1>1. TypeOK
  BY DEF SafetyInv, TypeInv
<1>2. UNCHANGED <<work, generation, inflight, props, tasks, returned>> /\ pc' = "final_barrier"
  BY DEF FinalizeStart, files, frontier
<1>3. TasksTracked'
  BY <1>2 DEF SafetyInv, TasksTracked
<1>4. BarrierAlone'
  BY <1>1, <1>2 DEF FinalizeStart, ToFinalize, BarrierAlone, NewBarrier, TypeOK
<1>5. NeverStale'
  BY <1>2 DEF FinalizeStart, SafetyInv, NeverStale, Stale, NewBarrier
<1> QED BY <1>3, <1>4, <1>5 DEF Kept

(* The barrier goes on: it keeps its circuit and speaks about no more      *)
(* proposals than before; only an install changes the work AAG.            *)
LEMMA BarrierOnKept ==
  ASSUME SafetyInv, NEW b \in barrier, NEW d, barrier' = {d},
         d.c = b.c, d.generation = b.generation,
         d.todo \cup d.accepted \cup d.rejected \cup d.timedOut
           \subseteq b.todo \cup b.accepted \cup b.rejected \cup b.timedOut,
         d.state = "recheck" => b.state = "recheck" /\ d.work = b.work /\ work' = work,
         \A c \in Circuits : c # b.c => work'[c] = work[c],
         UNCHANGED <<generation, inflight, props, committing, tasks, returned, pc>>
  PROVE  Kept'
<1>1. TasksTracked'
  BY DEF SafetyInv, TasksTracked
<1>2. BarrierAlone'
  BY DEF SafetyInv, BarrierAlone
<1>3. NeverStale'
  <2>1. \A t \in tasks : t.c \in Circuits /\ t.c # b.c
    BY NoTaskUnderBarrier DEF SafetyInv, TypeInv, TypeOK, Tasks
  <2> QED BY <2>1 DEF SafetyInv, NeverStale, Stale
<1> QED BY <1>1, <1>2, <1>3 DEF Kept

(* The recheck only moves proposals within its barrier.                    *)
LEMMA RecheckKept ==
  ASSUME SafetyInv, NEW b \in barrier, NEW k \in b.todo, Recheck(b, k)
  PROVE  Kept'
<1>1. b \in Barriers
  BY DEF SafetyInv, TypeInv, TypeOK
<1>2. UNCHANGED <<work, generation, inflight, props, committing, tasks, returned, pc>>
  BY DEF Recheck, files, frontier, commits, control
<1>3. b.state = "recheck"
  BY DEF Recheck
<1>4. \E d : /\ barrier' = {d}
             /\ d.c = b.c /\ d.generation = b.generation /\ d.work = b.work
             /\ d.todo \cup d.accepted \cup d.rejected \cup d.timedOut
                  \subseteq b.todo \cup b.accepted \cup b.rejected \cup b.timedOut
  <2> DEFINE fails   == [b EXCEPT !.state = "error"]
             skips   == Rechecked(b, k)
             late    == [Rechecked(b, k) EXCEPT !.timedOut = b.timedOut \cup {k}]
             accepts == [Rechecked(b, k) EXCEPT !.accepted = b.accepted \cup {k}]
             rejects == [Rechecked(b, k) EXCEPT !.rejected = b.rejected \cup {k}]
             Fits(d) == /\ d.c = b.c /\ d.generation = b.generation /\ d.work = b.work
                        /\ d.todo \cup d.accepted \cup d.rejected \cup d.timedOut
                             \subseteq b.todo \cup b.accepted \cup b.rejected \cup b.timedOut
  <2>1. \/ barrier' = {fails} \/ barrier' = {skips} \/ barrier' = {late}
        \/ barrier' = {accepts} \/ barrier' = {rejects}
    BY <1>1 DEF Recheck, Rechecked, Barriers
  <2>2. Fits(fails)
    BY <1>1 DEF Barriers
  <2>3. Fits(skips)
    BY <1>1 DEF Barriers, Rechecked
  <2>4. Fits(late)
    BY <1>1 DEF Barriers, Rechecked
  <2>5. Fits(accepts)
    BY <1>1 DEF Barriers, Rechecked
  <2>6. Fits(rejects)
    BY <1>1 DEF Barriers, Rechecked
  <2> HIDE DEF fails, skips, late, accepts, rejects
  <2> QED BY <2>1, <2>2, <2>3, <2>4, <2>5, <2>6
<1> QED BY <1>2, <1>3, <1>4, BarrierOnKept

(* The install changes the AAG of the barrier, which no task holds.        *)
LEMMA CheckAndInstallKept ==
  ASSUME SafetyInv, NEW b \in barrier, CheckAndInstall(b)
  PROVE  Kept'
<1>1. TypeOK /\ b \in Barriers
  BY DEF SafetyInv, TypeInv, TypeOK
<1>2. UNCHANGED <<generation, inflight, props, committing, tasks, returned, pc>>
  BY DEF CheckAndInstall, frontier, commits, control
<1>3. PICK state \in {"finished", "installed"} : barrier' = {[b EXCEPT !.state = state]}
  BY DEF CheckAndInstall
<1> DEFINE d == [b EXCEPT !.state = state]
<1>4. /\ d.c = b.c /\ d.generation = b.generation /\ d.state # "recheck"
      /\ d.todo \cup d.accepted \cup d.rejected \cup d.timedOut
           \subseteq b.todo \cup b.accepted \cup b.rejected \cup b.timedOut
  BY <1>1 DEF Barriers
<1>5. \A c \in Circuits : c # b.c => work'[c] = work[c]
  BY <1>1 DEF CheckAndInstall, TypeOK
<1> HIDE DEF d
<1>6. barrier' = {d}
  BY <1>3 DEF d
<1> QED BY <1>2, <1>4, <1>5, <1>6, BarrierOnKept

(* A report or a failure changes only the state of the barrier.            *)
LEMMA EndOfBarrierKept ==
  ASSUME SafetyInv, NEW b \in barrier, Report(b) \/ BarrierFails(b)
  PROVE  Kept'
<1>1. b \in Barriers
  BY DEF SafetyInv, TypeInv, TypeOK
<1>2. UNCHANGED <<work, generation, inflight, props, committing, tasks, returned, pc>>
  BY DEF Report, BarrierFails, files, frontier, commits, control
<1> DEFINE reported == [b EXCEPT !.state = "finished", !.committed = TRUE]
           failing  == [b EXCEPT !.state = "error"]
<1>3. /\ reported.c = b.c /\ reported.generation = b.generation
      /\ reported.state # "recheck"
      /\ reported.todo \cup reported.accepted \cup reported.rejected \cup reported.timedOut
           \subseteq b.todo \cup b.accepted \cup b.rejected \cup b.timedOut
  BY <1>1 DEF Barriers
<1>4. /\ failing.c = b.c /\ failing.generation = b.generation
      /\ failing.state # "recheck"
      /\ failing.todo \cup failing.accepted \cup failing.rejected \cup failing.timedOut
           \subseteq b.todo \cup b.accepted \cup b.rejected \cup b.timedOut
  BY <1>1 DEF Barriers
<1>5. barrier' = {reported} \/ barrier' = {failing}
  BY DEF Report, BarrierFails
<1> HIDE DEF reported, failing
<1> QED BY <1>2, <1>3, <1>4, <1>5, BarrierOnKept

(* The last save of a circuit touches neither tasks nor barrier.           *)
LEMMA CloseKept ==
  ASSUME SafetyInv, NEW c \in Circuits, Close(c)
  PROVE  Kept'
<1>1. /\ UNCHANGED <<work, generation, inflight, props, tasks, barrier, returned>>
      /\ barrier = {}
  BY DEF Close, SafetyInv, BarrierAlone, frontier, commits, executors
<1> QED BY <1>1, FrameKept DEF SafetyInv, TasksTracked

(* The remaining steps of the scheduler move no task and no barrier.       *)
LEMMA ControlKept ==
  ASSUME SafetyInv, LeaveLoop \/ DispatchDone \/ Wait \/ Drained \/ Expire
  PROVE  Kept'
<1>1. UNCHANGED <<work, generation, inflight, props, committing, tasks, barrier>>
  BY DEF LeaveLoop, DispatchDone, Wait, Drained, Expire, files, frontier, commits, executors
<1>2. \A t \in returned' : t.state # "running"
  BY DEF LeaveLoop, DispatchDone, Wait, DoneTasks, Drained, Expire, control,
         SafetyInv, TasksTracked
<1>3. pc' \in {"finalize", "final"} => barrier = {}
  BY DEF LeaveLoop, DispatchDone, Wait, Drained, Expire, control, SafetyInv, BarrierAlone
<1> QED BY <1>1, <1>2, <1>3, FrameKept DEF SafetyInv, BarrierAlone

(* Every step of a campaign, of its workers and of what befalls them keeps *)
(* the types and the separation of workers and barrier.                    *)
THEOREM SafetyStep == SafetyInv /\ [Next]_vars => SafetyInv'
<1> SUFFICES ASSUME SafetyInv, [Next]_vars PROVE SafetyInv'
  OBVIOUS
<1>1. TypeInv /\ \A t \in returned : t.state # "running"
  BY DEF SafetyInv, TasksTracked
<1>2. TypeInv' /\ Kept' => SafetyInv'
  BY DEF SafetyInv, Kept
<1>3. CASE Launch
  BY <1>1, <1>2, <1>3, LaunchType, IdleKept DEF Launch, StartFrom
<1>4. CASE LoopTop
  BY <1>1, <1>2, <1>4, LoopTopType, LoopTopKept
<1>5. CASE LeaveLoop
  BY <1>1, <1>2, <1>5, LeaveLoopType, ControlKept
<1>6. CASE \E c \in Circuits : Dispatch(c)
  BY <1>1, <1>2, <1>6, DispatchType, DispatchKept
<1>7. CASE DispatchDone
  BY <1>1, <1>2, <1>7, DispatchDoneType, ControlKept
<1>8. CASE Wait
  BY <1>1, <1>2, <1>8, WaitType, ControlKept
<1>9. CASE HandleBarrier
  BY <1>1, <1>2, <1>9, HandleBarrierType, HandleBarrierKept
<1>10. CASE \E t \in returned : HandleWorkerError(t) \/ HandleResult(t)
  <2>1. returned \subseteq tasks
    BY <1>1 DEF TypeInv, TypeOK
  <2> QED BY <1>1, <1>2, <1>10, <2>1, HandleWorkerErrorType, HandleResultType, HandlersKept
<1>11. CASE Drained
  BY <1>1, <1>2, <1>11, DrainedType, ControlKept
<1>12. CASE FinalizeStart
  BY <1>1, <1>2, <1>12, FinalizeStartType, FinalizeStartKept
<1>13. CASE FinalizeEnd
  BY <1>1, <1>2, <1>13, FinalizeEndType, FinalizeEndKept
<1>14. CASE \E c \in Circuits : Close(c)
  BY <1>1, <1>2, <1>14, CloseType, CloseKept
<1>15. CASE \E t \in tasks : Solve(t) \/ WorkerError(t)
  <2>1. PICK t \in tasks : Solve(t) \/ WorkerError(t)
    BY <1>15
  <2>2. t \notin returned
    BY <1>1, <2>1 DEF Solve, WorkerError
  <2> QED BY <1>1, <1>2, <2>1, <2>2, SolveType, WorkerErrorType, AnswerKept
<1>16. CASE WorkerDeath
  BY <1>1, <1>2, <1>16, WorkerDeathType, WorkerDeathKept
<1>17. CASE \E b \in barrier : \E k \in b.todo : Recheck(b, k)
  BY <1>1, <1>2, <1>17, RecheckType, RecheckKept
<1>18. CASE \E b \in barrier : CheckAndInstall(b)
  BY <1>1, <1>2, <1>18, CheckAndInstallType, CheckAndInstallKept
<1>19. CASE \E b \in barrier : Report(b) \/ BarrierFails(b)
  BY <1>1, <1>2, <1>19, ReportType, BarrierFailsType, EndOfBarrierKept
<1>20. CASE Crash \/ CrashInSave
  BY <1>1, <1>2, <1>20, CrashType, IdleKept DEF Crash, CrashInSave, Killed
<1>21. CASE Expire
  BY <1>1, <1>2, <1>21, ExpireType, ControlKept
<1>22. CASE UNCHANGED vars
  <2>1. UNCHANGED <<files, frontier, flags, commits, executors, control, expired, runs>>
    BY <1>22 DEF vars
  <2>2. UNCHANGED <<work, ckpt, seed, cands, hist, inflight, props, propBudget, committing,
                    generation, committed, complete, failed, exhausted, tasks, barrier,
                    poolBroken, commitPoolBroken, pc, returned, blocked, stop, closing,
                    expired, runs>>
    BY <2>1 DEF files, frontier, flags, commits, executors, control
  <2>3. TypeOK'
    BY <1>1, <2>2 DEF TypeInv, TypeOK
  <2>4. TypeInv'
    BY <1>1, <2>2, <2>3 DEF TypeInv, TargetsBounded, AcceptedSafe
  <2> QED BY <1>1, <1>2, <2>2, <2>4, FrameKept DEF SafetyInv, BarrierAlone
<1> QED BY <1>3, <1>4, <1>5, <1>6, <1>7, <1>8, <1>9, <1>10, <1>11, <1>12, <1>13, <1>14,
           <1>15, <1>16, <1>17, <1>18, <1>19, <1>20, <1>21, <1>22
        DEF Next, Loop, Answer, CommitProcess, Misfortune

(* The inductive invariant holds in every state of every behavior.         *)
THEOREM Safety == Spec => []SafetyInv
<1>1. Init => SafetyInv
  BY InitSafe
<1>2. SafetyInv /\ [Next]_vars => SafetyInv'
  BY SafetyStep
<1> QED BY <1>1, <1>2, PTL DEF Spec

(* The state of the pool is always what its types promise.                 *)
THEOREM TypeCorrect == Spec => []TypeOK
<1>1. SafetyInv => TypeOK
  BY DEF SafetyInv, TypeInv
<1> QED BY <1>1, Safety, PTL

(* Whatever fails and whenever, no worker result and no barrier speaks     *)
(* about another AAG than the scheduler's: the stale checks of             *)
(* _handle_worker_result, _run_proposal_barrier and                        *)
(* _apply_proposal_barrier never fire.                                     *)
THEOREM ResultsNeverStale == Spec => []NeverStale
<1>1. SafetyInv => NeverStale
  BY DEF SafetyInv
<1> QED BY <1>1, Safety, PTL

(* While a circuit is being committed it has the barrier for itself: no    *)
(* task of it is out, and the barrier holds proposals of the circuit only. *)
THEOREM BarrierIsExclusive == Spec => []BarrierExclusive
<1>1. SafetyInv => BarrierExclusive
  BY NoTaskUnderBarrier DEF SafetyInv, BarrierAlone, BarrierExclusive
<1> QED BY <1>1, Safety, PTL

-----------------------------------------------------------------------------
(* A save writes the work AAG of its circuit.                              *)
LEMMA PersistedFunction ==
  ASSUME TypeOK, FunctionKept, NEW c \in Circuits, NEW cs, NEW h, NEW ps, NEW pb, NEW cm,
         ckpt' = Persisted(c, work[c], cs, h, ps, pb, cm), UNCHANGED <<work, seed>>
  PROVE  FunctionKept'
<1> DEFINE new == Snapshot(work[c], cs, h, ps, pb, cm)
<1>1. new.work = work[c]
  BY DEF Snapshot
<1> HIDE DEF new
<1>2. ckpt' = [ckpt EXCEPT ![c] = Saved(ckpt[c], new)]
  BY DEF Persisted, new
<1>3. \A d \in Circuits : ckpt'[d].work \in {ckpt[d].work, work[d]}
  BY <1>1, <1>2 DEF Saved, TypeOK
<1> QED BY <1>3 DEF FunctionKept

(* The install is guarded by the equivalence check against the source.     *)
LEMMA InstallFunction ==
  ASSUME TypeOK, FunctionKept, NEW b \in barrier, CheckAndInstall(b)
  PROVE  FunctionKept'
<1>1. UNCHANGED <<ckpt, seed>>
  BY DEF CheckAndInstall
<1>2. CASE UNCHANGED work
  BY <1>1, <1>2 DEF FunctionKept
<1>3. CASE /\ Meaning[Rewrite(b)] = Meaning[Source[b.c]]
           /\ work' = [work EXCEPT ![b.c] = Rewrite(b)]
  <2>1. \A c \in Circuits : Meaning[work'[c]] = Meaning[Source[c]]
    BY <1>3 DEF TypeOK, FunctionKept
  <2> QED BY <1>1, <2>1 DEF FunctionKept
<1> QED BY <1>2, <1>3 DEF CheckAndInstall

(* A campaign starts from one of the checkpoints and saves what it found.  *)
LEMMA LaunchFunction ==
  ASSUME FunctionKept, Launch
  PROVE  FunctionKept'
<1> DEFINE s == [c \in Circuits |-> Best(seed[c], ckpt[c])]
<1>1. StartFrom(s)
  BY DEF Launch
<1>2. \A c \in Circuits : Meaning[s[c].work] = Meaning[Source[c]]
  BY DEF Best, FunctionKept
<1> HIDE DEF s
<1>3. \A c \in Circuits : /\ seed'[c] = s[c] /\ work'[c] = s[c].work
                          /\ ckpt'[c].work = s[c].work
  BY <1>1 DEF StartFrom, Snapshot
<1> QED BY <1>2, <1>3 DEF FunctionKept

(* Handlers and the last loop save, if anything, the work AAG.             *)
LEMMA SavesFunction ==
  ASSUME TypeOK, FunctionKept,
         \/ \E t \in returned : HandleResult(t)
         \/ HandleBarrier \/ FinalizeEnd
         \/ \E c \in Circuits : Close(c)
  PROVE  FunctionKept'
<1>1. UNCHANGED <<work, seed>>
  BY DEF HandleResult, HandleBarrier, FinalizeEnd, Close
<1>2. CASE UNCHANGED ckpt
  BY <1>1, <1>2 DEF FunctionKept
<1>3. ASSUME NEW t \in returned, HandleResult(t) PROVE FunctionKept'
  <2>1. t.c \in Circuits
    BY DEF TypeOK, Tasks
  <2> QED BY <1>1, <1>2, <1>3, <2>1, PersistedFunction DEF HandleResult
<1>4. ASSUME NEW b \in barrier, ApplyBarrier(b) PROVE FunctionKept'
  <2>1. b.c \in Circuits
    BY DEF TypeOK, Barriers
  <2> QED BY <1>1, <1>4, <2>1, PersistedFunction DEF ApplyBarrier
<1>5. CASE HandleBarrier \/ FinalizeEnd
  BY <1>2, <1>4, <1>5 DEF HandleBarrier, FinalizeEnd, DoneBarrier, BarrierError, StaleBarrier
<1>6. ASSUME NEW c \in Circuits, Close(c) PROVE FunctionKept'
  BY <1>1, <1>6, PersistedFunction DEF Close
<1> QED BY <1>3, <1>5, <1>6

(* A torn save leaves the work AAG in the checkpoint.                      *)
LEMMA CrashFunction ==
  ASSUME TypeOK, FunctionKept, Crash \/ CrashInSave
  PROVE  FunctionKept'
<1>1. UNCHANGED <<work, seed>>
  BY DEF Crash, CrashInSave, Killed
<1>2. CASE UNCHANGED ckpt
  BY <1>1, <1>2 DEF FunctionKept
<1>3. ASSUME NEW b \in barrier, ckpt' = [ckpt EXCEPT ![b.c].work = work[b.c]]
      PROVE  FunctionKept'
  <2>1. b.c \in Circuits
    BY DEF TypeOK, Barriers
  <2>2. \A c \in Circuits : ckpt'[c].work \in {ckpt[c].work, work[c]}
    BY <1>3, <2>1 DEF TypeOK, Checkpoints
  <2> QED BY <1>1, <2>2 DEF FunctionKept
<1> QED BY <1>2, <1>3 DEF Crash, CrashInSave, DoneBarrier

(* All other steps touch no files.                                         *)
LEMMA OthersFunction ==
  ASSUME FunctionKept,
         \/ LoopTop \/ LeaveLoop \/ (\E c \in Circuits : Dispatch(c)) \/ DispatchDone \/ Wait
         \/ (\E t \in returned : HandleWorkerError(t)) \/ Drained \/ FinalizeStart \/ Answer
         \/ (\E b \in barrier : (\E k \in b.todo : Recheck(b, k)) \/ Report(b) \/ BarrierFails(b))
         \/ (\E t \in tasks : WorkerError(t)) \/ WorkerDeath \/ Expire \/ UNCHANGED vars
  PROVE  FunctionKept'
<1>1. UNCHANGED files
  <2>1. CASE \/ LoopTop \/ LeaveLoop \/ (\E c \in Circuits : Dispatch(c)) \/ DispatchDone \/ Wait
             \/ (\E t \in returned : HandleWorkerError(t)) \/ Drained \/ FinalizeStart
    BY <2>1 DEF LoopTop, LeaveLoop, Dispatch, DispatchDone, Wait, HandleWorkerError, Drained,
                FinalizeStart
  <2>2. CASE \/ Answer \/ (\E t \in tasks : WorkerError(t)) \/ WorkerDeath \/ Expire
             \/ UNCHANGED vars
    BY <2>2 DEF Answer, Solve, WorkerError, WorkerDeath, Expire, vars
  <2>3. CASE \E b \in barrier : \/ \E k \in b.todo : Recheck(b, k)
                                \/ Report(b) \/ BarrierFails(b)
    BY <2>3 DEF Recheck, Report, BarrierFails
  <2> QED BY <2>1, <2>2, <2>3
<1> QED BY <1>1 DEF files, FunctionKept

(* The work AAG and every checkpoint compute what the source computes,     *)
(* whatever the engines answer and whatever fails and when, the late death *)
(* of the commit process and torn saves included: the one thing it rests   *)
(* on is the equivalence check before the install (_cec_transaction).      *)
THEOREM FunctionIsKept == Spec => []FunctionKept
<1>1. Init => FunctionKept
  BY DEF Init, FunctionKept, Snapshot
<1>2. TypeOK /\ FunctionKept /\ [Next]_vars => FunctionKept'
  <2> SUFFICES ASSUME TypeOK, FunctionKept, [Next]_vars PROVE FunctionKept'
    OBVIOUS
  <2>1. CASE Launch
    BY <2>1, LaunchFunction
  <2>2. CASE \E b \in barrier : CheckAndInstall(b)
    BY <2>2, InstallFunction
  <2>3. CASE \/ \E t \in returned : HandleResult(t)
             \/ HandleBarrier \/ FinalizeEnd
             \/ \E c \in Circuits : Close(c)
    BY <2>3, SavesFunction
  <2>4. CASE Crash \/ CrashInSave
    BY <2>4, CrashFunction
  <2>5. CASE \/ LoopTop \/ LeaveLoop \/ (\E c \in Circuits : Dispatch(c)) \/ DispatchDone \/ Wait
             \/ (\E t \in returned : HandleWorkerError(t)) \/ Drained \/ FinalizeStart \/ Answer
             \/ (\E b \in barrier :
                   (\E k \in b.todo : Recheck(b, k)) \/ Report(b) \/ BarrierFails(b))
             \/ (\E t \in tasks : WorkerError(t)) \/ WorkerDeath \/ Expire \/ UNCHANGED vars
    BY <2>5, OthersFunction
  <2> QED BY <2>1, <2>2, <2>3, <2>4, <2>5 DEF Next, Loop, CommitProcess, Misfortune
<1> QED BY <1>1, <1>2, TypeCorrect, PTL DEF Spec

-----------------------------------------------------------------------------
(* What is out at the executors.  The inflight set of a circuit is the     *)
(* exact record of what its tasks hold: on every path on which a task ends,*)
(* its candidates leave the set, and since tasks are disjoint (SafetyInv)  *)
(* nobody else's do.  And tasks and barrier together never exceed the      *)
(* worker budget.                                                          *)

(* A worker answers for its own candidates only, UNSAT for those that are  *)
(* redundant in the AAG of its task and SAT for those that are not.        *)
AnswersHonest ==
  \A t \in tasks :
    /\ t.sat \subseteq t.cands \ Redundant(t.work)
    /\ t.unsat \subseteq t.cands \cap Redundant(t.work)

(* Every candidate in flight is held by a task.                            *)
InflightHeld ==
  pc # "crashed" =>
    \A c \in Circuits : \A k \in inflight[c] : \E t \in tasks : t.c = c /\ k \in t.cands

(* What is in flight is in the frontier and no proposal.                   *)
InflightOpen ==
  pc # "crashed" => \A c \in Circuits : inflight[c] \subseteq cands[c] \ props[c]

Ledger == AnswersHonest /\ InflightHeld /\ InflightOpen

(* The three parts, with what SafetyInv says of tasks, make the record     *)
(* exact.                                                                  *)
LEMMA LedgerExact == SafetyInv /\ Ledger => InflightExact
<1> SUFFICES ASSUME SafetyInv, Ledger, pc # "crashed", NEW c \in Circuits
             PROVE  LET own == {t \in tasks : t.c = c}
                    IN  /\ inflight[c] = UNION {t.cands : t \in own}
                        /\ \A t, u \in own : t # u => t.cands \cap u.cands = {}
                        /\ inflight[c] \subseteq cands[c] \ props[c]
  BY DEF InflightExact
<1> DEFINE own == {t \in tasks : t.c = c}
<1>1. UNION {t.cands : t \in own} \subseteq inflight[c]
  BY DEF SafetyInv, TasksTracked
<1>2. inflight[c] \subseteq UNION {t.cands : t \in own}
  BY DEF Ledger, InflightHeld
<1>3. \A t, u \in own : t # u => t.cands \cap u.cands = {}
  BY DEF SafetyInv, TasksTracked
<1>4. inflight[c] \subseteq cands[c] \ props[c]
  BY DEF Ledger, InflightOpen
<1> QED BY <1>1, <1>2, <1>3, <1>4

(* A step that moves neither tasks nor the sets they are recorded in.      *)
LEMMA FrameLedger ==
  ASSUME Ledger, UNCHANGED <<tasks, inflight, cands, props>>, pc' # "crashed" => pc # "crashed"
  PROVE  Ledger'
BY DEF Ledger, AnswersHonest, InflightHeld, InflightOpen

(* A step after which nothing is out, or the scheduler is gone.            *)
LEMMA IdleLedger ==
  ASSUME tasks' = {},
         pc' = "crashed" \/ inflight' = [c \in Circuits |-> {}]
  PROVE  Ledger'
BY DEF Ledger, AnswersHonest, InflightHeld, InflightOpen

(* A batch is taken from candidates that are not in flight, of a circuit   *)
(* without proposals, and its task holds all of it.                        *)
LEMMA DispatchLedger ==
  ASSUME SafetyInv, Ledger, NEW c \in Circuits, Dispatch(c)
  PROVE  Ledger'
<1>1. TypeOK /\ Dispatchable(c) /\ UNCHANGED <<cands, props>> /\ pc = "dispatch"
  BY DEF SafetyInv, TypeInv, Dispatch, Selected, Ready
<1>2. PICK batch \in Batches(c) : \E fitted \in SUBSET batch :
        IF fitted = {}
        THEN UNCHANGED <<inflight, tasks, pc>>
        ELSE /\ inflight' = [inflight EXCEPT ![c] = inflight[c] \cup fitted]
             /\ IF poolBroken
                THEN pc' = "crashed" /\ UNCHANGED tasks
                ELSE tasks' = tasks \cup {NewTask(c, batch, fitted)} /\ pc' = pc
  BY DEF Dispatch
<1>3. PICK fitted \in SUBSET batch :
        IF fitted = {}
        THEN UNCHANGED <<inflight, tasks, pc>>
        ELSE /\ inflight' = [inflight EXCEPT ![c] = inflight[c] \cup fitted]
             /\ IF poolBroken
                THEN pc' = "crashed" /\ UNCHANGED tasks
                ELSE tasks' = tasks \cup {NewTask(c, batch, fitted)} /\ pc' = pc
  BY <1>2
<1>4. fitted \subseteq cands[c] \ inflight[c] /\ props[c] = {}
  BY <1>1, <1>3, BatchFacts DEF Available, Dispatchable
<1>5. CASE fitted = {}
  BY <1>1, <1>3, <1>5, FrameLedger
<1>6. CASE fitted # {} /\ poolBroken
  BY <1>3, <1>6 DEF Ledger, AnswersHonest, InflightHeld, InflightOpen
<1>7. CASE fitted # {} /\ ~poolBroken
  <2> DEFINE new == NewTask(c, batch, fitted)
  <2>1. new.c = c /\ new.cands = fitted /\ new.sat = {} /\ new.unsat = {}
    BY DEF NewTask
  <2> HIDE DEF new
  <2>2. tasks' = tasks \cup {new} /\ pc' = pc
    BY <1>3, <1>7 DEF new
  <2>3. /\ inflight'[c] = inflight[c] \cup fitted
        /\ \A d \in Circuits : d # c => inflight'[d] = inflight[d]
    BY <1>1, <1>3, <1>7 DEF TypeOK
  <2>4. AnswersHonest'
    BY <2>1, <2>2 DEF Ledger, AnswersHonest
  <2>5. InflightHeld'
    BY <1>1, <2>1, <2>2, <2>3 DEF Ledger, InflightHeld
  <2>6. InflightOpen'
    BY <1>1, <1>4, <2>2, <2>3 DEF Ledger, InflightOpen
  <2> QED BY <2>4, <2>5, <2>6 DEF Ledger
<1> QED BY <1>5, <1>6, <1>7

(* Tasks that go on hold what they held and answer for no more.            *)
LEMMA AnswersLedger ==
  ASSUME Ledger, UNCHANGED <<inflight, cands, props, pc>>,
         \A s \in tasks' : \E t \in tasks :
           /\ s.cands = t.cands /\ s.work = t.work
           /\ \/ s.sat = t.sat /\ s.unsat = t.unsat
              \/ /\ s.sat \subseteq t.cands \ Redundant(t.work)
                 /\ s.unsat \subseteq t.cands \cap Redundant(t.work),
         \A t \in tasks : \E s \in tasks' : s.c = t.c /\ s.cands = t.cands
  PROVE  Ledger'
<1>1. AnswersHonest'
  BY DEF Ledger, AnswersHonest
<1>2. InflightHeld'
  BY DEF Ledger, InflightHeld
<1>3. InflightOpen'
  BY DEF Ledger, InflightOpen
<1> QED BY <1>1, <1>2, <1>3 DEF Ledger

(* A worker reads the work AAG when it starts, and by NeverStale that is   *)
(* the AAG of its task.                                                    *)
LEMMA SolveLedger ==
  ASSUME SafetyInv, Ledger, NEW t \in tasks, Solve(t) \/ WorkerError(t)
  PROVE  Ledger'
<1>1. t \in Tasks /\ work[t.c] = t.work
  BY DEF SafetyInv, TypeInv, TypeOK, NeverStale, Stale
<1>2. PICK s : /\ s.c = t.c /\ s.cands = t.cands /\ s.work = t.work
               /\ tasks' = (tasks \ {t}) \cup {s}
               /\ \/ s.sat = t.sat /\ s.unsat = t.unsat
                  \/ /\ s.sat \subseteq t.cands \ Redundant(t.work)
                     /\ s.unsat \subseteq t.cands \cap Redundant(t.work)
  <2>1. CASE Solve(t)
    <3>1. PICK unsat \in SUBSET (t.cands \cap Redundant(work[t.c])),
               sat \in SUBSET (t.cands \ Redundant(work[t.c])), at \in t.targets :
            tasks' = (tasks \ {t}) \cup
                       {[t EXCEPT !.state = "solved", !.sat = sat, !.unsat = unsat,
                                  !.at = IF unsat = {} THEN 0 ELSE at]}
      BY <2>1 DEF Solve
    <3> DEFINE s == [t EXCEPT !.state = "solved", !.sat = sat, !.unsat = unsat,
                              !.at = IF unsat = {} THEN 0 ELSE at]
    <3>2. /\ s.c = t.c /\ s.cands = t.cands /\ s.work = t.work
          /\ s.sat = sat /\ s.unsat = unsat
      BY <1>1 DEF Tasks
    <3> HIDE DEF s
    <3>3. tasks' = (tasks \ {t}) \cup {s}
      BY <3>1 DEF s
    <3> QED BY <1>1, <3>2, <3>3
  <2>2. CASE WorkerError(t)
    <3> DEFINE s == [t EXCEPT !.state = "error"]
    <3>1. /\ s.c = t.c /\ s.cands = t.cands /\ s.work = t.work
          /\ s.sat = t.sat /\ s.unsat = t.unsat
      BY <1>1 DEF Tasks
    <3>2. tasks' = (tasks \ {t}) \cup {s}
      BY <2>2 DEF WorkerError
    <3> HIDE DEF s
    <3> QED BY <3>1, <3>2
  <2> QED BY <2>1, <2>2
<1>3. UNCHANGED <<inflight, cands, props, pc>>
  BY DEF Solve, WorkerError, frontier, control
<1> QED BY <1>2, <1>3, AnswersLedger

(* The tasks of a broken pool hold what they held.                         *)
LEMMA WorkerDeathLedger ==
  ASSUME SafetyInv, Ledger, WorkerDeath
  PROVE  Ledger'
<1> DEFINE After(t) == IF t.state = "running" THEN [t EXCEPT !.state = "error"] ELSE t
<1>1. \A t \in tasks : /\ After(t).c = t.c /\ After(t).cands = t.cands /\ After(t).work = t.work
                       /\ After(t).sat = t.sat /\ After(t).unsat = t.unsat
  <2> SUFFICES ASSUME NEW t \in tasks
               PROVE  /\ After(t).c = t.c /\ After(t).cands = t.cands
                      /\ After(t).work = t.work
                      /\ After(t).sat = t.sat /\ After(t).unsat = t.unsat
    OBVIOUS
  <2>1. t \in Tasks
    BY DEF SafetyInv, TypeInv, TypeOK
  <2> QED BY <2>1 DEF Tasks
<1>2. tasks' = {After(t) : t \in tasks} /\ UNCHANGED <<inflight, cands, props, pc>>
  BY DEF WorkerDeath, frontier, control
<1> HIDE DEF After
<1> QED BY <1>1, <1>2, AnswersLedger

(* A task that came back takes its candidates out of the set, whether its  *)
(* future raised or not; what remains is held by the others.               *)
LEMMA HandlersLedger ==
  ASSUME SafetyInv, Ledger, NEW t \in returned, HandleWorkerError(t) \/ HandleResult(t)
  PROVE  Ledger'
<1>1. TypeOK /\ t \in tasks /\ t.c \in Circuits /\ pc = "handle"
  BY DEF SafetyInv, TypeInv, TypeOK, Tasks, HandleWorkerError, HandleResult
<1>2. /\ tasks' = tasks \ {t}
      /\ inflight' = [inflight EXCEPT ![t.c] = inflight[t.c] \ t.cands]
  BY DEF HandleWorkerError, HandleResult
<1>3. /\ inflight'[t.c] = inflight[t.c] \ t.cands
      /\ \A c \in Circuits : c # t.c => inflight'[c] = inflight[c]
  BY <1>1, <1>2 DEF TypeOK
<1>4. \A c \in Circuits : (cands[c] \ props[c]) \ (cands'[c] \ props'[c])
                            \subseteq IF c = t.c THEN t.cands ELSE {}
  <2>1. t.sat \subseteq t.cands /\ t.unsat \subseteq t.cands
    BY <1>1 DEF Ledger, AnswersHonest
  <2>2. CASE UNCHANGED <<cands, props>>
    BY <2>2
  <2>3. CASE /\ cands' = [cands EXCEPT ![t.c] = cands[t.c] \ t.sat]
             /\ props' = [props EXCEPT ![t.c] = props[t.c] \cup t.unsat]
    BY <1>1, <2>1, <2>3 DEF TypeOK
  <2> QED BY <2>2, <2>3 DEF HandleWorkerError, HandleResult
<1>5. AnswersHonest'
  BY <1>2 DEF Ledger, AnswersHonest
<1>6. InflightHeld'
  <2> SUFFICES ASSUME NEW c \in Circuits, NEW k \in inflight'[c]
               PROVE  \E u \in tasks' : u.c = c /\ k \in u.cands
    BY DEF InflightHeld
  <2>1. k \in inflight[c] /\ (c = t.c => k \notin t.cands)
    BY <1>3
  <2>2. PICK u \in tasks : u.c = c /\ k \in u.cands
    BY <1>1, <2>1 DEF Ledger, InflightHeld
  <2> QED BY <1>2, <2>1, <2>2
<1>7. InflightOpen'
  <2> SUFFICES ASSUME NEW c \in Circuits, NEW k \in inflight'[c]
               PROVE  k \in cands'[c] \ props'[c]
    BY DEF InflightOpen
  <2>1. k \in inflight[c] /\ (c = t.c => k \notin t.cands)
    BY <1>3
  <2>2. k \in cands[c] \ props[c]
    BY <1>1, <2>1 DEF Ledger, InflightOpen
  <2> QED BY <1>4, <2>1, <2>2
<1> QED BY <1>5, <1>6, <1>7 DEF Ledger

(* A barrier changes the frontier of a circuit with nothing in flight.     *)
LEMMA BarrierLedger ==
  ASSUME SafetyInv, Ledger, HandleBarrier \/ FinalizeEnd
  PROVE  Ledger'
<1>1. PICK b \in barrier : ApplyBarrier(b) \/ StaleBarrier(b) \/ UNCHANGED <<cands, props>>
  BY DEF HandleBarrier, FinalizeEnd, DoneBarrier, BarrierError
<1>2. /\ UNCHANGED <<tasks, inflight>> /\ pc # "crashed"
      /\ inflight[b.c] = {}
  BY DEF HandleBarrier, FinalizeEnd, SafetyInv, BarrierAlone
<1>3. \A c \in Circuits : c # b.c => cands'[c] = cands[c] /\ props'[c] = props[c]
  BY <1>1 DEF ApplyBarrier, StaleBarrier, SafetyInv, TypeInv, TypeOK
<1>4. InflightOpen'
  BY <1>2, <1>3 DEF Ledger, InflightOpen
<1> QED BY <1>2, <1>4 DEF Ledger, AnswersHonest, InflightHeld

(* All other steps leave tasks and frontiers alone, or leave no tasks.     *)
LEMMA OthersLedger ==
  ASSUME SafetyInv, Ledger,
         \/ Launch \/ LoopTop \/ LeaveLoop \/ DispatchDone \/ Wait \/ Drained
         \/ FinalizeStart \/ (\E c \in Circuits : Close(c)) \/ Expire \/ CommitProcess
         \/ (\E b \in barrier : BarrierFails(b)) \/ Crash \/ CrashInSave \/ UNCHANGED vars
  PROVE  Ledger'
<1>1. CASE Launch
  BY <1>1, IdleLedger DEF Launch, StartFrom
<1>2. CASE Crash \/ CrashInSave
  BY <1>2, IdleLedger DEF Crash, CrashInSave, Killed
<1>3. CASE \/ LoopTop \/ LeaveLoop \/ DispatchDone \/ Wait \/ Drained
           \/ FinalizeStart \/ \E c \in Circuits : Close(c)
  BY <1>3, FrameLedger DEF LoopTop, LeaveLoop, DispatchDone, Wait, Drained, FinalizeStart,
                           Close, frontier, executors
<1>4. CASE Expire \/ CommitProcess \/ (\E b \in barrier : BarrierFails(b)) \/ UNCHANGED vars
  BY <1>4, FrameLedger DEF Expire, CommitProcess, Recheck, CheckAndInstall, Report,
                           BarrierFails, vars, frontier, executors, control
<1> QED BY <1>1, <1>2, <1>3, <1>4

(* Every step keeps the record.                                            *)
LEMMA LedgerStep == SafetyInv /\ Ledger /\ [Next]_vars => Ledger'
<1> SUFFICES ASSUME SafetyInv, Ledger, [Next]_vars PROVE Ledger'
  OBVIOUS
<1>1. CASE \E c \in Circuits : Dispatch(c)
  BY <1>1, DispatchLedger
<1>2. CASE \E t \in tasks : Solve(t) \/ WorkerError(t)
  BY <1>2, SolveLedger
<1>3. CASE WorkerDeath
  BY <1>3, WorkerDeathLedger
<1>4. CASE \E t \in returned : HandleWorkerError(t) \/ HandleResult(t)
  BY <1>4, HandlersLedger
<1>5. CASE HandleBarrier \/ FinalizeEnd
  BY <1>5, BarrierLedger
<1>6. CASE \/ Launch \/ LoopTop \/ LeaveLoop \/ DispatchDone \/ Wait \/ Drained
           \/ FinalizeStart \/ (\E c \in Circuits : Close(c)) \/ Expire \/ CommitProcess
           \/ (\E b \in barrier : BarrierFails(b)) \/ Crash \/ CrashInSave
           \/ UNCHANGED vars
  BY <1>6, OthersLedger
<1> QED BY <1>1, <1>2, <1>3, <1>4, <1>5, <1>6 DEF Next, Loop, Answer, Misfortune

(* The record holds in every state of every behavior.                      *)
THEOREM LedgerKept == Spec => []Ledger
<1>1. Init => Ledger
  BY DEF Init, Ledger, AnswersHonest, InflightHeld, InflightOpen
<1> QED BY <1>1, LedgerStep, Safety, PTL DEF Spec

(* No candidate is out twice, none stays marked after its task came back,  *)
(* by result, error or a broken pool, and none is out while it is a        *)
(* proposal (_handle_worker_result, and the handling of futures that raise *)
(* at alg10_dynamic_tfo_pool_campaign.py:1315).                            *)
THEOREM InflightIsExact == Spec => []InflightExact
BY LedgerKept, Safety, LedgerExact, PTL

-----------------------------------------------------------------------------
(* The futures are finitely many, they fit the budget, and the barrier of  *)
(* the final loop finds all slots free.                                    *)
Capacity ==
  /\ IsFiniteSet(tasks)
  /\ WithinCapacity
  /\ pc \in {"finalize", "final_barrier", "final", "done"} => tasks = {}

(* What a barrier counts for: there is at most one.                        *)
LEMMA AtMostOneCounts ==
  ASSUME NEW S, \A b, d \in S : b = d
  PROVE  \/ S = {} /\ Cardinality(S) = 0
         \/ S # {} /\ Cardinality(S) = 1
<1>1. CASE S = {}
  BY <1>1, FS_EmptySet
<1>2. CASE S # {}
  <2>1. PICK b : S = {b}
    BY <1>2
  <2> QED BY <2>1, FS_Singleton
<1> QED BY <1>1, <1>2

(* A step that takes no slot.                                              *)
LEMMA NoSlotTaken ==
  ASSUME SafetyInv, BarrierAlone', Capacity, IsFiniteSet(tasks'),
         Cardinality(tasks') <= Cardinality(tasks),
         barrier' # {} => barrier # {},
         pc' \in {"finalize", "final_barrier", "final", "done"} => tasks' = {}
  PROVE  Capacity'
<1>1. Cardinality(tasks) \in Nat /\ Cardinality(tasks') \in Nat /\ Jobs \in Nat
  BY FS_CardinalityType, SizesAssumption DEF Capacity
<1>2. /\ Cardinality(barrier) \in {0, 1} /\ Cardinality(barrier') \in {0, 1}
      /\ Cardinality(barrier') <= Cardinality(barrier)
  <2>1. \/ barrier = {} /\ Cardinality(barrier) = 0
        \/ barrier # {} /\ Cardinality(barrier) = 1
    BY AtMostOneCounts DEF SafetyInv, BarrierAlone
  <2>2. \A b, d \in barrier' : b = d
    BY DEF BarrierAlone
  <2>3. \/ barrier' = {} /\ Cardinality(barrier') = 0
        \/ barrier' # {} /\ Cardinality(barrier') = 1
    BY <2>2, AtMostOneCounts
  <2> QED BY <2>1, <2>3
<1>3. WithinCapacity'
  BY <1>1, <1>2 DEF Capacity, WithinCapacity
<1> QED BY <1>3 DEF Capacity

(* One more future, where a slot is free.                                  *)
LEMMA SlotTaken ==
  ASSUME SafetyInv, Capacity, SlotFree,
         \/ barrier' = barrier /\ \E t : tasks' = tasks \cup {t}
         \/ barrier = {} /\ UNCHANGED tasks /\ \E b : barrier' = {b},
         pc' \notin {"finalize", "final_barrier", "final", "done"}
  PROVE  Capacity'
<1>1. Cardinality(tasks) \in Nat /\ Jobs \in Nat
  BY FS_CardinalityType, SizesAssumption DEF Capacity
<1>2. Cardinality(barrier) \in {0, 1} /\ (barrier = {} => Cardinality(barrier) = 0)
  BY AtMostOneCounts DEF SafetyInv, BarrierAlone
<1>3. CASE barrier' = barrier /\ \E t : tasks' = tasks \cup {t}
  <2>1. PICK t : tasks' = tasks \cup {t}
    BY <1>3
  <2>2. IsFiniteSet(tasks') /\ Cardinality(tasks') <= Cardinality(tasks) + 1
    BY <1>1, <2>1, FS_AddElement DEF Capacity
  <2>3. Cardinality(tasks') \in Nat
    BY <2>2, FS_CardinalityType
  <2> QED BY <1>1, <1>2, <1>3, <2>2, <2>3 DEF Capacity, SlotFree, WithinCapacity
<1>4. CASE barrier = {} /\ UNCHANGED tasks /\ \E b : barrier' = {b}
  <2>1. Cardinality(barrier') = 1
    BY <1>4, FS_Singleton
  <2> QED BY <1>1, <1>2, <1>4, <2>1 DEF Capacity, SlotFree, WithinCapacity
<1> QED BY <1>3, <1>4

(* A future takes a slot when it is submitted, and at most one is.         *)
LEMMA SubmitCapacity ==
  ASSUME SafetyInv, SafetyInv', Capacity, LoopTop \/ \E c \in Circuits : Dispatch(c)
  PROVE  Capacity'
<1>1. CASE UNCHANGED <<tasks, barrier>> /\ pc' \in {"dispatch", "crashed"}
  <2>1. IsFiniteSet(tasks') /\ Cardinality(tasks') <= Cardinality(tasks)
    BY <1>1, FS_CardinalityType DEF Capacity
  <2> QED BY <1>1, <2>1, NoSlotTaken DEF SafetyInv
<1>2. CASE LoopTop
  <2>1. UNCHANGED tasks /\ pc' \in {"dispatch", "crashed"}
    BY <1>2 DEF LoopTop, AdmitBarrier, SkipBarrier
  <2>2. \/ UNCHANGED barrier
        \/ barrier = {} /\ SlotFree /\ \E b : barrier' = {b}
    BY <1>2 DEF LoopTop, AdmitBarrier, SkipBarrier
  <2> QED BY <1>1, <2>1, <2>2, SlotTaken
<1>3. ASSUME NEW c \in Circuits, Dispatch(c) PROVE Capacity'
  <2>1. UNCHANGED barrier /\ SlotFree /\ pc' \in {"dispatch", "crashed"}
    BY <1>3 DEF Dispatch
  <2>2. UNCHANGED tasks \/ \E t : tasks' = tasks \cup {t}
    BY <1>3 DEF Dispatch
  <2> QED BY <1>1, <2>1, <2>2, SlotTaken
<1> QED BY <1>2, <1>3

(* A task that is answered, or handled, takes no new slot.                 *)
LEMMA AnswerCapacity ==
  ASSUME SafetyInv, SafetyInv', Capacity,
         \/ \E t \in tasks : Solve(t) \/ WorkerError(t)
         \/ \E t \in returned : HandleWorkerError(t) \/ HandleResult(t)
  PROVE  Capacity'
<1>1. IsFiniteSet(tasks) /\ Cardinality(tasks) \in Nat
  BY FS_CardinalityType DEF Capacity
<1>2. ASSUME NEW t \in tasks, Solve(t) \/ WorkerError(t) PROVE Capacity'
  <2>1. PICK s : tasks' = (tasks \ {t}) \cup {s}
    BY <1>2 DEF Solve, WorkerError
  <2>2. IsFiniteSet(tasks \ {t}) /\ Cardinality(tasks \ {t}) = Cardinality(tasks) - 1
    BY <1>1, FS_RemoveElement
  <2>3. IsFiniteSet(tasks') /\ Cardinality(tasks') <= Cardinality(tasks)
    BY <1>1, <2>1, <2>2, FS_AddElement
  <2>4. UNCHANGED <<barrier, pc>> /\ tasks # {}
    BY <1>2 DEF Solve, WorkerError, control
  <2> QED BY <2>3, <2>4, NoSlotTaken DEF SafetyInv, Capacity
<1>3. ASSUME NEW t \in returned, HandleWorkerError(t) \/ HandleResult(t) PROVE Capacity'
  <2>1. tasks' = tasks \ {t} /\ UNCHANGED barrier /\ pc' \in {"handle", "drain", "top"}
    BY <1>3, AfterHandlingType DEF HandleWorkerError, HandleResult
  <2>2. t \in tasks
    BY DEF SafetyInv, TypeInv, TypeOK
  <2>3. IsFiniteSet(tasks') /\ Cardinality(tasks') <= Cardinality(tasks)
    BY <1>1, <2>1, <2>2, FS_RemoveElement
  <2> QED BY <2>1, <2>3, NoSlotTaken DEF SafetyInv
<1> QED BY <1>2, <1>3

(* A broken pool has no more tasks than before.                            *)
LEMMA WorkerDeathCapacity ==
  ASSUME SafetyInv, SafetyInv', Capacity, WorkerDeath
  PROVE  Capacity'
<1> DEFINE after == [t \in tasks |->
                       IF t.state = "running" THEN [t EXCEPT !.state = "error"] ELSE t]
<1>1. tasks' = {after[t] : t \in tasks} /\ UNCHANGED <<barrier, pc>>
  BY DEF WorkerDeath, control
<1>2. after \in Surjection(tasks, tasks')
  BY <1>1 DEF Surjection
<1>3. IsFiniteSet(tasks') /\ Cardinality(tasks') <= Cardinality(tasks)
  BY <1>2, FS_Surjection DEF Capacity
<1>4. tasks # {}
  BY DEF WorkerDeath
<1> QED BY <1>1, <1>3, <1>4, NoSlotTaken DEF SafetyInv, Capacity

(* The barrier of the final loop runs when no task is left.                *)
LEMMA FinalizeStartCapacity ==
  ASSUME SafetyInv, Capacity, FinalizeStart
  PROVE  Capacity'
<1>1. tasks = {} /\ tasks' = {} /\ barrier' = {NewBarrier(closing, FALSE)}
  BY DEF FinalizeStart, Capacity
<1>2. Cardinality(barrier') = 1 /\ Cardinality(tasks') = 0 /\ IsFiniteSet(tasks')
  BY <1>1, FS_Singleton, FS_EmptySet
<1> QED BY <1>1, <1>2, SizesAssumption DEF Capacity, WithinCapacity

(* All other steps submit nothing, and the final loop begins without tasks.*)
LEMMA OthersCapacity ==
  ASSUME SafetyInv, SafetyInv', Capacity,
         \/ Launch \/ LeaveLoop \/ DispatchDone \/ Wait \/ HandleBarrier \/ Drained
         \/ FinalizeEnd \/ (\E c \in Circuits : Close(c)) \/ CommitProcess \/ Expire
         \/ (\E b \in barrier : BarrierFails(b)) \/ Crash \/ CrashInSave \/ UNCHANGED vars
  PROVE  Capacity'
<1>1. CASE tasks' = {} /\ barrier' = {}
  <2>1. IsFiniteSet(tasks') /\ Cardinality(tasks') = 0 /\ Cardinality(barrier') = 0
    BY <1>1, FS_EmptySet
  <2> QED BY <1>1, <2>1, SizesAssumption DEF Capacity, WithinCapacity
<1>2. CASE /\ UNCHANGED tasks
           /\ barrier' # {} => barrier # {}
           /\ pc' \in {"finalize", "final_barrier", "final", "done"} => tasks = {}
  <2>1. IsFiniteSet(tasks') /\ Cardinality(tasks') <= Cardinality(tasks)
    BY <1>2, FS_CardinalityType DEF Capacity
  <2> QED BY <1>2, <2>1, NoSlotTaken DEF SafetyInv
<1>3. CASE Launch \/ Crash \/ CrashInSave
  BY <1>1, <1>3 DEF Launch, StartFrom, Crash, CrashInSave, Killed
<1>4. CASE \/ LeaveLoop \/ DispatchDone \/ Wait \/ HandleBarrier \/ Drained \/ FinalizeEnd
           \/ \E c \in Circuits : Close(c)
  BY <1>2, <1>4, AfterHandlingType DEF LeaveLoop, DispatchDone, Wait, HandleBarrier, Drained,
     FinalizeEnd, Close, executors, Capacity
<1>5. CASE CommitProcess \/ Expire \/ (\E b \in barrier : BarrierFails(b)) \/ UNCHANGED vars
  <2>1. UNCHANGED <<tasks, pc>> /\ (barrier' # {} => barrier # {})
    BY <1>5 DEF CommitProcess, Recheck, CheckAndInstall, Report, Expire, BarrierFails, vars,
                executors, control
  <2> QED BY <1>2, <2>1 DEF Capacity
<1> QED BY <1>3, <1>4, <1>5

(* Every step keeps the budget.                                            *)
LEMMA CapacityStep == SafetyInv /\ SafetyInv' /\ Capacity /\ [Next]_vars => Capacity'
<1> SUFFICES ASSUME SafetyInv, SafetyInv', Capacity, [Next]_vars PROVE Capacity'
  OBVIOUS
<1>1. CASE LoopTop \/ \E c \in Circuits : Dispatch(c)
  BY <1>1, SubmitCapacity
<1>2. CASE \/ \E t \in tasks : Solve(t) \/ WorkerError(t)
           \/ \E t \in returned : HandleWorkerError(t) \/ HandleResult(t)
  BY <1>2, AnswerCapacity
<1>3. CASE WorkerDeath
  BY <1>3, WorkerDeathCapacity
<1>4. CASE FinalizeStart
  BY <1>4, FinalizeStartCapacity
<1>5. CASE \/ Launch \/ LeaveLoop \/ DispatchDone \/ Wait \/ HandleBarrier \/ Drained
           \/ FinalizeEnd \/ (\E c \in Circuits : Close(c)) \/ CommitProcess \/ Expire
           \/ (\E b \in barrier : BarrierFails(b)) \/ Crash \/ CrashInSave \/ UNCHANGED vars
  BY <1>5, OthersCapacity
<1> QED BY <1>1, <1>2, <1>3, <1>4, <1>5 DEF Next, Loop, Answer, Misfortune

(* Tasks and barrier, which run in executors of their own, never exceed the*)
(* one worker budget they share (the slot counts of run_dynamic_campaign). *)
THEOREM CapacityIsKept == Spec => []WithinCapacity
<1>1. Init => Capacity
  <2> SUFFICES ASSUME Init PROVE Capacity
    OBVIOUS
  <2>1. tasks = {} /\ barrier = {} /\ pc = "off"
    BY DEF Init
  <2>2. IsFiniteSet(tasks) /\ Cardinality(tasks) = 0 /\ Cardinality(barrier) = 0
    BY <2>1, FS_EmptySet
  <2> QED BY <2>1, <2>2, SizesAssumption DEF Capacity, WithinCapacity
<1>2. Capacity => WithinCapacity
  BY DEF Capacity
<1> QED BY <1>1, <1>2, CapacityStep, Safety, PTL DEF Spec

-----------------------------------------------------------------------------
(* No candidate is ever queried again at a budget that already failed: the *)
(* ladder ascends (BudgetLadderProofs), and between the dispatch of a task *)
(* and its return nobody else writes the history of its candidates, since  *)
(* tasks of a circuit are disjoint and its barrier waits (SafetyInv).      *)

(* A batch is dispatched at the next budget of its tier, above the history *)
(* of each of its candidates.                                              *)
LEMMA DispatchHigher ==
  ASSUME SafetyInv, HigherBudgetOnly, NEW c \in Circuits, Dispatch(c)
  PROVE  HigherBudgetOnly'
<1>1. TypeOK /\ Dispatchable(c) /\ UNCHANGED hist
  BY DEF SafetyInv, TypeInv, Dispatch, Selected, Ready
<1>2. PICK batch \in Batches(c) :
        \/ UNCHANGED tasks
        \/ \E fitted \in SUBSET batch : tasks' = tasks \cup {NewTask(c, batch, fitted)}
  BY DEF Dispatch
<1>3. CASE UNCHANGED tasks
  BY <1>1, <1>3 DEF HigherBudgetOnly
<1>4. ASSUME NEW fitted \in SUBSET batch, tasks' = tasks \cup {NewTask(c, batch, fitted)}
      PROVE  HigherBudgetOnly'
  <2> DEFINE new == NewTask(c, batch, fitted)
  <2>1. new.c = c /\ new.cands = fitted /\ new.budget = BatchBudget(c)
    BY DEF NewTask
  <2>2. \A k \in fitted : hist[c][k] < BatchBudget(c)
    BY <1>1, BatchFacts DEF Batches
  <2> HIDE DEF new
  <2>3. \A k \in new.cands : hist[new.c][k] < new.budget
    BY <2>1, <2>2
  <2> QED BY <1>1, <1>4, <2>3 DEF HigherBudgetOnly, new
<1> QED BY <1>2, <1>3, <1>4

(* Tasks that go on or come back keep circuit, candidates and budget.      *)
LEMMA AnswersHigher ==
  ASSUME SafetyInv, HigherBudgetOnly, UNCHANGED hist,
         \A s \in tasks' : \E t \in tasks :
           s.c = t.c /\ s.cands = t.cands /\ s.budget = t.budget
  PROVE  HigherBudgetOnly'
BY DEF HigherBudgetOnly

(* A worker that answers keeps candidates and budget.                      *)
LEMMA SolveHigher ==
  ASSUME SafetyInv, HigherBudgetOnly, NEW t \in tasks, Solve(t) \/ WorkerError(t)
  PROVE  HigherBudgetOnly'
<1>1. t \in Tasks
  BY DEF SafetyInv, TypeInv, TypeOK
<1>2. \E s : /\ s.c = t.c /\ s.cands = t.cands /\ s.budget = t.budget
             /\ tasks' = (tasks \ {t}) \cup {s}
  <2>1. CASE Solve(t)
    <3>1. PICK sat, unsat, at :
            tasks' = (tasks \ {t}) \cup
                       {[t EXCEPT !.state = "solved", !.sat = sat, !.unsat = unsat,
                                  !.at = IF unsat = {} THEN 0 ELSE at]}
      BY <2>1 DEF Solve
    <3> DEFINE s == [t EXCEPT !.state = "solved", !.sat = sat, !.unsat = unsat,
                              !.at = IF unsat = {} THEN 0 ELSE at]
    <3>2. s.c = t.c /\ s.cands = t.cands /\ s.budget = t.budget
      BY <1>1 DEF Tasks
    <3> QED BY <3>1, <3>2
  <2>2. CASE WorkerError(t)
    <3> DEFINE s == [t EXCEPT !.state = "error"]
    <3>1. s.c = t.c /\ s.cands = t.cands /\ s.budget = t.budget
      BY <1>1 DEF Tasks
    <3> QED BY <2>2, <3>1 DEF WorkerError
  <2> QED BY <2>1, <2>2
<1>3. UNCHANGED hist
  BY DEF Solve, WorkerError, frontier
<1> QED BY <1>2, <1>3, AnswersHigher

(* So do the tasks of a broken pool.                                       *)
LEMMA WorkerDeathHigher ==
  ASSUME SafetyInv, HigherBudgetOnly, WorkerDeath
  PROVE  HigherBudgetOnly'
<1> DEFINE After(t) == IF t.state = "running" THEN [t EXCEPT !.state = "error"] ELSE t
<1>1. \A t \in tasks : After(t).c = t.c /\ After(t).cands = t.cands /\ After(t).budget = t.budget
  <2> SUFFICES ASSUME NEW t \in tasks
               PROVE  After(t).c = t.c /\ After(t).cands = t.cands /\ After(t).budget = t.budget
    OBVIOUS
  <2>1. t \in Tasks
    BY DEF SafetyInv, TypeInv, TypeOK
  <2> QED BY <2>1 DEF Tasks
<1>2. tasks' = {After(t) : t \in tasks} /\ UNCHANGED hist
  BY DEF WorkerDeath, frontier
<1> HIDE DEF After
<1> QED BY <1>1, <1>2, AnswersHigher

(* A result raises the history of its own candidates only.                 *)
LEMMA ResultHigher ==
  ASSUME SafetyInv, HigherBudgetOnly, NEW t \in returned, HandleWorkerError(t) \/ HandleResult(t)
  PROVE  HigherBudgetOnly'
<1>1. TypeOK /\ t \in tasks /\ t.c \in Circuits
  BY DEF SafetyInv, TypeInv, TypeOK, Tasks
<1>2. tasks' = tasks \ {t}
  BY DEF HandleWorkerError, HandleResult
<1>3. ASSUME NEW c \in Circuits, NEW k \in Candidate, c # t.c \/ k \notin t.cands
      PROVE  hist'[c][k] = hist[c][k]
  <2>1. CASE UNCHANGED hist
    BY <2>1
  <2>2. CASE hist' = [hist EXCEPT ![t.c] =
               [l \in Candidate |->
                  IF l \in t.cands \ (t.sat \cup t.unsat)
                  THEN Larger(hist[t.c][l], Greatest(t.targets)) ELSE hist[t.c][l]]]
    <3>1. CASE c # t.c
      BY <1>1, <2>2, <3>1 DEF TypeOK
    <3>2. CASE c = t.c
      BY <1>1, <1>3, <2>2, <3>2 DEF TypeOK
    <3> QED BY <3>1, <3>2
  <2> QED BY <2>1, <2>2 DEF HandleWorkerError, HandleResult
<1>4. ASSUME NEW u \in tasks', NEW k \in u.cands PROVE hist'[u.c][k] = hist[u.c][k]
  <2>1. /\ u \in tasks /\ u.c \in Circuits /\ k \in Candidate
        /\ u.c = t.c => u.cands \cap t.cands = {}
    BY <1>1, <1>2, <1>4 DEF SafetyInv, TasksTracked, TypeOK, Tasks
  <2> QED BY <1>3, <1>4, <2>1
<1> QED BY <1>2, <1>4 DEF HigherBudgetOnly

(* A barrier writes the history of its own circuit only.                   *)
LEMMA BarrierHigher ==
  ASSUME SafetyInv, HigherBudgetOnly, NEW b \in barrier,
         \A c \in Circuits : c # b.c => hist'[c] = hist[c], UNCHANGED tasks
  PROVE  HigherBudgetOnly'
<1>1. \A t \in tasks : t.c \in Circuits /\ t.c # b.c
  BY NoTaskUnderBarrier DEF SafetyInv, TypeInv, TypeOK, Tasks
<1> QED BY <1>1 DEF HigherBudgetOnly

(* A barrier that raised or came too late writes no history at all.        *)
LEMMA HandleBarrierHigher ==
  ASSUME SafetyInv, HigherBudgetOnly, HandleBarrier \/ FinalizeEnd
  PROVE  HigherBudgetOnly'
<1>1. PICK b \in barrier : ApplyBarrier(b) \/ UNCHANGED hist
  BY DEF HandleBarrier, FinalizeEnd, DoneBarrier, BarrierError, StaleBarrier
<1>2. \A c \in Circuits : c # b.c => hist'[c] = hist[c]
  BY <1>1 DEF ApplyBarrier, SafetyInv, TypeInv, TypeOK
<1>3. UNCHANGED tasks
  BY DEF HandleBarrier, FinalizeEnd
<1> QED BY <1>2, <1>3, BarrierHigher

(* All other steps of a campaign leave tasks and history alone, or have no *)
(* tasks.                                                                  *)
LEMMA OthersHigher ==
  ASSUME HigherBudgetOnly,
         \/ Launch \/ LoopTop \/ LeaveLoop \/ DispatchDone \/ Wait \/ Drained
         \/ FinalizeStart \/ (\E c \in Circuits : Close(c)) \/ Expire \/ CommitProcess
         \/ (\E b \in barrier : BarrierFails(b)) \/ Crash \/ CrashInSave \/ UNCHANGED vars
  PROVE  HigherBudgetOnly'
<1>1. CASE tasks' = {}
  BY <1>1 DEF HigherBudgetOnly
<1>2. CASE UNCHANGED <<tasks, hist>>
  BY <1>2 DEF HigherBudgetOnly
<1>3. CASE Launch \/ Crash \/ CrashInSave
  BY <1>1, <1>3 DEF Launch, StartFrom, Crash, CrashInSave, Killed
<1>4. CASE \/ LoopTop \/ LeaveLoop \/ DispatchDone \/ Wait \/ Drained
           \/ FinalizeStart \/ (\E c \in Circuits : Close(c)) \/ Expire
  BY <1>2, <1>4 DEF LoopTop, LeaveLoop, DispatchDone, Wait, Drained, FinalizeStart, Close,
                    Expire, frontier, executors
<1>5. CASE CommitProcess \/ \E b \in barrier : BarrierFails(b)
  BY <1>2, <1>5 DEF CommitProcess, Recheck, CheckAndInstall, Report, BarrierFails, frontier
<1>6. CASE UNCHANGED vars
  BY <1>2, <1>6 DEF vars, frontier, executors
<1> QED BY <1>3, <1>4, <1>5, <1>6

(* Every candidate a worker holds is tried with more conflicts than ever   *)
(* before on this AAG, whatever timed out, failed or was resumed from a    *)
(* checkpoint before (select_candidate_batch, next_budget).                *)
THEOREM RetriesAscend == Spec => []HigherBudgetOnly
<1>1. Init => HigherBudgetOnly
  BY DEF Init, HigherBudgetOnly
<1>2. SafetyInv /\ HigherBudgetOnly /\ [Next]_vars => HigherBudgetOnly'
  <2> SUFFICES ASSUME SafetyInv, HigherBudgetOnly, [Next]_vars PROVE HigherBudgetOnly'
    OBVIOUS
  <2>1. CASE \E c \in Circuits : Dispatch(c)
    BY <2>1, DispatchHigher
  <2>2. CASE \E t \in tasks : Solve(t) \/ WorkerError(t)
    BY <2>2, SolveHigher
  <2>3. CASE WorkerDeath
    BY <2>3, WorkerDeathHigher
  <2>4. CASE \E t \in returned : HandleWorkerError(t) \/ HandleResult(t)
    BY <2>4, ResultHigher
  <2>5. CASE HandleBarrier \/ FinalizeEnd
    BY <2>5, HandleBarrierHigher
  <2>6. CASE \/ Launch \/ LoopTop \/ LeaveLoop \/ DispatchDone \/ Wait \/ Drained
             \/ FinalizeStart \/ (\E c \in Circuits : Close(c)) \/ Expire \/ CommitProcess
             \/ (\E b \in barrier : BarrierFails(b)) \/ Crash \/ CrashInSave
             \/ UNCHANGED vars
    BY <2>6, OthersHigher
  <2> QED BY <2>1, <2>2, <2>3, <2>4, <2>5, <2>6 DEF Next, Loop, Answer, Misfortune
<1> QED BY <1>1, <1>2, Safety, PTL DEF Spec
=============================================================================
