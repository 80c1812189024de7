-------------------------- MODULE TaskMoveProofs ---------------------------
(* Theorems about single task rows: every call moves a row in one of a few *)
(* ways, whatever it does to the other rows.                               *)
EXTENDS TaskStoreProofs

-----------------------------------------------------------------------------
(* The moves of the worker, recovery and submission calls, then those of   *)
(* the operator calls.                                                     *)
WorkMove(t) ==
    LET a == task[t]
        b == task'[t]
    IN  \/ b = a
        \/ a.status = Absent /\ job[JobOf[t]].status = Absent /\ b = NewTask
        \/ a.status = "queued" /\ \E e \in Executor : b = Handout(a, e)
        \/ a.status = "running" /\ b = ExpireRow(a)
        \/ a.status = "running" /\ HasRetryLeft(a) /\ \E e \in Executor : b = Handout(Requeue(a), e)
        \/ a.lease = "valid" /\ b = [a EXCEPT !.lease = "lapsed"]
        \/ a.status = "running" /\ b = Settle(a, "succeeded")
        \/ a.status = "running" /\ HasRetryLeft(a) /\ b = Requeue(a)
        \/ /\ a.status = "running" /\ ~HasRetryLeft(a)
           /\ \E e \in Executor : b = [Settle(a, "failed") EXCEPT !.owner = e]
        \/ t \in handed /\ job[JobOf[t]].status = "cancelled" /\ b = Settle(a, "cancelled")

OperatorMove(t) ==
    LET a == task[t]
        b == task'[t]
    IN  \/ b = a
        \/ a.status \in {"failed", "cancelled"} /\ \E r \in ResetChoices : b = RetryRow(a, r)
        \/ a.status # Absent /\ \E o \in {a.owner, NoOwner} :
                                    b = [Settle(a, "cancelled") EXCEPT !.owner = o]
        \/ session[SessionOf[JobOf[t]]].status \in Settled /\ b = NoTask

(* What a lease may find after its own recovery pass.                      *)
LEMMA GrantMoves ==
    ASSUME TypeOK, Exact, NEW T \in SUBSET Task, NEW to \in [T -> Executor],
           NEW stale \in {{}, Stale}, Grant(T, to, stale), NEW t \in Task
    PROVE  WorkMove(t)
<1> DEFINE tk == Expire(stale)
           jb == RecalcJobs(tk, job, JobsOf(stale))
           se == RecalcSessions(tk, jb, session, SessionsOf(JobsOf(stale)))
<1>1. /\ T \subseteq Eligible(tk, jb, se)
      /\ task' = [u \in Task |-> IF u \in T THEN Handout(tk[u], to[u]) ELSE tk[u]]
  BY DEF Grant
<1>2. tk[t] = IF t \in stale THEN ExpireRow(task[t]) ELSE task[t]
  BY DEF Expire
<1>3. t \in stale => task[t].status = "running"
  BY DEF Stale
<1>4. t \in T => tk[t].status = "queued"
  BY <1>1 DEF Eligible
<1> HIDE DEF tk, jb, se
<1>5. CASE t \notin T
  BY <1>1, <1>2, <1>3, <1>5 DEF WorkMove
<1>6. CASE t \in T /\ t \notin stale
  <2>1. task'[t] = Handout(task[t], to[t]) /\ task[t].status = "queued" /\ to[t] \in Executor
    BY <1>1, <1>2, <1>4, <1>6
  <2> QED
    BY <2>1 DEF WorkMove
<1>7. CASE t \in T /\ t \in stale
  <2>1. /\ task'[t] = Handout(ExpireRow(task[t]), to[t]) /\ to[t] \in Executor
        /\ ExpireRow(task[t]).status = "queued" /\ task[t].status = "running"
    BY <1>1, <1>2, <1>3, <1>4, <1>7
  <2>2. ~HasRetryLeft(task[t]) => ExpireRow(task[t]).status = "failed"
    <3>1. task[t] \in TaskRow
      BY DEF TypeOK
    <3> QED
      BY <3>1 DEF ExpireRow, Settle, TaskRow
  <2>3. HasRetryLeft(task[t]) /\ ExpireRow(task[t]) = Requeue(task[t])
    BY <2>1, <2>2 DEF ExpireRow
  <2> QED
    BY <2>1, <2>3 DEF WorkMove
<1> QED
  BY <1>5, <1>6, <1>7

(* Every step moves every row in one of these ways; only operators make an *)
(* operator's move.                                                        *)
LEMMA StepMoves ==
    ASSUME TypeOK, Exact, [Next]_vars, NEW t \in Task
    PROVE  WorkMove(t) \/ (OperatorStep /\ OperatorMove(t))
<1>0. task[t] \in TaskRow
  BY DEF TypeOK
<1>1. ASSUME NEW j \in Job, CreateJob(j)
      PROVE  WorkMove(t)
  <2>1. /\ job[j].status = Absent
        /\ task' = [u \in Task |-> IF u \in TasksOf({j}) THEN NewTask ELSE task[u]]
    BY <1>1 DEF CreateJob
  <2>2. CASE t \in TasksOf({j})
    <3>1. JobOf[t] = j
      BY <2>2 DEF TasksOf
    <3>2. task[t].status = Absent
      BY <2>1, <3>1 DEF Exact, Linked
    <3> QED
      BY <2>1, <2>2, <3>1, <3>2 DEF WorkMove
  <2>3. CASE t \notin TasksOf({j})
    BY <2>1, <2>3 DEF WorkMove
  <2> QED
    BY <2>2, <2>3
<1>2. ASSUME NEW e \in Executor, LeaseTasks(e)
      PROVE  WorkMove(t)
  <2>1. PICK T \in SUBSET Task, stale \in {{}, Stale} : Grant(T, [u \in T |-> e], stale)
    BY <1>2 DEF LeaseTasks
  <2> QED
    BY <2>1, GrantMoves
<1>3. ASSUME LeaseForInstances(Executor)
      PROVE  WorkMove(t)
  <2>0. PICK F \in SUBSET Executor : \E give \in [F -> Task], stale \in {{}, Stale} :
            Grant({give[e] : e \in F},
                  [u \in {give[e] : e \in F} |-> CHOOSE e \in F : give[e] = u], stale)
    BY <1>3 DEF LeaseForInstances
  <2>1. PICK give \in [F -> Task], stale \in {{}, Stale} :
            Grant({give[e] : e \in F},
                  [u \in {give[e] : e \in F} |-> CHOOSE e \in F : give[e] = u], stale)
    BY <2>0
  <2> DEFINE T == {give[e] : e \in F}
             to == [u \in T |-> CHOOSE e \in F : give[e] = u]
  <2>2. T \in SUBSET Task /\ to \in [T -> Executor]
    OBVIOUS
  <2> QED
    BY <2>1, <2>2, GrantMoves
<1>4. ASSUME NEW u \in Task, NEW e \in Executor, CompleteTask(u, e)
      PROVE  WorkMove(t)
  <2>1. CASE KeptCancelled(u)
    <3>1. /\ task' = [task EXCEPT ![u] = Settle(@, "cancelled")]
          /\ job[JobOf[u]].status = "cancelled" /\ u \in handed
      BY <1>4, <2>1 DEF KeptCancelled, WriteAndRecalc, CompleteTask
    <3>2. task'[t] = IF t = u THEN Settle(task[t], "cancelled") ELSE task[t]
      BY <3>1 DEF TypeOK
    <3> QED
      BY <3>1, <3>2 DEF WorkMove
  <2>2. CASE ResultAccepted(u, e)
    <3>1. /\ task' = [task EXCEPT ![u] = Settle(@, "succeeded")]
          /\ task[u].status = "running"
      BY <2>2 DEF ResultAccepted, WriteAndRecalc, OwnedBy
    <3>2. task'[t] = IF t = u THEN Settle(task[t], "succeeded") ELSE task[t]
      BY <3>1 DEF TypeOK
    <3> QED
      BY <3>1, <3>2 DEF WorkMove
  <2>3. CASE ResultIgnored(u, e)
    BY <2>3 DEF ResultIgnored, WriteAndRecalc, WorkMove
  <2> QED
    BY <1>4, <2>1, <2>2, <2>3 DEF CompleteTask
<1>5. ASSUME NEW u \in Task, NEW e \in Executor, FailTask(u, e)
      PROVE  WorkMove(t)
  <2> DEFINE row == IF HasRetryLeft(task[u]) THEN Requeue(task[u])
                    ELSE [Settle(task[u], "failed") EXCEPT !.owner = e]
  <2>1. task' = [task EXCEPT ![u] = row] /\ task[u].status = "running"
    BY <1>5 DEF FailTask, WriteAndRecalc, OwnedBy
  <2> HIDE DEF row
  <2>2. task'[t] = IF t = u THEN row ELSE task[t]
    BY <2>1 DEF TypeOK
  <2>3. HasRetryLeft(task[u]) => row = Requeue(task[u])
    BY DEF row
  <2>4. ~HasRetryLeft(task[u]) => row = [Settle(task[u], "failed") EXCEPT !.owner = e]
    BY DEF row
  <2> QED
    BY <2>1, <2>2, <2>3, <2>4 DEF WorkMove
<1>6. ASSUME NEW u \in Task, LeaseLapses(u)
      PROVE  WorkMove(t)
  <2>1. task[u].lease = "valid" /\ task' = [task EXCEPT ![u].lease = "lapsed"]
    BY <1>6 DEF LeaseLapses
  <2>2. task'[t] = IF t = u THEN [task[t] EXCEPT !.lease = "lapsed"] ELSE task[t]
    BY <2>1 DEF TypeOK
  <2> QED
    BY <2>1, <2>2 DEF WorkMove
<1>7. ASSUME task' = Expire(Stale)
      PROVE  WorkMove(t)
  <2>1. task'[t] = IF t \in Stale THEN ExpireRow(task[t]) ELSE task[t]
    BY <1>7 DEF Expire
  <2> QED
    BY <2>1 DEF WorkMove, Stale
<1>8. RecoverExpiredLeases \/ (\E recover \in BOOLEAN : Reconcile(recover)) => WorkMove(t)
  <2>1. RecoverExpiredLeases \/ (\E recover \in BOOLEAN : Reconcile(recover))
            => task' = Expire(Stale) \/ task' = task
    BY DEF RecoverExpiredLeases, WriteAndRecalc, Reconcile
  <2> QED
    BY <1>7, <2>1 DEF WorkMove
<1>9. OperatorStep => OperatorMove(t)
  <2>1. ASSUME NEW T \in SUBSET Task, NEW reset \in BOOLEAN, NEW jb, NEW J,
               RetryAll(T, reset, jb, J), \A u \in T : task[u].status \in {"failed", "cancelled"}
        PROVE  OperatorMove(t)
    <3>1. /\ reset \in ResetChoices
          /\ task'[t] = IF t \in T THEN RetryRow(task[t], reset) ELSE task[t]
      BY <2>1 DEF RetryAll, WriteAndRecalc
    <3> QED
      BY <2>1, <3>1 DEF OperatorMove
  <2>2. ASSUME NEW T \in SUBSET Task, NEW reset \in BOOLEAN, RetryTasks(T, reset)
        PROVE  OperatorMove(t)
    BY <2>1, <2>2 DEF RetryTasks, Retriable
  <2>3. ASSUME NEW j \in Job, NEW reset \in BOOLEAN, RetryFailedTasks(j, reset)
        PROVE  OperatorMove(t)
    <3> DEFINE T == InStatus(task, {j}, "failed")
    <3>1. T \in SUBSET Task /\ \A u \in T : task[u].status = "failed"
      BY DEF InStatus, TasksOf
    <3>2. RetryAll(T, reset, Reopened(j), {j})
      BY <2>3 DEF RetryFailedTasks
    <3> HIDE DEF T
    <3> QED
      BY <2>1, <3>1, <3>2
  <2>4. ASSUME NEW T \in SUBSET Task, BulkCancel(T)
        PROVE  OperatorMove(t)
    <3> DEFINE row(u) == [Settle(task[u], "cancelled") EXCEPT
                             !.owner = IF task[u].status = "running" THEN @ ELSE NoOwner]
    <3>1. /\ \A u \in T : task[u].status # Absent
          /\ task' = [u \in Task |-> IF u \in T THEN row(u) ELSE task[u]]
      BY <2>4 DEF BulkCancel, WriteAndRecalc
    <3>2. \E o \in {task[t].owner, NoOwner} : row(t) = [Settle(task[t], "cancelled") EXCEPT !.owner = o]
      <4>1. Settle(task[t], "cancelled").owner = task[t].owner
        BY <1>0 DEF Settle, TaskRow
      <4>2. CASE task[t].status = "running"
        BY <4>1, <4>2
      <4>3. CASE task[t].status # "running"
        BY <4>3
      <4> QED
        BY <4>2, <4>3
    <3> HIDE DEF row
    <3> QED
      BY <3>1, <3>2 DEF OperatorMove
  <2>5. ASSUME NEW j \in Job, NEW force \in BOOLEAN, CancelJob(j, force)
        PROVE  OperatorMove(t)
    <3> DEFINE now == force \/ InStatus(task, {j}, "running") = {}
               hit == InStatus(task, {j}, "queued")
                      \cup IF now THEN InStatus(task, {j}, "running") ELSE {}
    <3>1. task' = [u \in Task |-> IF u \in hit THEN Settle(task[u], "cancelled") ELSE task[u]]
      BY <2>5 DEF CancelJob, WriteAndRecalc
    <3>2. t \in hit => task[t].status # Absent
      BY DEF InStatus, Absent
    <3>3. Settle(task[t], "cancelled") = [Settle(task[t], "cancelled") EXCEPT !.owner = task[t].owner]
      BY <1>0 DEF Settle, TaskRow
    <3> HIDE DEF hit
    <3> QED
      BY <3>1, <3>2, <3>3 DEF OperatorMove
  <2>6. ASSUME NEW S \in SUBSET Session, RetentionCleanup(S)
        PROVE  OperatorMove(t)
    <3>1. /\ \A s \in S : session[s].status \in Settled
          /\ task'[t] = NoTask \/ task'[t] = task[t]
          /\ task'[t] # task[t] => SessionOf[JobOf[t]] \in S
      BY <2>6 DEF RetentionCleanup, TasksOf
    <3> QED
      BY <3>1 DEF OperatorMove
  <2>7. /\ \A j \in Job, paused \in BOOLEAN : SetJobPaused(j, paused) => OperatorMove(t)
        /\ \A s \in Session, paused \in BOOLEAN : SetSessionPaused(s, paused) => OperatorMove(t)
    BY DEF SetJobPaused, SetSessionPaused, OperatorMove
  <2> QED
    BY <2>2, <2>3, <2>4, <2>5, <2>6, <2>7 DEF OperatorStep
<1>10. CASE UNCHANGED vars
  BY <1>10 DEF vars, WorkMove
<1> QED
  BY <1>1, <1>2, <1>3, <1>4, <1>5, <1>6, <1>8, <1>9, <1>10 DEF Next, WorkerStep, RecoveryStep

-----------------------------------------------------------------------------
(* Leases: RunningIsRecoverable is inductive row by row.                    *)
Recoverable(row) ==
    /\ row.status = "running" <=> row.lease # "none"
    /\ row.status = "running" => row.owner # NoOwner /\ row.attempts > 0
    /\ row.status = "queued" => row.owner = NoOwner

LEMMA RecoverableRows ==
    ASSUME NEW a \in TaskRow, Recoverable(a)
    PROVE  /\ Recoverable(NoTask) /\ Recoverable(NewTask)
           /\ \A s \in Settled : /\ Recoverable(Settle(a, s))
                                 /\ \A o \in Executor \cup {NoOwner} :
                                       Recoverable([Settle(a, s) EXCEPT !.owner = o])
           /\ Recoverable(Requeue(a)) /\ Recoverable(ExpireRow(a))
           /\ \A e \in Executor : Recoverable(Handout(a, e)) /\ Recoverable(Handout(Requeue(a), e))
           /\ \A r \in BOOLEAN : Recoverable(RetryRow(a, r))
           /\ a.lease = "valid" => Recoverable([a EXCEPT !.lease = "lapsed"])
<1>1. Recoverable(NoTask) /\ Recoverable(NewTask)
  BY DEF Recoverable, NoTask, NewTask, Absent
<1>2. ASSUME NEW s \in Settled
      PROVE  /\ Recoverable(Settle(a, s))
             /\ \A o \in Executor \cup {NoOwner} : Recoverable([Settle(a, s) EXCEPT !.owner = o])
  BY DEF Recoverable, Settle, TaskRow, Settled
<1>3. Recoverable(Requeue(a))
  BY DEF Recoverable, Requeue, TaskRow
<1>4. Recoverable(ExpireRow(a))
  BY <1>2, <1>3 DEF ExpireRow, Settled
<1>5. ASSUME NEW e \in Executor, NEW b \in TaskRow
      PROVE  Recoverable(Handout(b, e))
  BY StoreAssumption DEF Recoverable, Handout, TaskRow
<1>6. ASSUME NEW r \in BOOLEAN
      PROVE  Recoverable(RetryRow(a, r))
  <2>1. Requeue(a) \in TaskRow /\ Requeue(a).status = "queued"
    BY RowTypes, RowStatus
  <2> QED
    BY <1>3, <2>1 DEF Recoverable, RetryRow, TaskRow
<1>7. a.lease = "valid" => Recoverable([a EXCEPT !.lease = "lapsed"])
  BY DEF Recoverable, TaskRow
<1>8. Requeue(a) \in TaskRow
  BY RowTypes
<1> QED
  BY <1>1, <1>2, <1>3, <1>4, <1>5, <1>6, <1>7, <1>8

LEMMA RecoverableInductive ==
    TypeOK /\ Exact /\ RunningIsRecoverable /\ [Next]_vars => RunningIsRecoverable'
<1> SUFFICES ASSUME TypeOK, Exact, RunningIsRecoverable, [Next]_vars, NEW t \in Task
             PROVE  Recoverable(task'[t])
  BY DEF RunningIsRecoverable, Recoverable
<1>1. task[t] \in TaskRow /\ Recoverable(task[t])
  BY DEF TypeOK, RunningIsRecoverable, Recoverable
<1>2. CASE WorkMove(t)
  BY <1>1, <1>2, RecoverableRows DEF WorkMove, Settled
<1>3. CASE OperatorMove(t)
  <2>1. task[t].owner \in Executor \cup {NoOwner} /\ ResetChoices \subseteq BOOLEAN
    BY <1>1, StoreAssumption DEF TaskRow
  <2> QED
    BY <1>1, <1>3, <2>1, RecoverableRows DEF OperatorMove, Settled
<1> QED
  BY <1>2, <1>3, StepMoves

(* A running task has an owner and an expiry time after any sequence of    *)
(* calls, so that losing its worker or the answer to its lease call never  *)
(* strands it; a task that is not running has no expiry time, so that      *)
(* recovery cannot touch it.                                               *)
THEOREM LostWorkIsRecoverable == Spec => []RunningIsRecoverable
<1>1. Init => RunningIsRecoverable
  BY DEF Init, NoTask, RunningIsRecoverable, Absent
<1> QED
  BY <1>1, RecoverableInductive, ExactInvariant, PTL DEF Spec

-----------------------------------------------------------------------------
(* The retry budget, likewise.                                             *)
InBudget(row) ==
    /\ row.attempts <= 1 + MaxRetries
    /\ row.status = "queued" => row.attempts <= MaxRetries

LEMMA BudgetRows ==
    ASSUME NEW a \in TaskRow, InBudget(a)
    PROVE  /\ InBudget(NoTask) /\ InBudget(NewTask)
           /\ \A s \in Settled : /\ InBudget(Settle(a, s))
                                 /\ \A o : InBudget([Settle(a, s) EXCEPT !.owner = o])
           /\ HasRetryLeft(a) => InBudget(Requeue(a))
           /\ InBudget(ExpireRow(a))
           /\ \A e : a.status = "queued" => InBudget(Handout(a, e))
           /\ \A e : HasRetryLeft(a) => InBudget(Handout(Requeue(a), e))
           /\ InBudget(RetryRow(a, TRUE))
           /\ InBudget([a EXCEPT !.lease = "lapsed"])
<1> USE StoreAssumption DEF InBudget, TaskRow
<1>1. InBudget(NoTask) /\ InBudget(NewTask)
  BY DEF NoTask, NewTask, Absent
<1>2. ASSUME NEW s \in Settled
      PROVE  InBudget(Settle(a, s)) /\ \A o : InBudget([Settle(a, s) EXCEPT !.owner = o])
  BY DEF Settle, Settled
<1>3. HasRetryLeft(a) => InBudget(Requeue(a))
  BY DEF Requeue, HasRetryLeft
<1>4. InBudget(ExpireRow(a))
  <2>1. CASE HasRetryLeft(a)
    BY <1>3, <2>1 DEF ExpireRow
  <2>2. CASE ~HasRetryLeft(a)
    BY <1>2, <2>2 DEF ExpireRow, Settled
  <2> QED
    BY <2>1, <2>2
<1>5. ASSUME NEW e, NEW b \in TaskRow, b.attempts <= MaxRetries
      PROVE  InBudget(Handout(b, e))
  BY <1>5 DEF Handout
<1>6. Requeue(a) \in TaskRow /\ Requeue(a).attempts = a.attempts
  BY RowTypes DEF Requeue
<1>7. HasRetryLeft(a) => a.attempts <= MaxRetries
  BY DEF HasRetryLeft
<1>8. InBudget(RetryRow(a, TRUE))
  BY <1>6 DEF RetryRow
<1>9. InBudget([a EXCEPT !.lease = "lapsed"])
  OBVIOUS
<1> QED
  BY <1>1, <1>2, <1>3, <1>4, <1>5, <1>6, <1>7, <1>8, <1>9

LEMMA BudgetInductive ==
    TypeOK /\ Exact /\ AttemptsBounded /\ [Next]_vars => AttemptsBounded'
<1> SUFFICES ASSUME TypeOK, Exact, AttemptsBounded, [Next]_vars, NEW t \in Task,
                    ResetChoices \subseteq {TRUE}
             PROVE  InBudget(task'[t])
  BY DEF AttemptsBounded, InBudget
<1>1. task[t] \in TaskRow /\ InBudget(task[t])
  BY DEF TypeOK, AttemptsBounded, InBudget
<1>2. CASE WorkMove(t)
  BY <1>1, <1>2, BudgetRows DEF WorkMove, Settled
<1>3. CASE OperatorMove(t)
  BY <1>1, <1>3, BudgetRows DEF OperatorMove, Settled
<1> QED
  BY <1>2, <1>3, StepMoves

(* As long as operators reset the attempts of what they retry, no task is  *)
(* handed out more than 1 + max_retries times, however reports, expiries   *)
(* and retries interleave.                                                 *)
THEOREM AttemptsStayInBudget == Spec => []AttemptsBounded
<1>1. Init => AttemptsBounded
  BY StoreAssumption DEF Init, NoTask, AttemptsBounded, Absent
<1> QED
  BY <1>1, BudgetInductive, ExactInvariant, PTL DEF Spec

-----------------------------------------------------------------------------
(* A settled task outlives reports: of the moves of a worker or a recovery *)
(* pass, none applies to it.                                               *)
THEOREM SettledTasksOutliveReports == Spec => SettledOutlivesReports
<1>1. TypeOK /\ Exact /\ RunningIsRecoverable /\ [Next]_vars =>
          [\A t \in Task :
              task[t].status \in Settled /\ job[JobOf[t]].status # "cancelled" =>
                  task'[t] = task[t] \/ OperatorStep]_vars
  <2> SUFFICES ASSUME TypeOK, Exact, RunningIsRecoverable, [Next]_vars, NEW t \in Task,
                      task[t].status \in Settled, job[JobOf[t]].status # "cancelled",
                      ~OperatorStep
               PROVE  task'[t] = task[t]
    OBVIOUS
  <2>1. WorkMove(t)
    BY StepMoves
  <2>2. task[t].status \notin {Absent, "queued", "running"}
    BY DEF Settled, Absent
  <2>3. task[t].lease = "none"
    BY <2>2 DEF RunningIsRecoverable
  <2> QED
    BY <2>1, <2>2, <2>3 DEF WorkMove
<1> QED
  BY <1>1, LostWorkIsRecoverable, ExactInvariant, PTL DEF Spec, SettledOutlivesReports

-----------------------------------------------------------------------------
(* Cancelled jobs: every call but submission and the operator's own         *)
(* commands recounts the row as it stands, and a recount keeps "cancelled". *)
LEMMA RecalcKeepsCancelled ==
    ASSUME NEW tk, NEW jb, NEW J, NEW j \in Job, jb[j].status = "cancelled"
    PROVE  RecalcJobs(tk, jb, J)[j].status = "cancelled"
BY DEF RecalcJobs, RecalcJob, NextJobStatus

LEMMA GrantKeepsCancelled ==
    ASSUME NEW T, NEW to, NEW stale, Grant(T, to, stale),
           NEW j \in Job, job[j].status = "cancelled"
    PROVE  job'[j].status = "cancelled"
<1> DEFINE jb == RecalcJobs(Expire(stale), job, JobsOf(stale))
<1>1. job' = MarkStartedJobs(jb, T)
  BY DEF Grant
<1>2. jb[j].status = "cancelled"
  BY RecalcKeepsCancelled
<1> HIDE DEF jb
<1> QED
  BY <1>1, <1>2 DEF MarkStartedJobs

LEMMA CancelledStep ==
    ASSUME TypeOK, [Next]_vars, NEW j \in Job, job[j].status = "cancelled"
    PROVE  job'[j].status \in {"cancelled", Absent}
<1>0. job \in [Job -> JobRow]
  BY DEF TypeOK
<1>1. ASSUME NEW tk, NEW jb, NEW J, WriteAndRecalc(tk, jb, J), jb[j] = job[j]
      PROVE  job'[j].status = "cancelled"
  <2>1. job' = RecalcJobs(task', jb, J)
    BY <1>1 DEF WriteAndRecalc
  <2> QED
    BY <1>1, <2>1, RecalcKeepsCancelled
<1>2. ASSUME NEW i \in Job, CreateJob(i)
      PROVE  job'[j] = job[j]
  <2>1. i # j
    BY <1>2 DEF CreateJob, Absent
  <2> QED
    BY <1>0, <1>2, <2>1 DEF CreateJob
<1>3. ASSUME WorkerStep
      PROVE  job'[j].status = "cancelled"
  <2>1. ASSUME NEW e \in Executor, LeaseTasks(e)
        PROVE  job'[j].status = "cancelled"
    BY <2>1, GrantKeepsCancelled DEF LeaseTasks
  <2>2. ASSUME LeaseForInstances(Executor)
        PROVE  job'[j].status = "cancelled"
    BY <2>2, GrantKeepsCancelled DEF LeaseForInstances
  <2>3. ASSUME NEW t \in Task, NEW e \in Executor, CompleteTask(t, e)
        PROVE  job'[j].status = "cancelled"
    <3>1. CASE KeptCancelled(t) \/ ResultIgnored(t, e)
      BY <1>1, <3>1 DEF KeptCancelled, ResultIgnored
    <3>2. CASE ResultAccepted(t, e)
      <4>1. JobOf[t] # j
        BY <3>2 DEF ResultAccepted
      <4>2. CASE job' = [job EXCEPT ![JobOf[t]] = MarkCompletedJob(@)]
        BY <1>0, <4>1, <4>2
      <4>3. CASE WriteAndRecalc([task EXCEPT ![t] = Settle(@, "succeeded")], job, {JobOf[t]})
        BY <1>1, <4>3
      <4> QED
        BY <3>2, <4>2, <4>3 DEF ResultAccepted
    <3> QED
      BY <2>3, <3>1, <3>2 DEF CompleteTask
  <2>4. ASSUME NEW t \in Task, NEW e \in Executor, FailTask(t, e)
        PROVE  job'[j].status = "cancelled"
    BY <1>1, <2>4 DEF FailTask
  <2> QED
    BY <1>3, <2>1, <2>2, <2>3, <2>4 DEF WorkerStep
<1>4. ASSUME RecoveryStep
      PROVE  job'[j].status = "cancelled"
  <2>1. (\E t \in Task : LeaseLapses(t)) => job' = job
    BY DEF LeaseLapses
  <2>2. RecoverExpiredLeases => job'[j].status = "cancelled"
    BY <1>1 DEF RecoverExpiredLeases
  <2>3. (\E recover \in BOOLEAN : Reconcile(recover)) => job'[j].status = "cancelled"
    BY RecalcKeepsCancelled DEF Reconcile
  <2> QED
    BY <1>4, <2>1, <2>2, <2>3 DEF RecoveryStep
<1>5. ASSUME OperatorStep
      PROVE  job'[j].status \in {"cancelled", Absent}
  <2>1. \A T \in SUBSET Task, reset \in BOOLEAN : RetryTasks(T, reset) => job'[j].status = "cancelled"
    BY <1>1 DEF RetryTasks, RetryAll
  <2>2. ASSUME NEW i \in Job, NEW reset \in BOOLEAN, RetryFailedTasks(i, reset)
        PROVE  job'[j].status = "cancelled"
    <3>1. i # j /\ RetryAll(InStatus(task, {i}, "failed"), reset, Reopened(i), {i})
      BY <2>2 DEF RetryFailedTasks
    <3>2. Reopened(i)[j] = job[j]
      BY <1>0, <3>1 DEF Reopened
    <3> QED
      BY <1>1, <3>1, <3>2 DEF RetryAll
  <2>3. \A T \in SUBSET Task : BulkCancel(T) => job'[j].status = "cancelled"
    BY <1>1 DEF BulkCancel
  <2>4. ASSUME NEW i \in Job, NEW force \in BOOLEAN, CancelJob(i, force)
        PROVE  job'[j].status = "cancelled"
    <3>1. i # j
      BY <2>4 DEF CancelJob, Settled
    <3>2. \E now : \E tk : WriteAndRecalc(tk, [job EXCEPT ![i].status = IF now THEN "cancelled" ELSE "cancelling",
                                                 ![i].finished = now], {i})
      BY <2>4 DEF CancelJob
    <3> QED
      BY <1>0, <1>1, <3>1, <3>2
  <2>5. ASSUME NEW i \in Job, NEW paused \in BOOLEAN, SetJobPaused(i, paused)
        PROVE  job'[j].status = "cancelled"
    BY <1>0, <2>5 DEF SetJobPaused, JobRow
  <2>6. \A s \in Session, paused \in BOOLEAN : SetSessionPaused(s, paused) => job' = job
    BY DEF SetSessionPaused
  <2>7. \A S \in SUBSET Session :
            RetentionCleanup(S) => job'[j] \in {NoJob, job[j]}
    BY DEF RetentionCleanup
  <2> QED
    BY <1>5, <2>1, <2>2, <2>3, <2>4, <2>5, <2>6, <2>7 DEF OperatorStep, NoJob
<1>6. CASE UNCHANGED vars
  BY <1>6 DEF vars
<1> QED
  BY <1>2, <1>3, <1>4, <1>5, <1>6 DEF Next

(* A cancelled job stays cancelled until retention deletes it: no report,  *)
(* recovery, retry or reconcile revives it.                                *)
THEOREM CancelledJobsStayCancelled == Spec => CancelledJobIsFinal
<1>1. TypeOK /\ [Next]_vars =>
          [\A j \in Job : job[j].status = "cancelled"
                            => job'[j].status \in {"cancelled", Absent}]_vars
  BY CancelledStep
<1> QED
  BY <1>1, TypeCorrect, PTL DEF Spec, CancelledJobIsFinal
=============================================================================
