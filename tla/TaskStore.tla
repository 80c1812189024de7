----------------------------- MODULE TaskStore -----------------------------
(***************************************************************************)
(* The manager's durable state (core.py over SQLite): task, job and        *)
(* session rows, and every call that changes them.  Each call runs in one  *)
(* BEGIN IMMEDIATE transaction, so an action is a whole call, and calls of *)
(* workers, operators and clients interleave in any order.                 *)
(*                                                                         *)
(* Which queued task a lease picks (priority, tags, task types, candidate  *)
(* window) and which worker may lease (disable, drain) is left open: a     *)
(* lease takes any eligible tasks.  A manager restart changes no row; the  *)
(* reconcile pass it runs is Reconcile.                                    *)
(***************************************************************************)
EXTENDS Recount

CONSTANTS Executor,      \* executor_id(worker, instance) values
          NodeOf,        \* the bare worker_id an executor reports under
          NoOwner,       \* assigned_worker_id IS NULL
          MaxRetries,    \* tasks.max_retries
          LeaseLimit,    \* the most tasks one lease call asks for
          Command,       \* operator commands this instance may issue
          ResetChoices,  \* reset_attempts values operators pass to a retry
          AttemptCap     \* bound: no retry without reset at or above it

ASSUME StoreAssumption ==
    /\ NodeOf \in [Executor -> Executor]
    /\ NoOwner \notin Executor
    /\ MaxRetries \in Nat
    /\ LeaseLimit \in Nat \ {0}
    /\ ResetChoices \subseteq BOOLEAN
    /\ AttemptCap \in Nat

VARIABLES
    task,       \* task rows: status, attempts, owner, lease
    job,        \* job rows (see Recount)
    session,    \* session rows (see Recount)
    handed      \* tasks some executor was ever given: it may report at any
                \* later moment, any number of times

vars == <<task, job, session, handed>>

(* lease is "none" (lease_expires_at IS NULL), "valid" or "lapsed".         *)
NoTask == [status |-> Absent, attempts |-> 0, owner |-> NoOwner, lease |-> "none"]
NewTask == [NoTask EXCEPT !.status = "queued"]

NoTally == [queued |-> 0, running |-> 0, succeeded |-> 0, failed |-> 0, cancelled |-> 0]
NoJob == [status |-> Absent, total |-> 0, count |-> Stored(NoTally),
          paused |-> FALSE, finished |-> FALSE]
NoSession == [status |-> Absent, jobs |-> 0, total |-> 0, count |-> NoTally,
              paused |-> FALSE, finished |-> FALSE]

Init ==
    /\ task = [t \in Task |-> NoTask]
    /\ job = [j \in Job |-> NoJob]
    /\ session = [s \in Session |-> NoSession]
    /\ handed = {}

-----------------------------------------------------------------------------
(* Every slow path ends like this: the task rows are written, then         *)
(* recalc_job runs for the jobs in J, which recalculates their sessions.   *)
WriteAndRecalc(tk, jb, J) ==
    /\ task' = tk
    /\ job' = RecalcJobs(task', jb, J)
    /\ session' = RecalcSessions(task', job', session, SessionsOf(J))

Settle(row, status) == [row EXCEPT !.status = status, !.lease = "none"]
(* Mutant: a requeued task keeps its expiry time.                           *)
MutKeepsLease(row) == [row EXCEPT !.status = "queued", !.owner = NoOwner]
Requeue(row) == [row EXCEPT !.status = "queued", !.owner = NoOwner, !.lease = "none"]
(* Mutant: off by one.                                                      *)
MutOneMore(row) == row.attempts <= 1 + MaxRetries
HasRetryLeft(row) == row.attempts < 1 + MaxRetries

-----------------------------------------------------------------------------
(* create_job: a new job with its tasks, in a new or an existing session   *)
(* of any status.                                                          *)
CreateJob(j) ==
    LET s == SessionOf[j]
        mine == TasksOf({j})
        tk == [t \in Task |-> IF t \in mine THEN NewTask ELSE task[t]]
        jb == [job EXCEPT ![j] = [NoJob EXCEPT !.status = "queued",
                                               !.total = Cardinality(mine)]]
        se == IF session[s].status = Absent
              THEN [session EXCEPT ![s] = [NoSession EXCEPT !.status = "queued"]]
              ELSE session
    IN  /\ job[j].status = Absent
        /\ task' = tk
        /\ job' = jb
        /\ session' = RecalcSessions(task', job', se, {s})
        /\ UNCHANGED handed

-----------------------------------------------------------------------------
(* Leases.                                                                 *)

(* Mutant: recovery skips tasks that have no retry left.                    *)
MutOnlyRetriable == {t \in Task : /\ task[t].status = "running" /\ task[t].lease = "lapsed"
                                 /\ HasRetryLeft(task[t])}
Stale == {t \in Task : task[t].status = "running" /\ task[t].lease = "lapsed"}

(* The row updates of expire_stale_tasks; the recalc_job calls follow.      *)
(* Mutant: an expired lease always requeues.                                *)
MutAlwaysRequeue(row) == Requeue(row)
ExpireRow(row) ==
    IF HasRetryLeft(row) THEN Requeue(row)
    ELSE [Settle(row, "failed") EXCEPT !.owner = NoOwner]
Expire(T) == [t \in Task |-> IF t \in T THEN ExpireRow(task[t]) ELSE task[t]]

(* The WHERE clause of both lease queries.                                 *)
Eligible(tk, jb, se) ==
    {t \in Task : /\ tk[t].status = "queued"
                  /\ jb[JobOf[t]].status \notin {"cancelled", "cancelling"}
                  /\ ~jb[JobOf[t]].paused
                  /\ ~se[SessionOf[JobOf[t]]].paused}

Handout(row, e) == [row EXCEPT !.status = "running", !.attempts = @ + 1,
                               !.owner = e, !.lease = "valid"]

(* One lease transaction: expire the tasks in stale (all stale ones, or    *)
(* none when the recovery throttle is on), then hand the tasks of T to the *)
(* executors to[t].                                                        *)
Grant(T, to, stale) ==
    LET tk == Expire(stale)
        jb == RecalcJobs(tk, job, JobsOf(stale))
        se == RecalcSessions(tk, jb, session, SessionsOf(JobsOf(stale)))
    IN  /\ T \subseteq Eligible(tk, jb, se)
        /\ task' = [t \in Task |-> IF t \in T THEN Handout(tk[t], to[t]) ELSE tk[t]]
        /\ job' = MarkStartedJobs(jb, T)
        /\ session' = MarkStartedSessions(se, T)
        /\ handed' = handed \cup T

(* lease_tasks: up to LeaseLimit tasks for one executor.                   *)
LeaseTasks(e) ==
    \E T \in SUBSET Task, stale \in {{}, Stale} :
        /\ Cardinality(T) <= LeaseLimit
        /\ Grant(T, [t \in T |-> e], stale)

(* lease_tasks_for_instances: at most one task for each executor asked for.*)
(* (The code asks for instances of one node only; a lease by the bare node *)
(* is a lease_tasks anyway, so nothing is added by allowing it here.)      *)
LeaseForInstances(E) ==
    \E F \in SUBSET E : \E give \in [F -> Task], stale \in {{}, Stale} :
        /\ \A e, f \in F : give[e] = give[f] => e = f
        /\ LET T == {give[e] : e \in F}
           IN  Grant(T, [t \in T |-> CHOOSE e \in F : give[e] = t], stale)

(* The clock passes lease_expires_at.                                      *)
LeaseLapses(t) ==
    /\ task[t].lease = "valid"
    /\ task' = [task EXCEPT ![t].lease = "lapsed"]
    /\ UNCHANGED <<job, session, handed>>

(* recover_expired_leases: a maintenance call.                             *)
RecoverExpiredLeases ==
    /\ Stale # {}
    /\ WriteAndRecalc(Expire(Stale), job, JobsOf(Stale))
    /\ UNCHANGED handed

(* reconcile_manager_state: at manager start, or by an operator.           *)
Reconcile(recover) ==
    /\ task' = IF recover THEN Expire(Stale) ELSE task
    /\ job' = RecalcJobs(task', job, Job)
    /\ session' = RecalcSessions(task', job', session, Session)
    /\ UNCHANGED handed

-----------------------------------------------------------------------------
(* Reports.  A report carries the task id and the executor that speaks,    *)
(* nothing else: no lease or attempt number.                               *)

(* Mutant: the owner may report although the task no longer runs.           *)
MutAnyStatus(t, e) == task[t].owner \in {e, NodeOf[e]}
OwnedBy(t, e) == task[t].status = "running" /\ task[t].owner \in {e, NodeOf[e]}

(* complete_task, branch by branch.  An ignored result still recounts.     *)
KeptCancelled(t) ==
    /\ job[JobOf[t]].status = "cancelled"
    /\ WriteAndRecalc([task EXCEPT ![t] = Settle(@, "cancelled")], job, {JobOf[t]})

ResultAccepted(t, e) ==
    LET j == JobOf[t]
        s == SessionOf[j]
        tk == [task EXCEPT ![t] = Settle(@, "succeeded")]
    IN  /\ job[j].status # "cancelled"
        /\ OwnedBy(t, e)
        /\ IF job[j].status = "cancelling"
           THEN WriteAndRecalc(tk, job, {j})
           ELSE /\ task' = tk
                /\ job' = [job EXCEPT ![j] = MarkCompletedJob(@)]
                /\ session' = [session EXCEPT ![s] = MarkCompletedSession(@)]

ResultIgnored(t, e) ==
    /\ job[JobOf[t]].status # "cancelled"
    /\ ~OwnedBy(t, e)
    /\ WriteAndRecalc(task, job, {JobOf[t]})

CompleteTask(t, e) ==
    /\ t \in handed
    /\ KeptCancelled(t) \/ ResultAccepted(t, e) \/ ResultIgnored(t, e)
    /\ UNCHANGED handed

(* fail_task.  A failure that is not the owner's changes nothing.          *)
FailTask(t, e) ==
    /\ t \in handed
    /\ OwnedBy(t, e)
    /\ LET row == IF HasRetryLeft(task[t]) THEN Requeue(task[t])
                  ELSE [Settle(task[t], "failed") EXCEPT !.owner = e]
       IN  WriteAndRecalc([task EXCEPT ![t] = row], job, {JobOf[t]})
    /\ UNCHANGED handed

-----------------------------------------------------------------------------
(* Operator commands.                                                      *)

Retriable(t) ==
    /\ task[t].status \in {"failed", "cancelled"}
    /\ job[JobOf[t]].status \notin {"cancelled", "cancelling"}
RetryRow(row, reset) == [Requeue(row) EXCEPT !.attempts = IF reset THEN 0 ELSE @]

(* The tasks of T go back to the queue and the jobs in J are recounted.    *)
RetryAll(T, reset, jb, J) ==
    /\ T # {}
    /\ reset \in ResetChoices
    /\ reset \/ \A t \in T : task[t].attempts < AttemptCap      \* bound
    /\ WriteAndRecalc([t \in Task |-> IF t \in T THEN RetryRow(task[t], reset) ELSE task[t]],
                      jb, J)
    /\ UNCHANGED handed

(* retry_task, and bulk_update_tasks(action="retry") over any selection;   *)
(* the bulk call skips what is not Retriable.  retry_task also sets the    *)
(* status of a settled job to queued: a job with a queued task is not      *)
(* settled, so the recount gives the same row.                             *)
RetryTasks(T, reset) ==
    /\ "retry" \in Command
    /\ \A t \in T : Retriable(t)
    /\ RetryAll(T, reset, job, JobsOf(T))

(* retry_failed_tasks: the job is set to queued before the recount.         *)
Reopened(j) == [job EXCEPT ![j].status = "queued", ![j].finished = FALSE]
(* Mutant: the status of the job is not looked at.                          *)
MutReopensAny(j, reset) ==
    "retry" \in Command /\ RetryAll(InStatus(task, {j}, "failed"), reset, Reopened(j), {j})
RetryFailedTasks(j, reset) ==
    /\ "retry" \in Command
    /\ job[j].status \notin {"cancelled", "cancelling"}
    /\ RetryAll(InStatus(task, {j}, "failed"), reset, Reopened(j), {j})

(* bulk_update_tasks(action="cancel"): any selection of existing tasks,    *)
(* whatever their status, when the caller names it.                        *)
BulkCancel(T) ==
    /\ "bulk" \in Command
    /\ T # {}
    /\ \A t \in T : task[t].status # Absent
    /\ WriteAndRecalc(
           [t \in Task |->
               IF t \in T
               THEN [Settle(task[t], "cancelled") EXCEPT
                        !.owner = IF task[t].status = "running" THEN @ ELSE NoOwner]
               ELSE task[t]],
           job, JobsOf(T))
    /\ UNCHANGED handed

(* cancel_job: queued tasks are cancelled; running ones too when the       *)
(* command is forced, otherwise the job waits for them in "cancelling".    *)
CancelJob(j, force) ==
    LET now == force \/ InStatus(task, {j}, "running") = {}
        hit == InStatus(task, {j}, "queued")
               \cup IF now THEN InStatus(task, {j}, "running") ELSE {}
        tk == [t \in Task |-> IF t \in hit THEN Settle(task[t], "cancelled") ELSE task[t]]
        jb == [job EXCEPT ![j].status = IF now THEN "cancelled" ELSE "cancelling",
                          ![j].finished = now]
    IN  /\ "cancel" \in Command
        /\ job[j].status \notin Settled \cup {Absent}
        /\ WriteAndRecalc(tk, jb, {j})
        /\ UNCHANGED handed

(* set_job_paused and set_session_paused.                                  *)
SetJobPaused(j, paused) ==
    /\ "pause" \in Command
    /\ job[j].status \notin Settled \cup {Absent}
    /\ job' = [job EXCEPT ![j].paused = paused]
    /\ UNCHANGED <<task, session, handed>>

SetSessionPaused(s, paused) ==
    /\ "pause" \in Command
    /\ session[s].status \notin Settled \cup {Absent}
    /\ session' = [session EXCEPT ![s].paused = paused]
    /\ UNCHANGED <<task, job, handed>>

(* apply_retention_cleanup: the terminal sessions in S are old enough.     *)
(* Deleting a session's jobs cascades to their tasks.  The deleted ids are *)
(* free to stand for new rows; a report on an old id finds no task.        *)
RetentionCleanup(S) ==
    LET goneJobs == {j \in Job : SessionOf[j] \in S}
        gone == TasksOf(goneJobs)
    IN  /\ "retention" \in Command
        /\ S # {}
        /\ \A s \in S : session[s].status \in Settled
        /\ task' = [t \in Task |-> IF t \in gone THEN NoTask ELSE task[t]]
        /\ job' = [j \in Job |-> IF j \in goneJobs THEN NoJob ELSE job[j]]
        /\ session' = [s \in Session |-> IF s \in S THEN NoSession ELSE session[s]]
        /\ handed' = handed \ gone

-----------------------------------------------------------------------------
WorkerStep ==
    \/ \E e \in Executor : LeaseTasks(e)
    \/ LeaseForInstances(Executor)
    \/ \E t \in Task, e \in Executor : CompleteTask(t, e) \/ FailTask(t, e)

RecoveryStep ==
    \/ \E t \in Task : LeaseLapses(t)
    \/ RecoverExpiredLeases
    \/ \E recover \in BOOLEAN : Reconcile(recover)

OperatorStep ==
    \/ \E T \in SUBSET Task, reset \in BOOLEAN : RetryTasks(T, reset)
    \/ \E j \in Job, reset \in BOOLEAN : RetryFailedTasks(j, reset)
    \/ \E T \in SUBSET Task : BulkCancel(T)
    \/ \E j \in Job, force \in BOOLEAN : CancelJob(j, force)
    \/ \E j \in Job, paused \in BOOLEAN : SetJobPaused(j, paused)
    \/ \E s \in Session, paused \in BOOLEAN : SetSessionPaused(s, paused)
    \/ \E S \in SUBSET Session : RetentionCleanup(S)

Next ==
    \/ \E j \in Job : CreateJob(j)
    \/ WorkerStep
    \/ RecoveryStep
    \/ OperatorStep

Spec == Init /\ [][Next]_vars

(* The clock runs, and some worker keeps polling: every poll that finds    *)
(* nothing to do is a stutter, so a fair poll is one that expires a lapsed *)
(* lease or hands a task out whenever it could.  Nothing is assumed of     *)
(* reports (workers may die silently) or of clients and operators.         *)
(* The second conjunct is WF_vars of a poll, with its ENABLED spelled out. *)
LeaseUseful == Stale # {} \/ Eligible(task, job, session) # {}
FairSpec ==
    /\ Spec
    /\ \A t \in Task : WF_vars(LeaseLapses(t))
    /\ []<>~LeaseUseful \/ []<><<\E e \in Executor : LeaseTasks(e)>>_vars

-----------------------------------------------------------------------------
(* Type invariant: every row of the three tables has the columns the       *)
(* schema and the code give it.                                            *)
TaskRow == [status : TaskStatus \cup {Absent}, attempts : Nat,
            owner : Executor \cup {NoOwner}, lease : {"none", "valid", "lapsed"}]

TypeOK ==
    /\ task \in [Task -> TaskRow]
    /\ job \in [Job -> JobRow]
    /\ session \in [Session -> SessionRow]
    /\ handed \subseteq Task

JobsIn(s) == JobRowsIn(job, s)

(* The denormalised counters of a job row always equal a recount of its    *)
(* task rows, although a lease and an accepted result patch them instead   *)
(* of recounting ("denormalized counters remain safe", core.py:566-573).   *)
JobCountersExact ==
    \A j \in Job : job[j].status # Absent =>
        /\ job[j].total = CountRows(task, {j})
        /\ job[j].count = Stored(Tally(task, {j}))

(* The same for a session row, whose queued and running counters are also  *)
(* patched by every lease.                                                 *)
SessionCountersExact ==
    \A s \in Session : session[s].status # Absent =>
        /\ session[s].jobs = Cardinality(JobsIn(s))
        /\ session[s].total = CountRows(task, JobsIn(s))
        /\ session[s].count = Tally(task, JobsIn(s))

(* A job that a client sees as finished has no task that could still run,  *)
(* and its finished_at is set exactly then; so waiting on the job row is   *)
(* enough to know that no further result will come.                        *)
FinishedJobIsQuiet ==
    \A j \in Job :
        /\ job[j].status \in Settled => \A t \in TasksOf({j}) : task[t].status \notin Live
        /\ job[j].finished <=> job[j].status \in Settled

(* A session row is terminal exactly when it has tasks and all of them are *)
(* settled, whatever mix of leases, reports, recoveries and operator calls *)
(* led there: session waits end, and end in time.                          *)
SessionSettlesWithItsTasks ==
    \A s \in Session : session[s].status # Absent =>
        LET mine == {t \in TasksOf(JobsIn(s)) : task[t].status # Absent}
        IN  /\ session[s].status \in Settled
                <=> mine # {} /\ \A t \in mine : task[t].status \in Settled
            /\ session[s].finished <=> session[s].status \in Settled

(* What each job status promises about the task rows.  "running" promises  *)
(* nothing here: see RunningJobHasWork.                                    *)
JobStatusSound ==
    \A j \in Job :
        LET n == Tally(task, {j})
            live == n.queued + n.running
        IN  /\ job[j].status = "succeeded" => n.succeeded = job[j].total
            /\ job[j].status = "failed" => live = 0 /\ n.failed > 0
            /\ job[j].status = "cancelling" => n.running > 0
            /\ job[j].status = "queued" => live = job[j].total - n.cancelled
                                           /\ n.running = 0

(* A running task always has an owner and an expiry time, so a lost worker *)
(* is always recoverable; a task that is not running never has an expiry   *)
(* time, so recovery can never requeue settled or queued work.             *)
RunningIsRecoverable ==
    \A t \in Task :
        /\ task[t].status = "running" <=> task[t].lease # "none"
        /\ task[t].status = "running" => task[t].owner # NoOwner /\ task[t].attempts > 0
        /\ task[t].status = "queued" => task[t].owner = NoOwner

(* With retries that reset the attempts, no sequence of failures, expiries *)
(* and retries runs a task more often than 1 + max_retries times in a row. *)
AttemptsBounded ==
    ResetChoices \subseteq {TRUE} =>
        \A t \in Task : /\ task[t].attempts <= 1 + MaxRetries
                        /\ task[t].status = "queued" => task[t].attempts <= MaxRetries

-----------------------------------------------------------------------------
(* A cancelled job stays cancelled until retention deletes it: no report,  *)
(* recovery, retry or reconcile revives it.                                *)
CancelledJobIsFinal ==
    [][\A j \in Job : job[j].status = "cancelled"
                        => job'[j].status \in {"cancelled", Absent}]_vars

(* Only operators reopen or rewrite a settled task of a job that is not    *)
(* cancelled: no lease, late report, duplicate report, expiry or reconcile *)
(* changes its row.                                                        *)
SettledOutlivesReports ==
    [][\A t \in Task :
          task[t].status \in Settled /\ job[JobOf[t]].status # "cancelled" =>
              task'[t] = task[t] \/ OperatorStep]_vars

(* As long as operators retry finitely often, a task that is queued or     *)
(* running ends up settled, or is held by a pause: no lost report, dead    *)
(* worker, expired lease or cancel strands it.                             *)
Held(t) == job[JobOf[t]].paused \/ session[SessionOf[JobOf[t]]].paused
EveryTaskSettles ==
    \A t \in Task : task[t].status \in Live ~> (task[t].status \in Settled \/ Held(t))

-----------------------------------------------------------------------------
(* Seen one task at a time, the store keeps the promises of TaskLifecycle: *)
(* a result only from a running attempt, failure only with the budget      *)
(* spent, no live task deleted, one attempt per lease.                     *)
Lifecycle == INSTANCE TaskLifecycle WITH
    row <- [t \in Task |-> [status |-> task[t].status,
                           attempts |-> task[t].attempts,
                           owner |-> task[t].owner]]
ImplementsLifecycle == Lifecycle!Spec

-----------------------------------------------------------------------------
(* Claims of the repository that the code does not keep.                   *)

(* "Done" is reached once every task is settled (README.md, docs/API.md).  *)
RunningJobHasWork ==
    \A j \in Job : job[j].status = "running" =>
        \E t \in TasksOf({j}) : task[t].status \in Live

(* cancel_job's docstring and README.md: the job stays in "cancelling"      *)
(* until its running tasks finish; it never goes back to work.             *)
CancellingIsNotRevoked ==
    [][\A j \in Job : job[j].status = "cancelling"
                        => job'[j].status \notin {"queued", "running"}]_vars

(* "Late or duplicate worker results after recovery are ignored"           *)
(* (docs/API.md): a settled task is never rewritten by a worker's report.  *)
LateResultsIgnored ==
    [][\A t \in Task :
          task[t].status \in Settled =>
              task'[t] = task[t] \/ ~\E e \in Executor : CompleteTask(t, e)]_vars
=============================================================================
