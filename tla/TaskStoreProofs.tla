-------------------------- MODULE TaskStoreProofs --------------------------
(* Theorems about TaskStore, for every set of tasks, jobs, sessions and    *)
(* executors and every retry budget.                                       *)
EXTENDS TaskStore, RecountLemmas

-----------------------------------------------------------------------------
(* Type correctness.                                                       *)

LEMMA RowTypes ==
    ASSUME NEW row \in TaskRow
    PROVE  /\ \A s \in TaskStatus : Settle(row, s) \in TaskRow
           /\ Requeue(row) \in TaskRow
           /\ ExpireRow(row) \in TaskRow
           /\ \A e \in Executor : Handout(row, e) \in TaskRow
           /\ \A r \in BOOLEAN : RetryRow(row, r) \in TaskRow
<1>1. \A s \in TaskStatus : Settle(row, s) \in TaskRow
  BY DEF Settle, TaskRow
<1>2. Requeue(row) \in TaskRow
  BY DEF Requeue, TaskRow, TaskStatus, Live
<1>3. ExpireRow(row) \in TaskRow
  <2>1. Settle(row, "failed") \in TaskRow
    BY <1>1 DEF TaskStatus, Settled
  <2>2. [Settle(row, "failed") EXCEPT !.owner = NoOwner] \in TaskRow
    BY <2>1 DEF TaskRow
  <2> QED
    BY <1>2, <2>2 DEF ExpireRow
<1>4. ASSUME NEW e \in Executor
      PROVE  Handout(row, e) \in TaskRow
  <2>1. row.attempts + 1 \in Nat
    BY DEF TaskRow
  <2> QED
    BY <2>1 DEF Handout, TaskRow, TaskStatus, Live
<1>5. ASSUME NEW r \in BOOLEAN
      PROVE  RetryRow(row, r) \in TaskRow
  <2>1. (IF r THEN 0 ELSE Requeue(row).attempts) \in Nat
    BY <1>2 DEF TaskRow
  <2> QED
    BY <1>2, <2>1 DEF RetryRow, TaskRow
<1> QED
  BY <1>1, <1>2, <1>3, <1>4, <1>5

LEMMA EmptyRowTypes ==
    /\ NoTask \in TaskRow /\ NewTask \in TaskRow
    /\ NoJob \in JobRow /\ NoSession \in SessionRow
    /\ Stored(NoTally) \in StoredTally
BY DEF NoTask, NewTask, NoJob, NoSession, NoTally, Stored, TaskRow, JobRow, SessionRow,
       FullTally, StoredTally, TaskStatus, Live

LEMMA ExpireType ==
    ASSUME task \in [Task -> TaskRow], NEW T
    PROVE  Expire(T) \in [Task -> TaskRow]
BY RowTypes DEF Expire

LEMMA WriteAndRecalcType ==
    ASSUME TypeOK, NEW tk \in [Task -> TaskRow], NEW jb \in [Job -> JobRow], NEW J,
           WriteAndRecalc(tk, jb, J), UNCHANGED handed
    PROVE  TypeOK'
BY RecalcJobsType, RecalcSessionsType DEF TypeOK, WriteAndRecalc

LEMMA GrantType ==
    ASSUME TypeOK, NEW T \in SUBSET Task, NEW to \in [T -> Executor], NEW stale,
           Grant(T, to, stale)
    PROVE  TypeOK'
<1> DEFINE tk == Expire(stale)
           jb == RecalcJobs(tk, job, JobsOf(stale))
           se == RecalcSessions(tk, jb, session, SessionsOf(JobsOf(stale)))
<1>1. tk \in [Task -> TaskRow]
  BY ExpireType DEF TypeOK
<1>2. jb \in [Job -> JobRow]
  BY RecalcJobsType DEF TypeOK
<1>3. se \in [Session -> SessionRow]
  BY RecalcSessionsType DEF TypeOK
<1>4. /\ task' = [t \in Task |-> IF t \in T THEN Handout(tk[t], to[t]) ELSE tk[t]]
      /\ job' = MarkStartedJobs(jb, T)
      /\ session' = MarkStartedSessions(se, T)
      /\ handed' = handed \cup T
  BY DEF Grant
<1> HIDE DEF tk, jb, se
<1>5. task' \in [Task -> TaskRow]
  BY <1>1, <1>4, RowTypes
<1>6. job' \in [Job -> JobRow] /\ session' \in [Session -> SessionRow]
  BY <1>2, <1>3, <1>4, MarkStartedJobsType, MarkStartedSessionsType
<1> QED
  BY <1>4, <1>5, <1>6 DEF TypeOK

(* Every column keeps its type: TypeOK is inductive.                       *)
LEMMA TypeOKInductive == TypeOK /\ [Next]_vars => TypeOK'
<1> SUFFICES ASSUME TypeOK, [Next]_vars
             PROVE  TypeOK'
  OBVIOUS
<1> USE DEF TypeOK
<1>1. ASSUME NEW j \in Job, CreateJob(j)
      PROVE  TypeOK'
  <2> DEFINE s == SessionOf[j]
             mine == TasksOf({j})
             row == [NoJob EXCEPT !.status = "queued", !.total = Cardinality(mine)]
             se == IF session[s].status = Absent
                   THEN [session EXCEPT ![s] = [NoSession EXCEPT !.status = "queued"]]
                   ELSE session
  <2>1. Cardinality(mine) \in Nat
    BY TaskSubsetFinite DEF TasksOf
  <2>2. row \in JobRow
    BY <2>1, EmptyRowTypes DEF JobRow, JobStatus, TaskStatus, Live
  <2>3. [NoSession EXCEPT !.status = "queued"] \in SessionRow
    BY EmptyRowTypes DEF SessionRow, JobStatus, TaskStatus, Live
  <2>4. se \in [Session -> SessionRow]
    BY <2>3
  <2>5. /\ task' = [t \in Task |-> IF t \in mine THEN NewTask ELSE task[t]]
        /\ job' = [job EXCEPT ![j] = row]
        /\ session' = RecalcSessions(task', job', se, {s})
        /\ handed' = handed
    BY <1>1 DEF CreateJob
  <2> HIDE DEF mine, row, se
  <2>6. task' \in [Task -> TaskRow] /\ job' \in [Job -> JobRow]
    BY <2>2, <2>5, EmptyRowTypes
  <2>7. session' \in [Session -> SessionRow]
    BY <2>4, <2>5, RecalcSessionsType
  <2> QED
    BY <2>5, <2>6, <2>7
<1>2. ASSUME NEW e \in Executor, LeaseTasks(e)
      PROVE  TypeOK'
  <2>1. PICK T \in SUBSET Task, stale \in {{}, Stale} : Grant(T, [t \in T |-> e], stale)
    BY <1>2 DEF LeaseTasks
  <2> QED
    BY <2>1, GrantType
<1>3. ASSUME LeaseForInstances(Executor)
      PROVE  TypeOK'
  <2>0. PICK F \in SUBSET Executor : \E give \in [F -> Task], stale \in {{}, Stale} :
            Grant({give[e] : e \in F},
                  [t \in {give[e] : e \in F} |-> CHOOSE e \in F : give[e] = t], stale)
    BY <1>3 DEF LeaseForInstances
  <2>1. PICK give \in [F -> Task], stale \in {{}, Stale} :
            Grant({give[e] : e \in F},
                  [t \in {give[e] : e \in F} |-> CHOOSE e \in F : give[e] = t], stale)
    BY <2>0
  <2> DEFINE T == {give[e] : e \in F}
             to == [t \in T |-> CHOOSE e \in F : give[e] = t]
  <2>2. T \in SUBSET Task /\ to \in [T -> Executor]
    OBVIOUS
  <2> QED
    BY <2>1, <2>2, GrantType
<1>4. ASSUME NEW t \in Task, NEW e \in Executor, CompleteTask(t, e)
      PROVE  TypeOK'
  <2>1. /\ [task EXCEPT ![t] = Settle(@, "succeeded")] \in [Task -> TaskRow]
        /\ [task EXCEPT ![t] = Settle(@, "cancelled")] \in [Task -> TaskRow]
    BY RowTypes DEF TaskStatus, Settled
  <2>2. CASE KeptCancelled(t)
    BY <1>4, <2>1, <2>2, WriteAndRecalcType DEF KeptCancelled, CompleteTask
  <2>3. CASE ResultIgnored(t, e)
    BY <1>4, <2>3, WriteAndRecalcType DEF ResultIgnored, CompleteTask
  <2>4. CASE ResultAccepted(t, e)
    <3> DEFINE j == JobOf[t]
               tk == [task EXCEPT ![t] = Settle(@, "succeeded")]
    <3>1. CASE WriteAndRecalc(tk, job, {j})
      BY <1>4, <2>1, <3>1, WriteAndRecalcType DEF CompleteTask
    <3>2. CASE /\ task' = tk
               /\ job' = [job EXCEPT ![j] = MarkCompletedJob(@)]
               /\ session' = [session EXCEPT ![SessionOf[j]] = MarkCompletedSession(@)]
      <4>1. j \in Job /\ SessionOf[j] \in Session
        BY RowsAssumption
      <4>2. job' \in [Job -> JobRow] /\ session' \in [Session -> SessionRow]
        BY <3>2, <4>1, MarkCompletedType
      <4> QED
        BY <1>4, <2>1, <3>2, <4>2 DEF CompleteTask
    <3> QED
      BY <2>4, <3>1, <3>2 DEF ResultAccepted
  <2> QED
    BY <1>4, <2>2, <2>3, <2>4 DEF CompleteTask
<1>5. ASSUME NEW t \in Task, NEW e \in Executor, FailTask(t, e)
      PROVE  TypeOK'
  <2> DEFINE row == IF HasRetryLeft(task[t]) THEN Requeue(task[t])
                    ELSE [Settle(task[t], "failed") EXCEPT !.owner = e]
  <2>1. Settle(task[t], "failed") \in TaskRow
    BY RowTypes DEF TaskStatus, Settled
  <2>2. [Settle(task[t], "failed") EXCEPT !.owner = e] \in TaskRow
    BY <2>1 DEF TaskRow
  <2>3. row \in TaskRow
    BY <2>2, RowTypes
  <2>4. WriteAndRecalc([task EXCEPT ![t] = row], job, {JobOf[t]}) /\ UNCHANGED handed
    BY <1>5 DEF FailTask
  <2> HIDE DEF row
  <2>5. [task EXCEPT ![t] = row] \in [Task -> TaskRow]
    BY <2>3
  <2> QED
    BY <2>4, <2>5, WriteAndRecalcType
<1>6. ASSUME NEW t \in Task, LeaseLapses(t)
      PROVE  TypeOK'
  BY <1>6 DEF LeaseLapses, TaskRow
<1>7. ASSUME RecoverExpiredLeases
      PROVE  TypeOK'
  BY <1>7, ExpireType, WriteAndRecalcType DEF RecoverExpiredLeases
<1>8. ASSUME NEW recover \in BOOLEAN, Reconcile(recover)
      PROVE  TypeOK'
  <2>1. task' \in [Task -> TaskRow]
    BY <1>8, ExpireType DEF Reconcile
  <2>2. job' \in [Job -> JobRow] /\ session' \in [Session -> SessionRow]
    BY <1>8, RecalcJobsType, RecalcSessionsType DEF Reconcile
  <2> QED
    BY <1>8, <2>1, <2>2 DEF Reconcile
<1>9. ASSUME NEW T \in SUBSET Task, NEW reset \in BOOLEAN, NEW J,
             NEW jb \in [Job -> JobRow], RetryAll(T, reset, jb, J)
      PROVE  TypeOK'
  <2> DEFINE tk == [t \in Task |-> IF t \in T THEN RetryRow(task[t], reset) ELSE task[t]]
  <2>1. tk \in [Task -> TaskRow]
    BY RowTypes
  <2> QED
    BY <1>9, <2>1, WriteAndRecalcType DEF RetryAll
<1>16. \A T \in SUBSET Task, reset \in BOOLEAN : RetryTasks(T, reset) => TypeOK'
  BY <1>9 DEF RetryTasks
<1>17. ASSUME NEW j \in Job, NEW reset \in BOOLEAN, RetryFailedTasks(j, reset)
       PROVE  TypeOK'
  <2>1. Reopened(j) \in [Job -> JobRow]
    BY DEF Reopened, JobRow, JobStatus, TaskStatus, Live
  <2> QED
    BY <1>9, <1>17, <2>1 DEF RetryFailedTasks, InStatus, TasksOf
<1>10. ASSUME NEW T \in SUBSET Task, BulkCancel(T)
       PROVE  TypeOK'
  <2> DEFINE row(t) == [Settle(task[t], "cancelled") EXCEPT
                           !.owner = IF task[t].status = "running" THEN @ ELSE NoOwner]
             tk == [t \in Task |-> IF t \in T THEN row(t) ELSE task[t]]
  <2>1. ASSUME NEW t \in Task
        PROVE  row(t) \in TaskRow
    <3>1. Settle(task[t], "cancelled") \in TaskRow
      BY RowTypes DEF TaskStatus, Settled
    <3> QED
      BY <3>1 DEF TaskRow
  <2>2. WriteAndRecalc(tk, job, JobsOf(T)) /\ UNCHANGED handed
    BY <1>10 DEF BulkCancel
  <2> HIDE DEF row
  <2>3. tk \in [Task -> TaskRow]
    BY <2>1
  <2> QED
    BY <2>2, <2>3, WriteAndRecalcType
<1>11. ASSUME NEW j \in Job, NEW force \in BOOLEAN, CancelJob(j, force)
       PROVE  TypeOK'
  <2> DEFINE now == force \/ InStatus(task, {j}, "running") = {}
             hit == InStatus(task, {j}, "queued")
                    \cup IF now THEN InStatus(task, {j}, "running") ELSE {}
             tk == [t \in Task |-> IF t \in hit THEN Settle(task[t], "cancelled") ELSE task[t]]
             jb == [job EXCEPT ![j].status = IF now THEN "cancelled" ELSE "cancelling",
                               ![j].finished = now]
  <2>1. WriteAndRecalc(tk, jb, {j}) /\ UNCHANGED handed
    BY <1>11 DEF CancelJob
  <2>2. tk \in [Task -> TaskRow]
    BY RowTypes DEF TaskStatus, Settled
  <2>3. jb \in [Job -> JobRow]
    <3>1. CASE now
      <4>1. jb = [job EXCEPT ![j].status = "cancelled", ![j].finished = TRUE]
        BY <3>1
      <4> QED
        BY <4>1 DEF JobRow, JobStatus, TaskStatus, Settled
    <3>2. CASE ~now
      <4>1. jb = [job EXCEPT ![j].status = "cancelling", ![j].finished = FALSE]
        BY <3>2
      <4> QED
        BY <4>1 DEF JobRow, JobStatus
    <3> QED
      BY <3>1, <3>2
  <2> HIDE DEF tk, jb
  <2> QED
    BY <2>1, <2>2, <2>3, WriteAndRecalcType
<1>12. ASSUME NEW j \in Job, NEW paused \in BOOLEAN, SetJobPaused(j, paused)
       PROVE  TypeOK'
  BY <1>12 DEF SetJobPaused, JobRow
<1>13. ASSUME NEW s \in Session, NEW paused \in BOOLEAN, SetSessionPaused(s, paused)
       PROVE  TypeOK'
  BY <1>13 DEF SetSessionPaused, SessionRow
<1>14. ASSUME NEW S \in SUBSET Session, RetentionCleanup(S)
       PROVE  TypeOK'
  BY <1>14, EmptyRowTypes DEF RetentionCleanup
<1>15. CASE UNCHANGED vars
  BY <1>15 DEF vars
<1> QED
  BY <1>1, <1>2, <1>3, <1>4, <1>5, <1>6, <1>7, <1>8, <1>10, <1>11, <1>12, <1>13,
     <1>14, <1>15, <1>16, <1>17
  DEF Next, WorkerStep, RecoveryStep, OperatorStep

(* Every column of every row always has its type, whatever calls arrive.   *)
THEOREM TypeCorrect == Spec => []TypeOK
<1>1. Init => TypeOK
  BY EmptyRowTypes DEF Init, TypeOK
<1> QED
  BY <1>1, TypeOKInductive, PTL DEF Spec
-----------------------------------------------------------------------------
(* Exact counters.  The invariant needs one more fact than the property:   *)
(* a task row never outlives its job row, nor a job row its session row    *)
(* (the foreign keys), so that a patched row is one that is there.         *)
Exact ==
    /\ JobExact(task, job)
    /\ SessionExact(task, job, session)
    /\ Linked(task, job, session)

(* Every call that ends in a recount of the jobs it touched.               *)
LEMMA WriteAndRecalcExact ==
    ASSUME TypeOK, Exact, NEW tk, NEW jb \in [Job -> JobRow], NEW J \in SUBSET Job,
           \A t \in Task : JobOf[t] \notin J => tk[t].status = task[t].status,
           \A t \in Task : tk[t].status = Absent <=> task[t].status = Absent,
           \A j \in Job : j \notin J => jb[j] = job[j],
           \A j \in Job : jb[j].status = Absent <=> job[j].status = Absent,
           WriteAndRecalc(tk, jb, J)
    PROVE  Exact'
<1> DEFINE jb2 == RecalcJobs(tk, jb, J)
           se2 == RecalcSessions(tk, jb2, session, SessionsOf(J))
<1>1. JobExact(tk, jb2) /\ SessionExact(tk, jb2, se2) /\ Linked(tk, jb2, se2)
  BY RecalcExact DEF TypeOK, Exact
<1>2. task' = tk /\ job' = jb2 /\ session' = se2
  BY DEF WriteAndRecalc
<1> HIDE DEF jb2, se2
<1> QED
  BY <1>1, <1>2 DEF Exact, JobExact, SessionExact, Linked

(* What the row operators write to the status column.                      *)
LEMMA RowStatus ==
    ASSUME NEW row \in TaskRow
    PROVE  /\ \A s \in TaskStatus : Settle(row, s).status = s
           /\ Requeue(row).status = "queued"
           /\ ExpireRow(row).status \in {"queued", "failed"}
           /\ \A e : Handout(row, e).status = "running"
           /\ \A r \in BOOLEAN : RetryRow(row, r).status = "queued"
<1>1. /\ \A s \in TaskStatus : Settle(row, s).status = s
      /\ Requeue(row).status = "queued"
      /\ \A e : Handout(row, e).status = "running"
  BY DEF Settle, Requeue, Handout, TaskRow
<1>2. Settle(row, "failed") \in TaskRow /\ Settle(row, "failed").status = "failed"
  BY <1>1, RowTypes DEF TaskStatus, Settled
<1>3. ExpireRow(row).status \in {"queued", "failed"}
  BY <1>1, <1>2 DEF ExpireRow, TaskRow
<1>4. \A r \in BOOLEAN : RetryRow(row, r).status = "queued"
  BY <1>1, RowTypes DEF RetryRow, TaskRow
<1> QED
  BY <1>1, <1>3, <1>4

(* Expiry touches running tasks only, and leaves a row for each.           *)
LEMMA ExpireStatus ==
    ASSUME TypeOK, NEW T \in {{}, Stale}
    PROVE  /\ T \in SUBSET Task /\ JobsOf(T) \in SUBSET Job
           /\ \A t \in Task : JobOf[t] \notin JobsOf(T) => Expire(T)[t].status = task[t].status
           /\ \A t \in Task : Expire(T)[t].status = Absent <=> task[t].status = Absent
<1>1. T \in SUBSET Task /\ \A t \in T : task[t].status = "running"
  BY DEF Stale
<1>2. JobsOf(T) \in SUBSET Job
  BY <1>1, RowsAssumption DEF JobsOf
<1>3. \A t \in Task : t \notin T => Expire(T)[t] = task[t]
  BY DEF Expire
<1>4. \A t \in Task : t \in T => Expire(T)[t].status \in {"queued", "failed"}
  BY RowStatus DEF Expire, TypeOK
<1>5. \A t \in T : JobOf[t] \in JobsOf(T)
  BY DEF JobsOf
<1> QED
  BY <1>1, <1>2, <1>3, <1>4, <1>5 DEF Absent

(* A lease: one recount for the expired tasks, then patched counters.      *)
LEMMA GrantExact ==
    ASSUME TypeOK, Exact, NEW T \in SUBSET Task, NEW to \in [T -> Executor],
           NEW stale \in {{}, Stale}, Grant(T, to, stale)
    PROVE  Exact'
<1> DEFINE tk == Expire(stale)
           jb == RecalcJobs(tk, job, JobsOf(stale))
           se == RecalcSessions(tk, jb, session, SessionsOf(JobsOf(stale)))
<1>1. tk \in [Task -> TaskRow] /\ jb \in [Job -> JobRow] /\ se \in [Session -> SessionRow]
  BY ExpireType, RecalcJobsType, RecalcSessionsType DEF TypeOK
<1>2. JobExact(tk, jb) /\ SessionExact(tk, jb, se) /\ Linked(tk, jb, se)
  BY ExpireStatus, RecalcExact DEF TypeOK, Exact
<1>3. /\ T \subseteq Eligible(tk, jb, se)
      /\ task' = [t \in Task |-> IF t \in T THEN Handout(tk[t], to[t]) ELSE tk[t]]
      /\ job' = MarkStartedJobs(jb, T)
      /\ session' = MarkStartedSessions(se, T)
  BY DEF Grant
<1> HIDE DEF tk, jb, se
<1>4. \A t \in T : tk[t].status = "queued"
  BY <1>3 DEF Eligible
<1>5. \A t \in Task : task'[t].status = IF t \in T THEN "running" ELSE tk[t].status
  BY <1>1, <1>3, RowStatus
<1>6. JobExact(task', job') /\ SessionExact(task', job', session') /\ Linked(task', job', session')
  BY <1>1, <1>2, <1>3, <1>4, <1>5, StartedExact
<1> QED
  BY <1>6 DEF Exact, JobExact, SessionExact, Linked

(* Submission: the new job row already carries the counts of its tasks.    *)
LEMMA CreateJobExact ==
    ASSUME TypeOK, Exact, NEW j \in Job, CreateJob(j)
    PROVE  Exact'
<1> DEFINE s == SessionOf[j]
           mine == TasksOf({j})
           row == [NoJob EXCEPT !.status = "queued", !.total = Cardinality(mine)]
           tk == [t \in Task |-> IF t \in mine THEN NewTask ELSE task[t]]
           jb == [job EXCEPT ![j] = row]
           se == IF session[s].status = Absent
                 THEN [session EXCEPT ![s] = [NoSession EXCEPT !.status = "queued"]]
                 ELSE session
           se2 == RecalcSessions(tk, jb, se, {s})
<1>1. /\ job[j].status = Absent
      /\ task' = tk /\ job' = jb /\ session' = se2
  BY DEF CreateJob
<1>2. s \in Session /\ job \in [Job -> JobRow] /\ session \in [Session -> SessionRow]
  BY RowsAssumption DEF TypeOK
<1>3. /\ row.status = "queued" /\ row.total = Cardinality(mine)
      /\ row.count = [succeeded |-> 0, failed |-> 0, cancelled |-> 0]
  BY DEF NoJob, NoTally, Stored
<1>4. /\ \A t \in mine : tk[t].status = "queued"
      /\ \A t \in Task : t \notin mine => tk[t] = task[t]
      /\ mine \in SUBSET Task
      /\ \A t \in Task : t \in mine <=> JobOf[t] = j
  BY DEF NewTask, NoTask, TasksOf
<1>5. ASSUME NEW i \in Job, jb[i].status # Absent
      PROVE  jb[i].total = CountRows(tk, {i}) /\ jb[i].count = Stored(Tally(tk, {i}))
  <2>1. CASE i = j
    <3>1. /\ {t \in TasksOf({i}) : tk[t].status # Absent} = mine
          /\ \A st \in Settled : InStatus(tk, {i}, st) = {}
      BY <1>4, <2>1 DEF InStatus, Settled, Absent
    <3>2. /\ Cardinality(InStatus(tk, {i}, "succeeded")) = 0
          /\ Cardinality(InStatus(tk, {i}, "failed")) = 0
          /\ Cardinality(InStatus(tk, {i}, "cancelled")) = 0
      BY <3>1, FS_EmptySet DEF Settled
    <3>3. Stored(Tally(tk, {i})) = [succeeded |-> 0, failed |-> 0, cancelled |-> 0]
      BY <3>2 DEF Stored, Tally
    <3>4. jb[i] = row
      BY <1>2, <2>1
    <3> QED
      BY <1>3, <3>1, <3>3, <3>4 DEF CountRows
  <2>2. CASE i # j
    <3>1. jb[i] = job[i]
      BY <2>2
    <3>2. \A t \in TasksOf({i}) : tk[t].status = task[t].status
      BY <1>4, <2>2 DEF TasksOf
    <3>3. Tally(tk, {i}) = Tally(task, {i}) /\ CountRows(tk, {i}) = CountRows(task, {i})
      BY <3>2, SameTally
    <3> QED
      BY <1>5, <3>1, <3>3 DEF Exact, JobExact
  <2> QED
    BY <2>1, <2>2
<1>6. /\ \A t \in Task : SessionOf[JobOf[t]] \notin {s} => tk[t].status = task[t].status
      /\ \A i \in Job : SessionOf[i] \notin {s} =>
            (jb[i].status = Absent <=> job[i].status = Absent)
      /\ \A r \in Session : r \notin {s} => se[r] = session[r]
  BY <1>4
<1>7. /\ se[s].status # Absent
      /\ \A r \in Session : session[r].status # Absent => se[r].status # Absent
  BY <1>2 DEF NoSession, Absent
<1>8. \A i \in Job : jb[i].status = Absent <=> (i # j /\ job[i].status = Absent)
  BY <1>2, <1>3 DEF Absent
<1> HIDE DEF row, jb, tk, se
<1>9. SessionExact(tk, jb, se2)
  BY <1>6, SessionsRecounted DEF Exact
<1>10. Linked(tk, jb, se2)
  <2>1. \A r \in Session : se2[r].status = Absent <=> se[r].status = Absent
    BY RecalcKeepsSessions
  <2>2. \A t \in Task : tk[t].status = Absent <=> jb[JobOf[t]].status = Absent
    BY <1>4, <1>8, RowsAssumption DEF Exact, Linked, Absent
  <2>3. \A i \in Job : jb[i].status # Absent => se[SessionOf[i]].status # Absent
    BY <1>7, <1>8, RowsAssumption DEF Exact, Linked
  <2> HIDE DEF se2
  <2> QED
    BY <2>1, <2>2, <2>3, RowsAssumption DEF Linked
<1>11. JobExact(tk, jb)
  BY <1>5 DEF JobExact
<1> QED
  BY <1>1, <1>9, <1>10, <1>11 DEF Exact, JobExact, SessionExact, Linked

(* The manager restarts, or an operator asks for a full recount.           *)
LEMMA ReconcileExact ==
    ASSUME TypeOK, Exact, NEW recover \in BOOLEAN, Reconcile(recover)
    PROVE  Exact'
<1> DEFINE tk == IF recover THEN Expire(Stale) ELSE task
           jb == RecalcJobs(tk, job, Job)
           se == RecalcSessions(tk, jb, session, Session)
<1>1. task' = tk /\ job' = jb /\ session' = se
  BY DEF Reconcile
<1>2. \A t \in Task : tk[t].status = Absent <=> task[t].status = Absent
  BY ExpireStatus
<1>3. JobExact(tk, jb)
  BY JobsRecounted, RowsAssumption DEF Exact
<1>4. /\ \A j \in Job : jb[j].status = Absent <=> job[j].status = Absent
      /\ \A s \in Session : se[s].status = Absent <=> session[s].status = Absent
  BY RecalcKeepsJobs, RecalcKeepsSessions DEF TypeOK
<1> HIDE DEF tk, jb
<1>5. SessionExact(tk, jb, se)
  BY <1>4, SessionsRecounted, RowsAssumption DEF Exact
<1> HIDE DEF se
<1>6. Linked(tk, jb, se)
  BY <1>2, <1>4, RowsAssumption DEF Exact, Linked
<1> QED
  BY <1>1, <1>3, <1>5, <1>6 DEF Exact, JobExact, SessionExact, Linked

(* Retention deletes whole sessions.                                       *)
LEMMA RetentionExact ==
    ASSUME TypeOK, Exact, NEW S \in SUBSET Session, RetentionCleanup(S)
    PROVE  Exact'
<1>1. /\ \A t \in Task : IF SessionOf[JobOf[t]] \in S THEN task'[t].status = Absent
                         ELSE task'[t] = task[t]
      /\ \A j \in Job : IF SessionOf[j] \in S THEN job'[j].status = Absent
                        ELSE job'[j] = job[j]
      /\ \A s \in Session : IF s \in S THEN session'[s].status = Absent
                            ELSE session'[s] = session[s]
  BY RowsAssumption DEF RetentionCleanup, TasksOf, NoTask, NoJob, NoSession
<1>2. ASSUME NEW j \in Job, job'[j].status # Absent
      PROVE  job'[j].total = CountRows(task', {j}) /\ job'[j].count = Stored(Tally(task', {j}))
  <2>1. job'[j] = job[j] /\ SessionOf[j] \notin S
    BY <1>1, <1>2
  <2>2. \A t \in TasksOf({j}) : task'[t].status = task[t].status
    BY <1>1, <2>1 DEF TasksOf
  <2>3. Tally(task', {j}) = Tally(task, {j}) /\ CountRows(task', {j}) = CountRows(task, {j})
    BY <2>2, SameTally
  <2> QED
    BY <1>2, <2>1, <2>3 DEF Exact, JobExact
<1>3. ASSUME NEW s \in Session, session'[s].status # Absent
      PROVE  /\ session'[s].jobs = Cardinality(JobRowsIn(job', s))
             /\ session'[s].total = CountRows(task', JobRowsIn(job', s))
             /\ session'[s].count = Tally(task', JobRowsIn(job', s))
  <2> DEFINE J == JobRowsIn(job, s)
  <2>1. session'[s] = session[s] /\ s \notin S
    BY <1>1, <1>3
  <2>2. JobRowsIn(job', s) = J
    BY <1>1, <2>1 DEF JobRowsIn
  <2>3. \A t \in TasksOf(J) : task'[t].status = task[t].status
    BY <1>1, <2>1 DEF TasksOf, JobRowsIn
  <2>4. Tally(task', J) = Tally(task, J) /\ CountRows(task', J) = CountRows(task, J)
    BY <2>3, SameTally
  <2>5. /\ session[s].jobs = Cardinality(J)
        /\ session[s].total = CountRows(task, J)
        /\ session[s].count = Tally(task, J)
    BY <1>3, <2>1 DEF Exact, SessionExact
  <2> HIDE DEF J
  <2> QED
    BY <2>1, <2>2, <2>4, <2>5
<1>4. /\ \A t \in Task : task'[t].status = Absent <=> job'[JobOf[t]].status = Absent
      /\ \A j \in Job : job'[j].status # Absent => session'[SessionOf[j]].status # Absent
  BY <1>1, RowsAssumption DEF Exact, Linked, Absent
<1> QED
  BY <1>2, <1>3, <1>4 DEF Exact, JobExact, SessionExact, Linked

LEMMA ExactInductive == TypeOK /\ Exact /\ [Next]_vars => Exact'
<1> SUFFICES ASSUME TypeOK, Exact, [Next]_vars
             PROVE  Exact'
  OBVIOUS
<1>0. /\ job \in [Job -> JobRow]
      /\ \A t \in Task : JobOf[t] \in Job /\ {JobOf[t]} \in SUBSET Job
      /\ \A T \in SUBSET Task : JobsOf(T) \in SUBSET Job /\ \A t \in T : JobOf[t] \in JobsOf(T)
  BY RowsAssumption DEF JobsOf, TypeOK
<1>1. ASSUME NEW j \in Job, CreateJob(j)
      PROVE  Exact'
  BY <1>1, CreateJobExact
<1>2. ASSUME NEW e \in Executor, LeaseTasks(e)
      PROVE  Exact'
  <2>1. PICK T \in SUBSET Task, stale \in {{}, Stale} : Grant(T, [t \in T |-> e], stale)
    BY <1>2 DEF LeaseTasks
  <2> QED
    BY <2>1, GrantExact
<1>3. ASSUME LeaseForInstances(Executor)
      PROVE  Exact'
  <2>0. PICK F \in SUBSET Executor : \E give \in [F -> Task], stale \in {{}, Stale} :
            Grant({give[e] : e \in F},
                  [t \in {give[e] : e \in F} |-> CHOOSE e \in F : give[e] = t], stale)
    BY <1>3 DEF LeaseForInstances
  <2>1. PICK give \in [F -> Task], stale \in {{}, Stale} :
            Grant({give[e] : e \in F},
                  [t \in {give[e] : e \in F} |-> CHOOSE e \in F : give[e] = t], stale)
    BY <2>0
  <2> DEFINE T == {give[e] : e \in F}
             to == [t \in T |-> CHOOSE e \in F : give[e] = t]
  <2>2. T \in SUBSET Task /\ to \in [T -> Executor]
    OBVIOUS
  <2> QED
    BY <2>1, <2>2, GrantExact
<1>4. ASSUME NEW t \in Task, NEW e \in Executor, CompleteTask(t, e)
      PROVE  Exact'
  <2>1. CASE ResultIgnored(t, e)
    BY <1>0, <2>1, WriteAndRecalcExact DEF ResultIgnored
  <2>2. CASE KeptCancelled(t)
    <3> DEFINE tk == [task EXCEPT ![t] = Settle(@, "cancelled")]
    <3>1. tk[t].status = "cancelled" /\ \A u \in Task : u # t => tk[u] = task[u]
      BY RowStatus DEF TypeOK, TaskStatus, Settled
    <3>2. task[t].status # Absent
      BY <1>0, <2>2 DEF KeptCancelled, Exact, Linked, Absent
    <3> HIDE DEF tk
    <3>3. WriteAndRecalc(tk, job, {JobOf[t]})
      BY <2>2 DEF KeptCancelled, tk
    <3> QED
      BY <1>0, <3>1, <3>2, <3>3, WriteAndRecalcExact DEF Absent
  <2>3. CASE ResultAccepted(t, e)
    <3> DEFINE j == JobOf[t]
               tk == [task EXCEPT ![t] = Settle(@, "succeeded")]
    <3>1. tk[t].status = "succeeded" /\ \A u \in Task : u # t => tk[u] = task[u]
      BY RowStatus DEF TypeOK, TaskStatus, Settled
    <3>2. task[t].status = "running"
      BY <2>3 DEF ResultAccepted, OwnedBy
    <3>3. CASE WriteAndRecalc(tk, job, {j})
      <4> HIDE DEF tk
      <4> QED
        BY <1>0, <3>1, <3>2, <3>3, WriteAndRecalcExact DEF Absent
    <3>4. CASE /\ task' = tk
               /\ job' = [job EXCEPT ![j] = MarkCompletedJob(@)]
               /\ session' = [session EXCEPT ![SessionOf[j]] = MarkCompletedSession(@)]
      <4>1. \A u \in Task : tk[u].status = IF u = t THEN "succeeded" ELSE task[u].status
        BY <3>1
      <4> HIDE DEF tk
      <4>2. /\ JobExact(tk, [job EXCEPT ![j] = MarkCompletedJob(@)])
            /\ SessionExact(tk, [job EXCEPT ![j] = MarkCompletedJob(@)],
                            [session EXCEPT ![SessionOf[j]] = MarkCompletedSession(@)])
            /\ Linked(tk, [job EXCEPT ![j] = MarkCompletedJob(@)],
                      [session EXCEPT ![SessionOf[j]] = MarkCompletedSession(@)])
        BY <3>2, <4>1, CompletedExact DEF TypeOK, Exact
      <4> QED
        BY <3>4, <4>2 DEF Exact, JobExact, SessionExact, Linked
    <3> QED
      BY <2>3, <3>3, <3>4 DEF ResultAccepted
  <2> QED
    BY <1>4, <2>1, <2>2, <2>3 DEF CompleteTask
<1>5. ASSUME NEW t \in Task, NEW e \in Executor, FailTask(t, e)
      PROVE  Exact'
  <2> DEFINE row == IF HasRetryLeft(task[t]) THEN Requeue(task[t])
                    ELSE [Settle(task[t], "failed") EXCEPT !.owner = e]
             tk == [task EXCEPT ![t] = row]
  <2>1. row.status # Absent
    <3>1. Requeue(task[t]).status = "queued" /\ Settle(task[t], "failed").status = "failed"
      BY RowStatus DEF TypeOK, TaskStatus, Settled
    <3> QED
      BY <3>1 DEF Absent, Settle
  <2>2. task[t].status # Absent
    BY <1>5 DEF FailTask, OwnedBy, Absent
  <2>3. WriteAndRecalc(tk, job, {JobOf[t]})
    BY <1>5 DEF FailTask
  <2> HIDE DEF row
  <2>4. tk[t] = row /\ \A u \in Task : u # t => tk[u] = task[u]
    BY DEF TypeOK
  <2> HIDE DEF tk
  <2> QED
    BY <1>0, <2>1, <2>2, <2>3, <2>4, WriteAndRecalcExact
<1>6. ASSUME NEW t \in Task, LeaseLapses(t)
      PROVE  Exact'
  <2>1. job' = job /\ session' = session /\ \A u \in Task : task'[u].status = task[u].status
    BY <1>6 DEF LeaseLapses, TypeOK, TaskRow
  <2>2. JobExact(task', job') /\ SessionExact(task', job', session') /\ Linked(task', job', session')
    BY <2>1, UntouchedExact DEF Exact
  <2> QED
    BY <2>2 DEF Exact, JobExact, SessionExact, Linked
<1>7. ASSUME RecoverExpiredLeases
      PROVE  Exact'
  BY <1>0, <1>7, ExpireStatus, WriteAndRecalcExact DEF RecoverExpiredLeases
<1>8. ASSUME NEW recover \in BOOLEAN, Reconcile(recover)
      PROVE  Exact'
  BY <1>8, ReconcileExact
<1>9. ASSUME NEW T \in SUBSET Task, NEW reset \in BOOLEAN, NEW J \in SUBSET Job,
             NEW jb \in [Job -> JobRow], RetryAll(T, reset, jb, J),
             \A t \in T : task[t].status \in {"failed", "cancelled"} /\ JobOf[t] \in J,
             \A j \in Job : j \notin J => jb[j] = job[j],
             \A j \in Job : jb[j].status = Absent <=> job[j].status = Absent
      PROVE  Exact'
  <2> DEFINE tk == [t \in Task |-> IF t \in T THEN RetryRow(task[t], reset) ELSE task[t]]
  <2>1. \A t \in T : tk[t].status = "queued"
    BY RowStatus DEF TypeOK
  <2>2. \A t \in Task : t \notin T => tk[t] = task[t]
    OBVIOUS
  <2>3. WriteAndRecalc(tk, jb, J)
    BY <1>9 DEF RetryAll
  <2> HIDE DEF tk
  <2>4. /\ \A t \in Task : JobOf[t] \notin J => tk[t].status = task[t].status
        /\ \A t \in Task : tk[t].status = Absent <=> task[t].status = Absent
    BY <1>9, <2>1, <2>2 DEF Absent
  <2>5. \A j \in Job : /\ j \notin J => jb[j] = job[j]
                      /\ jb[j].status = Absent <=> job[j].status = Absent
    BY <1>9
  <2> QED
    BY <1>0, <1>9, <2>3, <2>4, <2>5, WriteAndRecalcExact
<1>10. ASSUME NEW T \in SUBSET Task, BulkCancel(T)
       PROVE  Exact'
  <2> DEFINE row(t) == [Settle(task[t], "cancelled") EXCEPT
                           !.owner = IF task[t].status = "running" THEN @ ELSE NoOwner]
             tk == [t \in Task |-> IF t \in T THEN row(t) ELSE task[t]]
  <2>1. \A t \in T : row(t).status = "cancelled"
    BY RowStatus DEF TypeOK, TaskStatus, Settled, Settle
  <2>2. WriteAndRecalc(tk, job, JobsOf(T)) /\ \A t \in T : task[t].status # Absent
    BY <1>10 DEF BulkCancel
  <2> HIDE DEF row
  <2>3. \A t \in Task : tk[t] = IF t \in T THEN row(t) ELSE task[t]
    OBVIOUS
  <2> HIDE DEF tk
  <2> QED
    BY <1>0, <2>1, <2>2, <2>3, WriteAndRecalcExact DEF Absent
<1>11. ASSUME NEW j \in Job, NEW force \in BOOLEAN, CancelJob(j, force)
       PROVE  Exact'
  <2> DEFINE now == force \/ InStatus(task, {j}, "running") = {}
             hit == InStatus(task, {j}, "queued")
                    \cup IF now THEN InStatus(task, {j}, "running") ELSE {}
             tk == [t \in Task |-> IF t \in hit THEN Settle(task[t], "cancelled") ELSE task[t]]
             jb == [job EXCEPT ![j].status = IF now THEN "cancelled" ELSE "cancelling",
                               ![j].finished = now]
  <2>1. WriteAndRecalc(tk, jb, {j}) /\ job[j].status # Absent
    BY <1>11 DEF CancelJob
  <2>2. /\ \A t \in hit : /\ tk[t].status = "cancelled" /\ task[t].status # Absent
                          /\ JobOf[t] = j
        /\ \A t \in Task : t \notin hit => tk[t] = task[t]
    BY RowStatus DEF TypeOK, TaskStatus, Settled, InStatus, TasksOf, Absent
  <2>3. jb[j].status # Absent /\ \A i \in Job : i # j => jb[i] = job[i]
    BY DEF TypeOK, JobRow, Absent
  <2>4. jb \in [Job -> JobRow]
    <3>1. CASE now
      <4>1. jb = [job EXCEPT ![j].status = "cancelled", ![j].finished = TRUE]
        BY <3>1
      <4> QED
        BY <1>0, <4>1 DEF JobRow, JobStatus, TaskStatus, Settled
    <3>2. CASE ~now
      <4>1. jb = [job EXCEPT ![j].status = "cancelling", ![j].finished = FALSE]
        BY <3>2
      <4> QED
        BY <1>0, <4>1 DEF JobRow, JobStatus
    <3> QED
      BY <3>1, <3>2
  <2> HIDE DEF tk, jb, hit
  <2> QED
    BY <2>1, <2>2, <2>3, <2>4, WriteAndRecalcExact DEF Absent
<1>12. ASSUME NEW j \in Job, NEW paused \in BOOLEAN, SetJobPaused(j, paused)
       PROVE  Exact'
  <2>1. /\ task' = task /\ session' = session
        /\ \A i \in Job : /\ job'[i].status = job[i].status
                          /\ job'[i].total = job[i].total
                          /\ job'[i].count = job[i].count
    BY <1>12 DEF SetJobPaused, TypeOK, JobRow
  <2>2. JobExact(task', job') /\ SessionExact(task', job', session') /\ Linked(task', job', session')
    BY <2>1, UntouchedExact DEF Exact
  <2> QED
    BY <2>2 DEF Exact, JobExact, SessionExact, Linked
<1>13. ASSUME NEW s \in Session, NEW paused \in BOOLEAN, SetSessionPaused(s, paused)
       PROVE  Exact'
  <2>1. /\ task' = task /\ job' = job
        /\ \A r \in Session : /\ session'[r].status = session[r].status
                              /\ session'[r].jobs = session[r].jobs
                              /\ session'[r].total = session[r].total
                              /\ session'[r].count = session[r].count
    BY <1>13 DEF SetSessionPaused, TypeOK, SessionRow
  <2>2. JobExact(task', job') /\ SessionExact(task', job', session') /\ Linked(task', job', session')
    BY <2>1, UntouchedExact DEF Exact
  <2> QED
    BY <2>2 DEF Exact, JobExact, SessionExact, Linked
<1>14. ASSUME NEW S \in SUBSET Session, RetentionCleanup(S)
       PROVE  Exact'
  BY <1>14, RetentionExact
<1>15. CASE UNCHANGED vars
  BY <1>15 DEF vars, Exact, JobExact, SessionExact, Linked
<1>16. ASSUME NEW T \in SUBSET Task, NEW reset \in BOOLEAN, RetryTasks(T, reset)
       PROVE  Exact'
  <2>1. JobsOf(T) \in SUBSET Job /\ \A t \in T : JobOf[t] \in JobsOf(T)
    BY RowsAssumption DEF JobsOf
  <2> QED
    BY <1>0, <1>9, <1>16, <2>1 DEF RetryTasks, Retriable, TypeOK
<1>17. ASSUME NEW j \in Job, NEW reset \in BOOLEAN, RetryFailedTasks(j, reset)
       PROVE  Exact'
  <2> DEFINE T == InStatus(task, {j}, "failed")
  <2>1. T \in SUBSET Task /\ \A t \in T : task[t].status = "failed" /\ JobOf[t] \in {j}
    BY DEF InStatus, TasksOf
  <2>2. RetryAll(T, reset, Reopened(j), {j})
    BY <1>17 DEF RetryFailedTasks
  <2>3. T # {}
    BY <2>2 DEF RetryAll
  <2>4. job[j].status # Absent
    BY <1>0, <2>1, <2>3 DEF Exact, Linked, Absent
  <2>5. /\ Reopened(j) \in [Job -> JobRow]
        /\ \A i \in Job : i \notin {j} => Reopened(j)[i] = job[i]
        /\ Reopened(j)[j].status = "queued"
    BY <1>0 DEF TypeOK, Reopened, JobRow, JobStatus, TaskStatus, Live
  <2> HIDE DEF T
  <2> QED
    BY <1>0, <1>9, <2>1, <2>2, <2>4, <2>5 DEF Absent
<1> QED
  BY <1>1, <1>2, <1>3, <1>4, <1>5, <1>6, <1>7, <1>8, <1>10, <1>11, <1>12, <1>13,
     <1>14, <1>15, <1>16, <1>17
  DEF Next, WorkerStep, RecoveryStep, OperatorStep

LEMMA ExactInvariant == Spec => [](TypeOK /\ Exact)
<1>1. Init => TypeOK
  BY EmptyRowTypes DEF Init, TypeOK
<1>2. Init => Exact
  <2> SUFFICES ASSUME Init PROVE Exact
    OBVIOUS
  <2>1. /\ \A t \in Task : task[t].status = Absent
        /\ \A j \in Job : job[j].status = Absent
        /\ \A s \in Session : session[s].status = Absent
    BY DEF Init, NoTask, NoJob, NoSession
  <2> QED
    BY <2>1, RowsAssumption DEF Exact, JobExact, SessionExact, Linked
<1> QED
  BY <1>1, <1>2, TypeOKInductive, ExactInductive, PTL DEF Spec

(* A job row's counters always equal a recount of its tasks: the patches   *)
(* of the lease and the completion path never drift, in any interleaving   *)
(* with recovery, retries, cancels, cleanup and reconcile.                 *)
THEOREM JobCountersCorrect == Spec => []JobCountersExact
<1>1. Exact => JobCountersExact
  BY DEF Exact, JobExact, JobCountersExact
<1> QED
  BY <1>1, ExactInvariant, PTL

(* The same for the counters of a session row.                             *)
THEOREM SessionCountersCorrect == Spec => []SessionCountersExact
<1>1. Exact => SessionCountersExact
  BY DEF Exact, SessionExact, SessionCountersExact, JobsIn
<1> QED
  BY <1>1, ExactInvariant, PTL
=============================================================================
