------------------------------ MODULE Recount ------------------------------
(***************************************************************************)
(* How the manager derives a job row and a session row from the task rows. *)
(* core.py keeps both denormalised: recalc_job and recalc_session count    *)
(* the task rows afresh, while the two "incremental" helpers patch the     *)
(* stored numbers on the lease and the completion path.  Everything here   *)
(* is a pure function of rows, so that one transaction can chain several.  *)
(*                                                                         *)
(* A row is a record.  A row that is not in its table has status Absent.   *)
(***************************************************************************)
EXTENDS Integers, FiniteSets

CONSTANTS Task, Job, Session,   \* identifiers of rows
          JobOf,                \* tasks.job_id: fixed when the row is inserted
          SessionOf             \* jobs.session_id, likewise

ASSUME RowsAssumption ==
    /\ IsFiniteSet(Task)
    /\ IsFiniteSet(Job)
    /\ JobOf \in [Task -> Job]
    /\ SessionOf \in [Job -> Session]

Live == {"queued", "running"}
Settled == {"succeeded", "failed", "cancelled"}
TaskStatus == Live \cup Settled
JobStatus == TaskStatus \cup {"cancelling"}
Absent == "absent"

FullTally == [queued : Nat, running : Nat, succeeded : Nat, failed : Nat, cancelled : Nat]
StoredTally == [succeeded : Nat, failed : Nat, cancelled : Nat]
JobRow == [status : JobStatus \cup {Absent}, total : Nat, count : StoredTally,
           paused : BOOLEAN, finished : BOOLEAN]
SessionRow == [status : JobStatus \cup {Absent}, jobs : Nat, total : Nat,
               count : FullTally, paused : BOOLEAN, finished : BOOLEAN]

TasksOf(J) == {t \in Task : JobOf[t] \in J}
JobsOf(T) == {JobOf[t] : t \in T}
SessionsOf(J) == {SessionOf[j] : j \in J}

(* The SELECT COUNT(...), SUM(CASE ...) over the tasks of the jobs in J.    *)
InStatus(tk, J, s) == {t \in TasksOf(J) : tk[t].status = s}
Tally(tk, J) == [queued |-> Cardinality(InStatus(tk, J, "queued")),
                 running |-> Cardinality(InStatus(tk, J, "running")),
                 succeeded |-> Cardinality(InStatus(tk, J, "succeeded")),
                 failed |-> Cardinality(InStatus(tk, J, "failed")),
                 cancelled |-> Cardinality(InStatus(tk, J, "cancelled"))]
(* A job row stores three of them.                                          *)
Stored(n) == [succeeded |-> n.succeeded, failed |-> n.failed, cancelled |-> n.cancelled]
CountRows(tk, J) == Cardinality({t \in TasksOf(J) : tk[t].status # Absent})

(* The if/elif chain shared by recalc_job and _session_status_from_counts. *)
Ladder(total, n) ==
    LET over == /\ n.queued = 0
                /\ n.running = 0
                /\ n.succeeded + n.failed + n.cancelled = total
    IN  CASE n.succeeded = total -> "succeeded"
          [] n.succeeded # total /\ over /\ n.failed > 0 -> "failed"
          [] n.succeeded # total /\ over /\ n.failed <= 0 /\ n.cancelled > 0 -> "cancelled"
          [] OTHER -> IF n.running > 0 \/ n.succeeded > 0 \/ n.failed > 0
                      THEN "running" ELSE "queued"

-----------------------------------------------------------------------------
(* Job rows: status, total_tasks, the three stored counters, paused, and   *)
(* whether finished_at is set.                                             *)

(* Mutant: a cancelling job never ends.                                     *)
MutWaitsForever(status, total, n) ==
    IF status \in {"cancelled", "cancelling"} THEN status ELSE Ladder(total, n)

NextJobStatus(status, total, n) ==
    IF status = "cancelled" \/ (status = "cancelling" /\ n.running > 0)
    THEN status
    ELSE Ladder(total, n)       \* total = 0 is "succeeded", as in the code

(* Mutant: finished_at is not cleared when a job is reopened.               *)
MutKeepsFinishedAt(tk, row, j) ==
    LET n == Tally(tk, {j})
        total == CountRows(tk, {j})
        status == NextJobStatus(row.status, total, n)
    IN  [row EXCEPT !.status = status, !.total = total, !.count = Stored(n),
                    !.finished = @ \/ (status \in Settled /\ status # row.status)]

RecalcJob(tk, row, j) ==
    LET n == Tally(tk, {j})
        total == CountRows(tk, {j})
        status == NextJobStatus(row.status, total, n)
    IN  [status |-> status, total |-> total, count |-> Stored(n), paused |-> row.paused,
         finished |-> status \in Settled /\ (row.finished \/ status # row.status)]

(* recalc_job for every job of J.  The code calls it once per touched task *)
(* or job, each call recounting rows the transaction has already written.  *)
(* One recount over the final rows gives the same result: an earlier call  *)
(* can only see more running tasks, so it neither ends a "cancelling" job  *)
(* nor reaches the sticky status "cancelled" before the last one.          *)
RecalcJobs(tk, jb, J) ==
    [j \in Job |-> IF j \in J /\ jb[j].status # Absent
                   THEN RecalcJob(tk, jb[j], j)
                   ELSE jb[j]]

-----------------------------------------------------------------------------
(* Session rows: status, total_jobs, total_tasks, all five counters,       *)
(* paused, and whether finished_at is set.                                 *)

NextSessionStatus(total, n, cancelling) ==
    CASE total = 0 -> "queued"
      [] total # 0 /\ cancelling /\ n.running > 0 -> "cancelling"
      [] OTHER -> Ladder(total, n)

JobRowsIn(jb, s) == {j \in Job : SessionOf[j] = s /\ jb[j].status # Absent}
IsCancelling(jb, s) == \E j \in JobRowsIn(jb, s) : jb[j].status = "cancelling"

RecalcSession(tk, jb, row, s) ==
    LET J == JobRowsIn(jb, s)
        n == Tally(tk, J)
        total == CountRows(tk, J)
        status == NextSessionStatus(total, n, IsCancelling(jb, s))
    IN  [status |-> status, jobs |-> Cardinality(J), total |-> total, count |-> n,
         paused |-> row.paused, finished |-> status \in Settled]

RecalcSessions(tk, jb, se, S) ==
    [s \in Session |-> IF s \in S /\ se[s].status # Absent
                       THEN RecalcSession(tk, jb, se[s], s)
                       ELSE se[s]]

-----------------------------------------------------------------------------
(* The incremental helpers.  MarkStarted is _mark_task_started_incremental *)
(* called once for each task of T; MarkCompleted* is                       *)
(* _mark_task_completed_incremental for one task.                          *)

MarkStartedJobs(jb, T) ==
    [j \in Job |-> IF j \in JobsOf(T) /\ jb[j].status = "queued"
                   THEN [jb[j] EXCEPT !.status = "running"]
                   ELSE jb[j]]

Minus(a, b) == IF a > b THEN a - b ELSE 0        \* MAX(a - b, 0)
Started(n, k) ==
    [queued |-> Minus(n.queued, k), running |-> n.running + k,
     succeeded |-> n.succeeded, failed |-> n.failed, cancelled |-> n.cancelled]
Completed(n) ==
    [queued |-> n.queued, running |-> Minus(n.running, 1),
     succeeded |-> n.succeeded + 1, failed |-> n.failed, cancelled |-> n.cancelled]

(* Mutants: the queued counter is not decremented; a sign error.            *)
MutStillQueued(row, n) ==
    [row EXCEPT !.status = IF @ = "queued" THEN "running" ELSE @,
                !.count.running = @ + n, !.finished = FALSE]
MutSignError(row, n) ==
    [row EXCEPT !.status = IF @ = "queued" THEN "running" ELSE @,
                !.count.queued = Minus(@, n), !.count.running = @ - n, !.finished = FALSE]

MarkStartedSession(row, n) ==
    [row EXCEPT !.status = IF @ = "queued" THEN "running" ELSE @,
                !.count = Started(@, n),
                !.finished = FALSE]

MarkStartedSessions(se, T) ==
    [s \in Session |->
        LET mine == {t \in T : SessionOf[JobOf[t]] = s}
        IN  IF mine # {} /\ se[s].status # Absent
            THEN MarkStartedSession(se[s], Cardinality(mine))
            ELSE se[s]]

(* Mutant: the new count decides the status but is not stored.              *)
MutNotStored(row) ==
    LET status == IF row.count.succeeded + 1 = row.total THEN "succeeded" ELSE row.status
    IN  [row EXCEPT !.status = status, !.finished = @ \/ status \in Settled]

MarkCompletedJob(row) ==
    LET done == row.count.succeeded + 1
        status == IF done = row.total THEN "succeeded"
                  ELSE IF row.status = "queued" THEN "running" ELSE row.status
    IN  [status |-> status, total |-> row.total,
         count |-> [row.count EXCEPT !.succeeded = done], paused |-> row.paused,
         finished |-> row.finished \/ (status # row.status /\ status \in Settled)]

(* Mutant: the status is derived from the counters before the update.       *)
MutStatusFirst(row) ==
    LET status == NextSessionStatus(row.total, row.count, FALSE)
    IN  [row EXCEPT !.status = status, !.finished = status \in Settled,
                    !.count.succeeded = @ + 1, !.count.running = Minus(@, 1)]

MarkCompletedSession(row) ==
    LET n == Completed(row.count)
        status == NextSessionStatus(row.total, n, FALSE)    \* cancelling_jobs is left out
    IN  [status |-> status, jobs |-> row.jobs, total |-> row.total, count |-> n,
         paused |-> row.paused, finished |-> status \in Settled]
=============================================================================
