--------------------------- MODULE TaskLifecycle ---------------------------
(***************************************************************************)
(* What the manager promises about one task, without jobs, sessions,       *)
(* leases in time, counters or commands: the legal moves of a task row.    *)
(* A step of the manager may move any number of tasks at once.             *)
(***************************************************************************)
EXTENDS Integers

CONSTANTS Task, Executor, NoOwner, MaxRetries

VARIABLE row        \* Task -> [status, attempts, owner]

Row == [status : {"absent", "queued", "running", "succeeded", "failed", "cancelled"},
        attempts : Nat, owner : Executor \cup {NoOwner}]

Same(a, b) == b.attempts = a.attempts

(* A client submits the task.                                               *)
Submitted(a, b) == a.status = "absent" /\ b.status = "queued" /\ b.attempts = 0

(* One executor is given the task, once per attempt.  A running task may   *)
(* be given away only while its budget lasts (its lease has expired).      *)
Leased(a, b) ==
    /\ a.status = "queued" \/ (a.status = "running" /\ a.attempts <= MaxRetries)
    /\ b.status = "running" /\ b.attempts = a.attempts + 1 /\ b.owner \in Executor

(* The executor that holds the task delivers its result.                    *)
Succeeded(a, b) == a.status = "running" /\ b.status = "succeeded" /\ Same(a, b) /\ b.owner = a.owner

(* An attempt is lost: the task is tried again, or fails for good exactly  *)
(* when its budget of 1 + MaxRetries attempts is spent.                    *)
Requeued(a, b) == /\ a.status = "running" /\ a.attempts <= MaxRetries
                  /\ b.status = "queued" /\ Same(a, b) /\ b.owner = NoOwner
Failed(a, b) == /\ a.status = "running" /\ a.attempts > MaxRetries
                /\ b.status = "failed" /\ Same(a, b)

(* Operators cancel anything (and so does a late result, once the job is   *)
(* cancelled), retry what did not succeed, delete what is settled.         *)
Cancelled(a, b) == a.status # "absent" /\ b.status = "cancelled" /\ Same(a, b)
Retried(a, b) == /\ a.status \in {"failed", "cancelled"}
                 /\ b.status = "queued" /\ b.attempts \in {0, a.attempts} /\ b.owner = NoOwner
Deleted(a, b) == a.status \in {"succeeded", "failed", "cancelled"} /\ b.status = "absent"

Move(a, b) ==
    \/ Submitted(a, b) \/ Leased(a, b) \/ Succeeded(a, b) \/ Requeued(a, b)
    \/ Failed(a, b) \/ Cancelled(a, b) \/ Retried(a, b) \/ Deleted(a, b)

Init == /\ row \in [Task -> Row]
        /\ \A t \in Task : row[t].status = "absent"
Next == /\ row' \in [Task -> Row]
        /\ \A t \in Task : row'[t] = row[t] \/ Move(row[t], row'[t])

Spec == Init /\ [][Next]_row
=============================================================================
