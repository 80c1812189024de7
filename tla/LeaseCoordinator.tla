-------------------------- MODULE LeaseCoordinator --------------------------
(***************************************************************************)
(* The node-level lease coordinator (worker.py, class LeaseCoordinator):   *)
(* one lock, one queue of pre-assigned tasks for each instance, and one    *)
(* request to the manager for all idle instances of the node.  With a      *)
(* batch size of 1 it is bypassed and every instance leases for itself.    *)
(*                                                                         *)
(* The manager is external here.  It is seen through held: the instance    *)
(* that a task row names as its executor.                                  *)
(***************************************************************************)
EXTENDS Integers, FiniteSets, Sequences

CONSTANTS Slot,         \* instance numbers of the node, 1 .. MAX_INSTANCES
          Task,
          BatchSizes,   \* values of --batch-lease-size
          NoSlot, NoTask,
          Over          \* the manager is done with a task

ASSUME CoordinatorAssumption ==
    /\ Slot \in SUBSET (Nat \ {0}) /\ NoSlot \notin Slot /\ Over \notin Slot /\ NoSlot # Over
    /\ NoTask \notin Task
    /\ BatchSizes \in SUBSET (Nat \ {0})

VARIABLES
    batch,    \* --batch-lease-size
    lock,     \* the instance that holds _lock, over a request to the manager
    asked,    \* the instances named in that request
    queue,    \* _queues: tasks pre-assigned to an instance
    held,     \* the manager's view: the instance that runs a task, NoSlot for a
              \* task that is queued or leased to another node, or Over
    lost      \* leased tasks whose lease response or report went missing, or
              \* whose node process died: only the lease's expiry frees them

coordinatorVars == <<batch, lock, asked, queue, held, lost>>

CoordinatorInit ==
    /\ batch \in BatchSizes
    /\ lock = NoSlot
    /\ asked = {}
    /\ queue = [i \in Slot |-> <<>>]
    /\ held = [t \in Task |-> NoSlot]
    /\ lost = {}

Free == {t \in Task : held[t] = NoSlot}
HeldBySlot == {t \in Task : held[t] \in Slot}

-----------------------------------------------------------------------------
(* acquire, up to the request.                                             *)
TakePreassigned(i) ==
    /\ batch > 1 /\ lock = NoSlot
    /\ queue[i] # <<>>
    /\ queue' = [queue EXCEPT ![i] = Tail(@)]
    /\ UNCHANGED <<batch, lock, asked, held, lost>>

Lowest(S, n) == {i \in S : Cardinality({k \in S : k < i}) < n}

(* idle: the instances whose snapshot shows no current task and neither    *)
(* "stopping" nor "stopped".  They are taken in index order.               *)
(* Mutant: instances with a task waiting in their queue are asked for too.  *)
MutAsksTwice(i, idle) ==
    IF i \in Lowest(idle, batch) THEN Lowest(idle, batch)
    ELSE {i} \cup Lowest(idle, batch - 1)
IdleIds(i, idle) ==
    LET waiting == {k \in idle : queue[k] = <<>>}
    IN  IF i \in Lowest(waiting, batch) THEN Lowest(waiting, batch)
        ELSE {i} \cup Lowest(waiting, batch - 1)

AskForBatch(i, idle) ==
    /\ batch > 1 /\ lock = NoSlot
    /\ queue[i] = <<>>
    /\ lock' = i
    /\ asked' = IdleIds(i, idle)
    /\ UNCHANGED <<batch, queue, held, lost>>

-----------------------------------------------------------------------------
(* The answer.  The manager gives at most one free task to each instance   *)
(* it is asked for: give maps some of them to tasks.                       *)
Injective(give) == \A k, n \in DOMAIN give : give[k] = give[n] => k = n
Given(give) == {give[k] : k \in DOMAIN give}
Lease(give) ==
    held' = [t \in Task |-> IF t \in Given(give)
                            THEN CHOOSE k \in DOMAIN give : give[k] = t
                            ELSE held[t]]
Answers(S) == UNION {{give \in [G -> Free] : Injective(give)} : G \in SUBSET S}

(* Mutant: every task of the answer goes to the instance that asked.        *)
MutAllMine(i, give) ==
    [k \in Slot |-> IF k = i /\ DOMAIN give # {}
                    THEN Append(queue[k], give[CHOOSE n \in DOMAIN give : TRUE]) ELSE queue[k]]
Enqueued(i, give) ==
    [k \in Slot |-> IF k \in DOMAIN give THEN Append(queue[k], give[k]) ELSE queue[k]]

(* The answer is stored, and the instance that asked takes its own task.   *)
BatchAnswered(i, give) ==
    LET full == Enqueued(i, give)
    IN  /\ lock = i
        /\ Lease(give)
        /\ queue' = IF full[i] # <<>> THEN [full EXCEPT ![i] = Tail(@)] ELSE full
        /\ lost' = lost \ Given(give)
        /\ lock' = NoSlot /\ asked' = {}
        /\ UNCHANGED batch
BatchFound(i, give) == IF Enqueued(i, give)[i] # <<>> THEN Head(Enqueued(i, give)[i]) ELSE NoTask

DirectAnswered(i, give) ==
    /\ batch = 1
    /\ Lease(give)
    /\ lost' = lost \ Given(give)
    /\ UNCHANGED <<batch, lock, asked, queue>>

(* Mutant: the lock is not released.                                        *)
MutKeepsLock(i, give) ==
    /\ Lease(give)
    /\ lost' = lost \cup Given(give)
    /\ UNCHANGED <<batch, lock, asked, queue>>
(* The request fails: it was not processed (give is empty) or its answer   *)
(* is lost.  The exception releases the lock.                              *)
RequestFailed(i, give) ==
    /\ Lease(give)
    /\ lost' = lost \cup Given(give)
    /\ lock' = IF lock = i THEN NoSlot ELSE lock
    /\ asked' = IF lock = i THEN {} ELSE asked
    /\ UNCHANGED <<batch, queue>>

-----------------------------------------------------------------------------
(* What else the manager does with the tasks of the node.                  *)

(* The lease expires: the task is queued again, or failed for good.         *)
LeaseExpires(t) ==
    /\ t \in HeldBySlot
    /\ \E after \in {NoSlot, Over} : held' = [held EXCEPT ![t] = after]
    /\ lost' = lost \ {t}
    /\ UNCHANGED <<batch, lock, asked, queue>>

(* A report by instance i: processed (Over for a result or a final         *)
(* failure, NoSlot for a failure with retries left) if i still holds the   *)
(* task and the request arrives, ignored otherwise.                        *)
Reported(i, t) ==
    /\ \/ /\ held[t] = i
          /\ \E after \in {NoSlot, Over} : held' = [held EXCEPT ![t] = after]
          /\ lost' = lost \ {t}
       \/ /\ held[t] = i
          /\ lost' = lost \cup {t}
          /\ UNCHANGED held
       \/ held[t] # i /\ UNCHANGED <<held, lost>>
    /\ UNCHANGED <<batch, lock, asked, queue>>
=============================================================================
