----------------------------- MODULE WorkerNode -----------------------------
(***************************************************************************)
(* A worker node (worker.py): the supervisor loop of main, which starts    *)
(* and stops instances to follow the target the manager sends with each    *)
(* heartbeat, and one thread per instance, which leases, runs and reports  *)
(* one task at a time.  The supervisor and the threads share the instance  *)
(* records, the stop events and the lease coordinator.                     *)
(*                                                                         *)
(* A step is what one thread does between two points where another can     *)
(* see or change what it works on.                                         *)
(***************************************************************************)
EXTENDS LeaseCoordinator

CONSTANTS Target,       \* instance counts a heartbeat may answer; 0: disabled
          Restarts      \* whether the process may die and be started again

ASSUME NodeAssumption == Target \in SUBSET Nat /\ Restarts \in BOOLEAN

VARIABLES
    target,   \* desired_instances
    sup,      \* the supervisor: the phase of reconcile_instances it is in
    victim,   \* the instance it is stopping
    seen,     \* the current task it read from that instance's snapshot
    status,   \* InstanceState.status, or "none" without a record
    current,  \* InstanceState.current_task_id
    stop,     \* InstanceState.stop_event
    pc,       \* where the instance's thread is
    mine,     \* the task the thread has taken
    late      \* history: tasks started since the stop event was set, up to 2

supVars == <<target, sup, victim, seen>>
threadVars == <<pc, mine, late>>
recordVars == <<status, current, stop>>
vars == <<coordinatorVars, supVars, threadVars, recordVars>>

Has(i) == status[i] # "none"
Alive(i) == pc[i] # "dead"

NodeInit ==
    /\ target \in Target \ {0}
    /\ sup = "start" /\ victim = NoSlot /\ seen = NoTask
    /\ status = [i \in Slot |-> "none"]
    /\ current = [i \in Slot |-> NoTask]
    /\ stop = [i \in Slot |-> FALSE]
    /\ pc = [i \in Slot |-> "dead"]
    /\ mine = [i \in Slot |-> NoTask]
    /\ late = [i \in Slot |-> 0]

Init == CoordinatorInit /\ NodeInit

-----------------------------------------------------------------------------
(* The supervisor: reconcile_instances, then a heartbeat, for ever.        *)
Missing == {i \in Slot : i <= target /\ ~Has(i)}
Surplus == {i \in Slot : i > target /\ Has(i) /\ ~stop[i]}

StartInstance(i) ==
    /\ sup = "start" /\ i \in Missing /\ \A k \in Missing : i <= k
    /\ status' = [status EXCEPT ![i] = "starting"]
    /\ current' = [current EXCEPT ![i] = NoTask]
    /\ stop' = [stop EXCEPT ![i] = FALSE]
    /\ pc' = [pc EXCEPT ![i] = "jitter"]
    /\ late' = [late EXCEPT ![i] = 0]
    /\ UNCHANGED <<coordinatorVars, supVars, mine>>

AllStarted ==
    /\ sup = "start" /\ Missing = {}
    /\ sup' = "stop"
    /\ UNCHANGED <<coordinatorVars, threadVars, recordVars, target, victim, seen>>

(* request_stop_instance, between whose steps the thread runs on: the      *)
(* event is set, a snapshot is read, the status is written.                *)
SetStopEvent(i) ==
    /\ sup = "stop" /\ i \in Surplus
    /\ stop' = [stop EXCEPT ![i] = TRUE]
    /\ sup' = "snapshot" /\ victim' = i
    /\ UNCHANGED <<coordinatorVars, threadVars, status, current, target, seen>>

ReadSnapshot ==
    /\ sup = "snapshot"
    /\ seen' = current[victim]
    /\ sup' = "mark"
    /\ UNCHANGED <<coordinatorVars, threadVars, recordVars, target, victim>>

MarkStopping ==
    /\ sup = "mark"
    /\ status' = [status EXCEPT ![victim] = "stopping"]
    /\ current' = [current EXCEPT ![victim] = seen]
    /\ sup' = "stop" /\ victim' = NoSlot /\ seen' = NoTask
    /\ UNCHANGED <<coordinatorVars, threadVars, stop, target>>

(* Mutants: a record goes as soon as its status is "stopped"; only surplus  *)
(* records go.                                                              *)
MutForgetsThread == {i \in Slot : status[i] = "stopped"}
MutOnlySurplus == {i \in Slot : status[i] = "stopped" /\ ~Alive(i) /\ i > target}
Finished == {i \in Slot : status[i] = "stopped" /\ ~Alive(i)}

Prune ==
    /\ sup = "stop" /\ Surplus = {}
    /\ status' = [i \in Slot |-> IF i \in Finished THEN "none" ELSE status[i]]
    /\ sup' = "beat"
    /\ UNCHANGED <<coordinatorVars, threadVars, current, stop, target, victim, seen>>

(* The heartbeat answers a new target, or fails and leaves the old one.    *)
Heartbeat ==
    /\ sup = "beat"
    /\ target' \in Target \cup {target}
    /\ sup' = "start"
    /\ UNCHANGED <<coordinatorVars, threadVars, recordVars, victim, seen>>

(* The process dies (or the first heartbeat fails, which ends main) and is *)
(* started again.  Its tasks stay leased until the manager expires them.   *)
Restart ==
    /\ Restarts
    /\ target' \in Target \ {0} /\ sup' = "start" /\ victim' = NoSlot /\ seen' = NoTask
    /\ status' = [i \in Slot |-> "none"] /\ current' = [i \in Slot |-> NoTask]
    /\ stop' = [i \in Slot |-> FALSE]
    /\ pc' = [i \in Slot |-> "dead"] /\ mine' = [i \in Slot |-> NoTask]
    /\ late' = [i \in Slot |-> 0]
    /\ lock' = NoSlot /\ asked' = {} /\ queue' = [i \in Slot |-> <<>>]
    /\ lost' = HeldBySlot
    /\ UNCHANGED <<batch, held>>

-----------------------------------------------------------------------------
(* An instance thread.  Its own record is written by set_status.           *)
Goto(i, to) == pc' = [pc EXCEPT ![i] = to]
SetStatus(i, to, t) ==
    /\ status' = [status EXCEPT ![i] = to]
    /\ current' = [current EXCEPT ![i] = t]
    /\ UNCHANGED stop

(* The wait before the first poll.  A stop that comes first ends the thread *)
(* at once, without a word in its record.                                  *)
Jitter(i) ==
    /\ pc[i] = "jitter"
    /\ Goto(i, IF stop[i] THEN "dead" ELSE "begin")
    /\ UNCHANGED <<coordinatorVars, supVars, recordVars, mine, late>>

Begin(i) ==
    /\ pc[i] = "begin"
    /\ SetStatus(i, "idle", NoTask)
    /\ Goto(i, "poll")
    /\ UNCHANGED <<coordinatorVars, supVars, mine, late>>

(* Mutant: the loop does not look at the stop event.                        *)
MutNeverLeaves(i) ==
    /\ pc[i] = "poll"
    /\ Goto(i, "acquire")
    /\ UNCHANGED <<coordinatorVars, supVars, recordVars, mine, late>>
Poll(i) ==
    /\ pc[i] = "poll"
    /\ Goto(i, IF stop[i] THEN "leave" ELSE "acquire")
    /\ UNCHANGED <<coordinatorVars, supVars, recordVars, mine, late>>

Idle == {k \in Slot : /\ status[k] \notin {"none", "stopping", "stopped"}
                      /\ current[k] = NoTask}

(* Mutant: an instance leases before it looks into its queue.               *)
MutLeasesFirst(i) ==
    /\ pc[i] = "acquire"
    /\ IF batch = 1 THEN UNCHANGED coordinatorVars
       ELSE /\ lock = NoSlot
            /\ lock' = i /\ asked' = IdleIds(i, Idle)
            /\ UNCHANGED <<batch, queue, held, lost>>
    /\ Goto(i, "request")
    /\ UNCHANGED <<supVars, recordVars, mine, late>>
Acquire(i) ==
    /\ pc[i] = "acquire"
    /\ \/ /\ TakePreassigned(i)
          /\ mine' = [mine EXCEPT ![i] = Head(queue[i])]
          /\ Goto(i, "taken")
       \/ /\ AskForBatch(i, Idle) \/ (batch = 1 /\ UNCHANGED coordinatorVars)
          /\ Goto(i, "request")
          /\ UNCHANGED mine
    /\ UNCHANGED <<supVars, recordVars, late>>

Answer(i) ==
    /\ pc[i] = "request"
    /\ \E give \in Answers(IF batch = 1 THEN {i} ELSE asked) :
          LET found == IF batch > 1 THEN BatchFound(i, give)
                       ELSE IF i \in DOMAIN give THEN give[i] ELSE NoTask
          IN  /\ BatchAnswered(i, give) \/ DirectAnswered(i, give)
              /\ mine' = [mine EXCEPT ![i] = found]
              /\ Goto(i, IF found = NoTask THEN "empty" ELSE "taken")
    /\ UNCHANGED <<supVars, recordVars, late>>

NoAnswer(i) ==
    /\ pc[i] = "request"
    /\ \E give \in Answers(IF batch = 1 THEN {i} ELSE asked) : RequestFailed(i, give)
    /\ Goto(i, "empty")
    /\ UNCHANGED <<supVars, recordVars, mine, late>>

(* Nothing was leased, or the manager did not answer: idle, then a pause   *)
(* that a stop cuts short.                                                 *)
Empty(i) ==
    /\ pc[i] = "empty"
    /\ SetStatus(i, "idle", NoTask)
    /\ Goto(i, "sleep")
    /\ UNCHANGED <<coordinatorVars, supVars, mine, late>>

Wake(i) ==
    /\ pc[i] = "sleep"
    /\ Goto(i, IF stop[i] THEN "leave" ELSE "poll")
    /\ UNCHANGED <<coordinatorVars, supVars, recordVars, mine, late>>

Begun(i) ==
    /\ pc[i] = "taken"
    /\ SetStatus(i, "running", mine[i])
    /\ Goto(i, "run")
    /\ late' = [late EXCEPT ![i] = IF stop[i] /\ @ < 2 THEN @ + 1 ELSE @]
    /\ UNCHANGED <<coordinatorVars, supVars, mine>>

(* The task returns or raises and is reported.  If the report of a result  *)
(* raises, a failure is reported instead; that may fail too.               *)
Report(i) ==
    /\ pc[i] = "run"
    /\ Reported(i, mine[i])
    /\ Goto(i, "done")
    /\ mine' = [mine EXCEPT ![i] = NoTask]
    /\ UNCHANGED <<supVars, recordVars, late>>

(* Mutant: the record is not reset after a task.                            *)
MutStaysRunning(i) ==
    /\ pc[i] = "done"
    /\ Goto(i, "poll")
    /\ UNCHANGED <<coordinatorVars, supVars, recordVars, mine, late>>
Done(i) ==
    /\ pc[i] = "done"
    /\ SetStatus(i, "idle", NoTask)
    /\ Goto(i, "poll")
    /\ UNCHANGED <<coordinatorVars, supVars, mine, late>>

(* The finally block: stopping, shut the executor down, stopped, return.   *)
Leave(i) ==
    /\ \/ pc[i] = "leave" /\ SetStatus(i, "stopping", NoTask) /\ Goto(i, "close")
       \/ pc[i] = "close" /\ SetStatus(i, "stopped", NoTask) /\ Goto(i, "return")
       \/ pc[i] = "return" /\ UNCHANGED recordVars /\ Goto(i, "dead")
    /\ UNCHANGED <<coordinatorVars, supVars, mine, late>>

-----------------------------------------------------------------------------
Supervisor ==
    \/ \E i \in Slot : StartInstance(i) \/ SetStopEvent(i)
    \/ AllStarted \/ ReadSnapshot \/ MarkStopping \/ Prune \/ Heartbeat

Thread(i) ==
    \/ Jitter(i) \/ Begin(i) \/ Poll(i) \/ Acquire(i) \/ Answer(i) \/ NoAnswer(i)
    \/ Empty(i) \/ Wake(i) \/ Begun(i) \/ Report(i) \/ Done(i) \/ Leave(i)

Manager == \E t \in Task : LeaseExpires(t) /\ UNCHANGED <<supVars, threadVars, recordVars>>

Next == Supervisor \/ (\E i \in Slot : Thread(i)) \/ Manager \/ Restart

Spec == Init /\ [][Next]_vars

(* Threads are scheduled, tasks and requests end (a request has a timeout),*)
(* and no thread is passed over for ever when the lock becomes free.       *)
FairSpec == Spec /\ WF_vars(Supervisor) /\ \A i \in Slot : SF_vars(Thread(i))

-----------------------------------------------------------------------------
(* Types; and the coordinator's lock is held exactly over the request of   *)
(* the instance that holds it, whatever becomes of the request.            *)
TypeOK ==
    /\ \A i \in Slot : lock = i <=> (batch > 1 /\ pc[i] = "request")
    /\ batch \in BatchSizes /\ lock \in Slot \cup {NoSlot} /\ asked \subseteq Slot
    /\ queue \in [Slot -> Seq(Task)]
    /\ held \in [Task -> Slot \cup {NoSlot, Over}] /\ lost \subseteq HeldBySlot
    /\ target \in Target /\ victim \in Slot \cup {NoSlot} /\ seen \in Task \cup {NoTask}
    /\ sup \in {"start", "stop", "snapshot", "mark", "beat"}
    /\ status \in [Slot -> {"none", "starting", "idle", "running", "stopping", "stopped"}]
    /\ current \in [Slot -> Task \cup {NoTask}] /\ mine \in [Slot -> Task \cup {NoTask}]
    /\ stop \in [Slot -> BOOLEAN] /\ late \in [Slot -> 0 .. 2]
    /\ pc \in [Slot -> {"jitter", "begin", "poll", "acquire", "request", "taken", "empty", "sleep",
                        "run", "done", "leave", "close", "return", "dead"}]

(* Every running thread has a record, so that the supervisor can stop it   *)
(* and never starts a second thread for the same instance.                 *)
NoOrphanThread == \A i \in Slot : Alive(i) => Has(i)

(* However requests, answers and status changes interleave, an instance is *)
(* never given a second task while one waits for it in its queue.          *)
OnePreassignedTask == \A i \in Slot : Len(queue[i]) <= 1

(* A task that the manager believes an instance of this node is running is *)
(* where that instance will find it, unless a message or the process was   *)
(* lost: the hand-over from batch to instance loses and swaps nothing.     *)
NothingMislaid ==
    \A t \in HeldBySlot \ lost :
        mine[held[t]] = t \/ \E n \in DOMAIN queue[held[t]] : queue[held[t]][n] = t

(* An instance told to stop may have been past its check already, so it    *)
(* may start one more task, but only one.                                  *)
StopsAfterOneMore == \A i \in Slot : late[i] <= 1

(* An instance that heartbeats as busy with a task is working on it, unless*)
(* it is stopping (the supervisor may then write back a task it read       *)
(* before the thread was done with it).                                    *)
BusyIsBusy ==
    \A i \in Slot : Has(i) /\ current[i] # NoTask /\ status[i] # "stopping" =>
        /\ status[i] = "running"
        /\ pc[i] = "run" => mine[i] = current[i]
        /\ pc[i] \in {"run", "done"}

(* An instance told to stop does stop, whatever it was doing.              *)
StopIsHeard == \A i \in Slot : stop[i] ~> ~Alive(i)

(* While the target includes an instance, its thread runs again and again, *)
(* unless its thread ended and left the record in a status other than      *)
(* "stopped" (see FollowsTarget).                                          *)
Stuck(i) == Has(i) /\ ~Alive(i) /\ status[i] # "stopped"
GrowsBack == \A i \in Slot : <>[](target >= i) => []<>Alive(i) \/ <>[]Stuck(i)

(* A task that another instance leased for this one does not wait in its   *)
(* queue for ever, as long as the instance lives: it comes round to its    *)
(* queue and gets the lock, whatever becomes of the requests of others.    *)
(* One that is stopped first leaves the task behind.                       *)
Waiting(i) == queue[i] # <<>>
WaitingTaskIsTaken == \A i \in Slot : Waiting(i) ~> ~Waiting(i) \/ ~Alive(i)

-----------------------------------------------------------------------------
(* "Increasing the value starts more independent single-task instance      *)
(* loops" (README.md): an instance within the target runs.                 *)
FollowsTarget == \A i \in Slot : <>[](target >= i) => []<>Alive(i)
=============================================================================
