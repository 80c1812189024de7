-------------------------- MODULE WorkerNodeProofs --------------------------
(* Theorems about WorkerNode, for any number of instances and tasks, any    *)
(* batch size and any targets.                                             *)
EXTENDS WorkerNode, SequenceTheorems, TLAPS

-----------------------------------------------------------------------------
(* Threads and records: a record is created with its thread and removed    *)
(* only after the thread has ended, and no status ever written to a record *)
(* is "none".                                                              *)
Statuses == {"none", "starting", "idle", "running", "stopping", "stopped"}
Places == {"jitter", "begin", "poll", "acquire", "request", "taken", "empty", "sleep",
           "run", "done", "leave", "close", "return", "dead"}
Recorded ==
    /\ status \in [Slot -> Statuses]
    /\ pc \in [Slot -> Places]
    /\ NoOrphanThread

LEMMA SetStatusRecorded ==
    ASSUME Recorded, NEW i \in Slot, NEW to \in Statuses \ {"none"}, NEW t,
           SetStatus(i, to, t), NEW at \in Places, Goto(i, at)
    PROVE  Recorded'
BY DEF Recorded, SetStatus, Goto, NoOrphanThread, Alive, Has, Statuses

LEMMA GotoRecorded ==
    ASSUME Recorded, NEW i \in Slot, Alive(i), UNCHANGED recordVars, NEW at \in Places, Goto(i, at)
    PROVE  Recorded'
BY DEF Recorded, recordVars, Goto, NoOrphanThread, Alive, Has

LEMMA RecordedInductive == Recorded /\ [Next]_vars => Recorded'
<1> SUFFICES ASSUME Recorded, [Next]_vars PROVE Recorded'
  OBVIOUS
<1>1. ASSUME NEW i \in Slot, StartInstance(i)
      PROVE  Recorded'
  BY <1>1 DEF StartInstance, Recorded, NoOrphanThread, Alive, Has, Statuses, Places
<1>2. ASSUME sup = "mark", MarkStopping
      PROVE  Recorded'
  BY <1>2 DEF MarkStopping, threadVars, Recorded, NoOrphanThread, Alive, Has, Statuses, Places
<1>3. CASE Prune
  BY <1>3 DEF Prune, Finished, threadVars, Recorded, NoOrphanThread, Alive, Has, Statuses, Places
<1>4. CASE Restart
  BY <1>4 DEF Restart, Recorded, NoOrphanThread, Alive, Has, Statuses, Places
<1>5. ASSUME UNCHANGED <<status, pc>>
      PROVE  Recorded'
  BY <1>5 DEF Recorded, NoOrphanThread, Alive, Has
<1>6. CASE Supervisor
  <2>1. \A i \in Slot : SetStopEvent(i) => UNCHANGED <<status, pc>>
    BY DEF SetStopEvent, threadVars
  <2>2. AllStarted \/ ReadSnapshot \/ Heartbeat => UNCHANGED <<status, pc>>
    BY DEF AllStarted, ReadSnapshot, Heartbeat, threadVars, recordVars
  <2>3. MarkStopping => sup = "mark"
    BY DEF MarkStopping
  <2> QED
    BY <1>1, <1>2, <1>3, <1>5, <1>6, <2>1, <2>2, <2>3 DEF Supervisor
<1>7. ASSUME NEW i \in Slot, Thread(i)
      PROVE  Recorded'
  <2>2. Jitter(i) \/ Poll(i) \/ Wake(i) \/ NoAnswer(i) \/ Report(i) => Recorded'
    BY GotoRecorded DEF Jitter, Poll, Wake, NoAnswer, Report, Alive, Places
  <2>3. Acquire(i) => Recorded'
    BY GotoRecorded DEF Acquire, Alive, Places
  <2>4. ASSUME Answer(i)
        PROVE  Recorded'
    <3>1. /\ UNCHANGED recordVars /\ Alive(i)
          /\ Goto(i, "empty") \/ Goto(i, "taken")
      BY <2>4 DEF Answer, Alive
    <3> QED
      BY <3>1, GotoRecorded DEF Places
  <2>5. Begin(i) \/ Empty(i) \/ Begun(i) \/ Done(i) => Recorded'
    BY SetStatusRecorded DEF Begin, Empty, Begun, Done, Statuses, Places
  <2>6. Leave(i) => Recorded'
    BY SetStatusRecorded, GotoRecorded DEF Leave, Alive, Statuses, Places
  <2> QED
    BY <1>7, <2>2, <2>3, <2>4, <2>5, <2>6 DEF Thread
<1>8. Manager => Recorded'
  BY <1>5 DEF Manager, threadVars, recordVars
<1>9. CASE UNCHANGED vars
  BY <1>5, <1>9 DEF vars, threadVars, recordVars
<1> QED
  BY <1>4, <1>6, <1>7, <1>8, <1>9 DEF Next

(* Every running thread has a record, however starts, stops, ends and      *)
(* prunes interleave: the supervisor can always stop it and never starts a *)
(* second thread for the same instance.                                    *)
THEOREM ThreadsAreRecorded == Spec => []NoOrphanThread
<1>1. Init => Recorded
  BY DEF Init, NodeInit, Recorded, NoOrphanThread, Alive, Has, Statuses, Places
<1>2. Recorded => NoOrphanThread
  BY DEF Recorded
<1> QED
  BY <1>1, <1>2, RecordedInductive, PTL DEF Spec

-----------------------------------------------------------------------------
(* Queues: what is asked for has an empty queue until the answer comes,     *)
(* because only the holder of the lock fills a queue or asks.               *)
Queued ==
    /\ queue \in [Slot -> Seq(Task)] /\ asked \subseteq Slot
    /\ lock # NoSlot => batch > 1
    /\ \A k \in asked : queue[k] = <<>>
    /\ OnePreassignedTask

(* A sequence of at most one element, when it has one.                      *)
LEMMA ShortSequence ==
    ASSUME NEW S, NEW q \in Seq(S), Len(q) <= 1, q # <<>>
    PROVE  Head(q) \in S /\ Len(q) = 1 /\ q[1] = Head(q) /\ DOMAIN q = {1}
<1>1. Len(q) \in Nat /\ DOMAIN q = 1 .. Len(q)
  BY LenProperties
<1>2. Len(q) # 0
  BY EmptySeq
<1>3. Len(q) = 1
  BY <1>1, <1>2
<1> QED
  BY <1>1, <1>3

(* The instances named in a request have nothing waiting for them.          *)
LEMMA AskedAreWaiting ==
    ASSUME NEW i \in Slot, queue[i] = <<>>
    PROVE  /\ IdleIds(i, Idle) \subseteq Slot
           /\ \A k \in IdleIds(i, Idle) : queue[k] = <<>>
BY DEF IdleIds, Lowest, Idle

LEMMA QueuedInductive == Queued /\ [Next]_vars => Queued'
<1> SUFFICES ASSUME Queued, [Next]_vars PROVE Queued'
  OBVIOUS
<1>1. ASSUME UNCHANGED <<batch, lock, asked, queue>>
      PROVE  Queued'
  BY <1>1 DEF Queued, OnePreassignedTask
<1>2. ASSUME queue' = [i \in Slot |-> <<>>], asked' = {}, lock' = NoSlot
      PROVE  Queued'
  BY <1>2 DEF Queued, OnePreassignedTask
<1>3. ASSUME NEW i \in Slot, TakePreassigned(i)
      PROVE  Queued'
  BY <1>3 DEF TakePreassigned, Queued, OnePreassignedTask
<1>4. ASSUME NEW i \in Slot, AskForBatch(i, Idle)
      PROVE  Queued'
  <2>1. /\ asked' \subseteq Slot
        /\ \A k \in asked' : queue[k] = <<>>
    BY <1>4, AskedAreWaiting DEF AskForBatch
  <2> QED
    BY <1>4, <2>1 DEF AskForBatch, Queued, OnePreassignedTask
<1>5. ASSUME NEW i \in Slot, Answer(i)
      PROVE  Queued'
  <2>1. PICK give \in Answers(IF batch = 1 THEN {i} ELSE asked) :
            BatchAnswered(i, give) \/ DirectAnswered(i, give)
    BY <1>5 DEF Answer
  <2>2. CASE DirectAnswered(i, give)
    BY <1>1, <2>2 DEF DirectAnswered
  <2>3. CASE BatchAnswered(i, give)
    <3>1. batch # 1 /\ asked' = {} /\ lock' = NoSlot
      BY <2>3, CoordinatorAssumption DEF BatchAnswered, Queued
    <3>2. DOMAIN give \subseteq asked /\ \A k \in DOMAIN give : give[k] \in Task
      BY <2>1, <3>1 DEF Answers, Free
    <3>3. ASSUME NEW k \in Slot
          PROVE  /\ Enqueued(i, give)[k] \in Seq(Task)
                 /\ Len(Enqueued(i, give)[k]) <= 1
      BY <3>2 DEF Enqueued, Queued, OnePreassignedTask
    <3>4. DOMAIN Enqueued(i, give) = Slot
      BY DEF Enqueued
    <3>5. /\ queue' \in [Slot -> Seq(Task)]
          /\ \A k \in Slot : Len(queue'[k]) <= 1
      <4> DEFINE full == Enqueued(i, give)
      <4>1. full \in [Slot -> Seq(Task)] /\ \A k \in Slot : Len(full[k]) <= 1
        BY <3>3 DEF Enqueued
      <4>2. queue' = IF full[i] # <<>> THEN [full EXCEPT ![i] = Tail(@)] ELSE full
        BY <2>3 DEF BatchAnswered
      <4> HIDE DEF full
      <4> QED
        BY <4>1, <4>2
    <3> QED
      BY <3>1, <3>5 DEF Queued, OnePreassignedTask
  <2> QED
    BY <2>1, <2>2, <2>3
<1>6. ASSUME NEW i \in Slot, NoAnswer(i)
      PROVE  Queued'
  BY <1>6 DEF NoAnswer, RequestFailed, Queued, OnePreassignedTask
<1>7. ASSUME NEW i \in Slot, Thread(i)
      PROVE  Queued'
  <2>1. CASE Acquire(i)
    BY <1>1, <1>3, <1>4, <2>1 DEF Acquire, coordinatorVars
  <2>2. CASE Report(i)
    BY <1>1, <2>2 DEF Report, Reported
  <2>3. CASE \/ Jitter(i) \/ Begin(i) \/ Poll(i) \/ Empty(i) \/ Wake(i)
             \/ Begun(i) \/ Done(i) \/ Leave(i)
    BY <1>1, <2>3 DEF Jitter, Begin, Poll, Empty, Wake, Begun, Done, Leave, coordinatorVars
  <2> QED
    BY <1>5, <1>6, <1>7, <2>1, <2>2, <2>3 DEF Thread
<1>8. CASE Supervisor
  <2>1. ASSUME NEW i \in Slot, StartInstance(i) \/ SetStopEvent(i)
        PROVE  Queued'
    BY <1>1, <2>1 DEF StartInstance, SetStopEvent, coordinatorVars
  <2> QED
    BY <1>1, <1>8, <2>1
       DEF Supervisor, AllStarted, ReadSnapshot, MarkStopping, Prune, Heartbeat, coordinatorVars
<1>9. CASE Manager \/ UNCHANGED vars
  BY <1>1, <1>9 DEF Manager, LeaseExpires, vars, coordinatorVars
<1>10. CASE Restart
  BY <1>2, <1>10 DEF Restart
<1> QED
  BY <1>7, <1>8, <1>9, <1>10 DEF Next

(* No instance ever has two tasks waiting in its queue, however requests,   *)
(* answers, lost answers, stops and restarts interleave.                   *)
THEOREM QueuesHoldOneTask == Spec => []OnePreassignedTask
<1>1. Init => Queued
  BY DEF Init, CoordinatorInit, Queued, OnePreassignedTask
<1>2. Queued => OnePreassignedTask
  BY DEF Queued
<1> QED
  BY <1>1, <1>2, QueuedInductive, PTL DEF Spec

-----------------------------------------------------------------------------
(* Hand-over: a thread carries a task only between taking and reporting it, *)
(* and what the manager believes an instance runs is where it looks.       *)
Carried ==
    /\ mine \in [Slot -> Task \cup {NoTask}]
    /\ held \in [Task -> Slot \cup {NoSlot, Over}]
    /\ \A i \in Slot : mine[i] # NoTask => pc[i] \in {"taken", "run"}
    /\ NothingMislaid

(* The manager's row of a task that was given names the instance it was     *)
(* given to; other rows do not change.                                     *)
LEMMA LeaseNamesTheGiven ==
    ASSUME NEW S \in SUBSET Slot, NEW give \in Answers(S), Lease(give),
           held \in [Task -> Slot \cup {NoSlot, Over}]
    PROVE  /\ held' \in [Task -> Slot \cup {NoSlot, Over}]
           /\ DOMAIN give \subseteq S
           /\ \A k \in DOMAIN give : give[k] \in Task /\ held'[give[k]] = k
           /\ \A t \in Task \ Given(give) : held'[t] = held[t]
<1>1. /\ DOMAIN give \subseteq S /\ DOMAIN give \subseteq Slot
      /\ \A k \in DOMAIN give : give[k] \in Task
      /\ Injective(give)
  BY DEF Answers, Free
<1>2. ASSUME NEW k \in DOMAIN give
      PROVE  k = CHOOSE n \in DOMAIN give : give[n] = give[k]
  BY <1>1 DEF Injective
<1>3. \A t \in Task : t \in Given(give) => held'[t] \in DOMAIN give
  BY DEF Lease, Given
<1>4. \A k \in DOMAIN give : give[k] \in Given(give)
  BY DEF Given
<1>5. \A k \in DOMAIN give : held'[give[k]] = k
  BY <1>1, <1>2, <1>4 DEF Lease
<1>6. \A t \in Task \ Given(give) : held'[t] = held[t]
  BY DEF Lease
<1>7. held' \in [Task -> Slot \cup {NoSlot, Over}]
  <2>1. held' = [t \in Task |-> held'[t]]
    BY DEF Lease
  <2>2. \A t \in Task : held'[t] \in Slot \cup {NoSlot, Over}
    BY <1>1, <1>3, <1>6
  <2> QED
    BY <2>1, <2>2
<1> QED
  BY <1>1, <1>5, <1>6, <1>7

(* A step that moves no task disturbs nothing, if it does not take a thread *)
(* away from a task it carries.                                            *)
LEMMA UntouchedCarried ==
    ASSUME Carried, UNCHANGED <<queue, held, lost, mine>>,
           \A i \in Slot : mine[i] # NoTask => pc'[i] \in {"taken", "run"}
    PROVE  Carried'
BY DEF Carried, NothingMislaid, HeldBySlot

LEMMA CarriedInductive == Recorded /\ Queued /\ Carried /\ [Next]_vars => Carried'
<1> SUFFICES ASSUME Recorded, Queued, Carried, [Next]_vars PROVE Carried'
  OBVIOUS
<1>1. ASSUME UNCHANGED <<queue, held, lost, mine, pc>>
      PROVE  Carried'
  BY <1>1, UntouchedCarried DEF Carried
<1>2. ASSUME NEW i \in Slot, NEW from, NEW at, pc[i] = from, Goto(i, at),
             from \notin {"taken", "run"} \/ at = "run",
             UNCHANGED <<queue, held, lost, mine>>
      PROVE  Carried'
  BY <1>2, UntouchedCarried DEF Carried, Recorded, Goto
<1>3. CASE Restart
  BY <1>3 DEF Restart, Carried, NothingMislaid, HeldBySlot
<1>4. ASSUME NEW i \in Slot, Acquire(i)
      PROVE  Carried'
  <2>1. CASE /\ AskForBatch(i, Idle) \/ UNCHANGED coordinatorVars
             /\ UNCHANGED mine /\ Goto(i, "request")
    <3>1. pc[i] = "acquire" /\ UNCHANGED <<queue, held, lost, mine>>
      BY <1>4, <2>1 DEF Acquire, AskForBatch, coordinatorVars
    <3> QED
      BY <1>2, <2>1, <3>1
  <2>2. CASE TakePreassigned(i) /\ mine' = [mine EXCEPT ![i] = Head(queue[i])] /\ Goto(i, "taken")
    <3>1. mine[i] = NoTask
      BY <1>4 DEF Carried, Acquire
    <3>2. queue[i] \in Seq(Task) /\ queue[i] # <<>> /\ Len(queue[i]) <= 1
      BY <2>2 DEF TakePreassigned, Queued, OnePreassignedTask
    <3>3. \A n \in DOMAIN queue[i] : queue[i][n] = Head(queue[i])
      BY <3>2
    <3>4. ASSUME NEW t \in HeldBySlot \ lost, held[t] = i
          PROVE  Head(queue[i]) = t
      BY <3>1, <3>3, <3>4, CoordinatorAssumption DEF Carried, NothingMislaid, HeldBySlot
    <3>5. Head(queue[i]) \in Task
      BY <3>2
    <3>6. NothingMislaid'
      BY <2>2, <3>4 DEF TakePreassigned, Queued, Carried, NothingMislaid, HeldBySlot
    <3> QED
      BY <2>2, <3>5, <3>6 DEF TakePreassigned, Goto, Carried, Recorded
  <2> QED
    BY <1>4, <2>1, <2>2 DEF Acquire
<1>5. ASSUME NEW i \in Slot, Report(i)
      PROVE  Carried'
  <2>1. /\ held' \in [Task -> Slot \cup {NoSlot, Over}]
        /\ HeldBySlot' \ lost' \subseteq HeldBySlot \ lost
        /\ \A t \in HeldBySlot' \ lost' : held'[t] = held[t] /\ ~(held[t] = i /\ mine[i] = t)
    BY <1>5, CoordinatorAssumption DEF Report, Reported, Carried, HeldBySlot
  <2>2. queue' = queue /\ mine' = [mine EXCEPT ![i] = NoTask]
    BY <1>5 DEF Report, Reported
  <2>3. NothingMislaid'
    BY <2>1, <2>2 DEF Carried, NothingMislaid, HeldBySlot
  <2> QED
    BY <1>5, <2>1, <2>2, <2>3 DEF Report, Goto, Carried, Recorded
<1>6. CASE Manager
  <2>1. PICK t \in Task : LeaseExpires(t) /\ UNCHANGED threadVars
    BY <1>6 DEF Manager
  <2>2. /\ held' \in [Task -> Slot \cup {NoSlot, Over}]
        /\ held'[t] \notin Slot
        /\ \A u \in Task \ {t} : held'[u] = held[u] /\ (u \in lost' <=> u \in lost)
    BY <2>1, CoordinatorAssumption DEF LeaseExpires, Carried
  <2>3. UNCHANGED <<queue, mine, pc>>
    BY <2>1 DEF LeaseExpires, threadVars
  <2>4. NothingMislaid'
    BY <2>2, <2>3 DEF Carried, NothingMislaid, HeldBySlot
  <2> QED
    BY <2>2, <2>3, <2>4 DEF Carried
<1>7. CASE Supervisor \/ UNCHANGED vars
  <2>1. ASSUME NEW i \in Slot, StartInstance(i)
        PROVE  Carried'
    <3>1. mine[i] = NoTask
      BY <2>1 DEF StartInstance, Missing, Recorded, NoOrphanThread, Alive, Carried
    <3> QED
      BY <2>1, <3>1, UntouchedCarried DEF StartInstance, coordinatorVars, Carried, Recorded
  <2>2. ASSUME NEW i \in Slot, SetStopEvent(i)
        PROVE  Carried'
    BY <1>1, <2>2 DEF SetStopEvent, coordinatorVars, threadVars
  <2> QED
    BY <1>1, <1>7, <2>1, <2>2 DEF Supervisor, AllStarted, ReadSnapshot, MarkStopping, Prune,
       Heartbeat, coordinatorVars, threadVars, vars
<1>8. ASSUME NEW i \in Slot, Answer(i)
      PROVE  Carried'
  <2>1. PICK give \in Answers(IF batch = 1 THEN {i} ELSE asked) :
            /\ BatchAnswered(i, give) \/ DirectAnswered(i, give)
            /\ LET found == IF batch > 1 THEN BatchFound(i, give)
                            ELSE IF i \in DOMAIN give THEN give[i] ELSE NoTask
               IN  /\ mine' = [mine EXCEPT ![i] = found]
                   /\ Goto(i, IF found = NoTask THEN "empty" ELSE "taken")
    BY <1>8 DEF Answer
  <2>2. Lease(give) /\ lost' = lost \ Given(give)
    BY <2>1 DEF BatchAnswered, DirectAnswered
  <2>3. (IF batch = 1 THEN {i} ELSE asked) \in SUBSET Slot
    BY DEF Queued
  <2>4. /\ held' \in [Task -> Slot \cup {NoSlot, Over}]
        /\ DOMAIN give \subseteq (IF batch = 1 THEN {i} ELSE asked)
        /\ \A k \in DOMAIN give : give[k] \in Task /\ held'[give[k]] = k
        /\ \A t \in Task \ Given(give) : held'[t] = held[t]
    BY <2>1, <2>2, <2>3, LeaseNamesTheGiven DEF Carried
  <2>5. mine[i] = NoTask /\ DOMAIN mine = Slot /\ DOMAIN queue = Slot /\ NoTask \notin Task
    BY <1>8, CoordinatorAssumption DEF Answer, Carried, Queued
  \* Where a task of the answer, and a task that was there before, can be found.
  <2>6. /\ mine' \in [Slot -> Task \cup {NoTask}]
        /\ mine'[i] # NoTask => pc'[i] \in {"taken", "run"}
        /\ \A k \in Slot \ {i} : mine'[k] = mine[k] /\ pc'[k] = pc[k]
        /\ \A k \in DOMAIN give :
              mine'[k] = give[k] \/ \E n \in DOMAIN queue'[k] : queue'[k][n] = give[k]
        /\ \A k \in Slot : \A n \in DOMAIN queue[k] :
              mine'[k] = queue[k][n] \/ \E m \in DOMAIN queue'[k] : queue'[k][m] = queue[k][n]
    <3>1. CASE DirectAnswered(i, give)
      BY <2>1, <2>3, <2>4, <2>5, <3>1 DEF DirectAnswered, Goto, Carried, Recorded
    <3>2. CASE BatchAnswered(i, give)
      <4> DEFINE full == Enqueued(i, give)
                 found == IF full[i] # <<>> THEN Head(full[i]) ELSE NoTask
      <4>1. batch > 1 /\ batch # 1
        BY <3>2, CoordinatorAssumption DEF BatchAnswered, Queued
      <4>2. /\ mine' = [mine EXCEPT ![i] = found]
            /\ Goto(i, IF found = NoTask THEN "empty" ELSE "taken")
            /\ queue' = IF full[i] # <<>> THEN [full EXCEPT ![i] = Tail(@)] ELSE full
        BY <2>1, <3>2, <4>1 DEF BatchFound, BatchAnswered
      <4>3. ASSUME NEW k \in DOMAIN give
            PROVE  k \in Slot /\ queue[k] = <<>> /\ full[k] = <<give[k]>>
        <5>1. k \in Slot /\ k \in asked /\ give[k] \in Task
          BY <2>4, <4>1, <4>3 DEF Queued
        <5>2. queue[k] = <<>>
          BY <5>1 DEF Queued
        <5>3. full[k] = Append(queue[k], give[k])
          BY <4>3, <5>1 DEF Enqueued
        <5> QED
          BY <5>1, <5>2, <5>3
      <4>4. ASSUME NEW k \in Slot
            PROVE  full[k] \in Seq(Task) /\ Len(full[k]) <= 1
        <5>1. CASE k \in DOMAIN give
          <6>1. full[k] = <<give[k]>> /\ give[k] \in Task
            BY <2>4, <4>3, <5>1
          <6> HIDE DEF full
          <6> QED
            BY <6>1
        <5>2. CASE k \notin DOMAIN give
          BY <5>2 DEF Enqueued, Queued, OnePreassignedTask
        <5> QED
          BY <5>1, <5>2
      <4>5. DOMAIN full = Slot
        BY DEF Enqueued
      <4>6. \A k \in Slot : k \in DOMAIN give \/ full[k] = queue[k]
        BY DEF Enqueued
      <4> HIDE DEF full
      <4>7. full[i] # <<>> => /\ found \in Task /\ Len(full[i]) = 1 /\ full[i][1] = found
                             /\ DOMAIN full[i] = {1}
        <5>1. full[i] \in Seq(Task) /\ Len(full[i]) <= 1
          BY <4>4
        <5> QED
          BY <5>1, ShortSequence
      <4>8. /\ mine' \in [Slot -> Task \cup {NoTask}] /\ mine'[i] = found
            /\ found # NoTask => pc'[i] = "taken"
            /\ \A k \in Slot \ {i} : mine'[k] = mine[k] /\ pc'[k] = pc[k] /\ queue'[k] = full[k]
        BY <2>5, <4>2, <4>5, <4>7 DEF Goto, Carried, Recorded
      <4>9. ASSUME NEW k \in Slot, NEW n \in DOMAIN full[k]
            PROVE  \/ mine'[k] = full[k][n]
                   \/ \E m \in DOMAIN queue'[k] : queue'[k][m] = full[k][n]
        <5>1. CASE k = i
          BY <4>7, <4>8, <4>9, <4>4, <5>1
        <5>2. CASE k # i
          BY <4>8, <4>9, <5>2
        <5> QED
          BY <5>1, <5>2
      <4>10. \A k \in DOMAIN give : 1 \in DOMAIN full[k] /\ full[k][1] = give[k]
        BY <4>3
      <4>11. \A k \in Slot : \A n \in DOMAIN queue[k] :
                n \in DOMAIN full[k] /\ full[k][n] = queue[k][n]
        BY <4>3, <4>6
      <4> QED
        BY <4>3, <4>8, <4>9, <4>10, <4>11
    <3> QED
      BY <2>1, <3>1, <3>2
  <2>7. NothingMislaid'
    <3> SUFFICES ASSUME NEW t \in HeldBySlot' \ lost'
                 PROVE  \/ mine'[held'[t]] = t
                        \/ \E n \in DOMAIN queue'[held'[t]] : queue'[held'[t]][n] = t
      BY DEF NothingMislaid, HeldBySlot
    <3>1. CASE t \in Given(give)
      BY <2>4, <2>6, <3>1 DEF Given
    <3>2. CASE t \notin Given(give)
      <4>1. t \in HeldBySlot \ lost /\ held'[t] = held[t] /\ t # NoTask
        BY <2>2, <2>4, <2>5, <3>2 DEF HeldBySlot
      <4>2. \/ mine[held[t]] = t
            \/ \E n \in DOMAIN queue[held[t]] : queue[held[t]][n] = t
        BY <4>1 DEF Carried, NothingMislaid
      <4> QED
        BY <2>5, <2>6, <4>1, <4>2 DEF HeldBySlot
    <3> QED
      BY <3>1, <3>2
  <2> QED
    BY <2>4, <2>6, <2>7 DEF Carried
<1>9. ASSUME NEW i \in Slot, NoAnswer(i)
      PROVE  Carried'
  <2>1. PICK give \in Answers(IF batch = 1 THEN {i} ELSE asked) : RequestFailed(i, give)
    BY <1>9 DEF NoAnswer
  <2>2. Lease(give) /\ lost' = lost \cup Given(give) /\ UNCHANGED queue
    BY <2>1 DEF RequestFailed
  <2>3. (IF batch = 1 THEN {i} ELSE asked) \in SUBSET Slot
    BY DEF Queued
  <2>4. /\ held' \in [Task -> Slot \cup {NoSlot, Over}]
        /\ \A t \in Task \ Given(give) : held'[t] = held[t]
    BY <2>1, <2>2, <2>3, LeaseNamesTheGiven DEF Carried
  <2>5. NothingMislaid'
    BY <1>9, <2>2, <2>4 DEF NoAnswer, Carried, NothingMislaid, HeldBySlot
  <2> QED
    BY <1>9, <2>4, <2>5 DEF NoAnswer, Goto, Carried, Recorded
<1>10. ASSUME NEW i \in Slot, Thread(i)
       PROVE  Carried'
  <2>1. CASE \/ Jitter(i) \/ Begin(i) \/ Poll(i) \/ Empty(i) \/ Wake(i)
             \/ Begun(i) \/ Done(i) \/ Leave(i)
    BY <1>2, <2>1 DEF Jitter, Begin, Poll, Empty, Wake, Begun, Done, Leave, coordinatorVars
  <2> QED
    BY <1>4, <1>5, <1>8, <1>9, <1>10, <2>1 DEF Thread
<1> QED
  BY <1>3, <1>6, <1>7, <1>10 DEF Next

(* A task that the manager believes an instance of this node is running is  *)
(* where that instance will find it, unless a message or the process was    *)
(* lost: the hand-over from batch to instance loses and swaps nothing.      *)
THEOREM HandOverKeepsTasks == Spec => []NothingMislaid
<1>1. Init => Recorded /\ Queued /\ Carried
  BY CoordinatorAssumption DEF Init, NodeInit, CoordinatorInit, Recorded, NoOrphanThread, Alive,
     Has, Statuses, Places, Queued, OnePreassignedTask, Carried, NothingMislaid, HeldBySlot
<1>2. Carried => NothingMislaid
  BY DEF Carried
<1> QED
  BY <1>1, <1>2, RecordedInductive, QueuedInductive, CarriedInductive, PTL DEF Spec

-----------------------------------------------------------------------------
(* The lock: it is taken with the request and given back with its answer,   *)
(* whatever the answer is, and no thread leaves a request in another way.  *)
LockOverRequest ==
    /\ batch \in BatchSizes /\ lock \in Slot \cup {NoSlot}
    /\ \A i \in Slot : lock = i <=> (batch > 1 /\ pc[i] = "request")

(* A thread at a request with a batch is the only one there, as it has the  *)
(* lock; with a batch of 1 no thread has it.                               *)
LEMMA LockInductive == Recorded /\ LockOverRequest /\ [Next]_vars => LockOverRequest'
<1> SUFFICES ASSUME Recorded, LockOverRequest, [Next]_vars PROVE LockOverRequest'
  OBVIOUS
<1> USE CoordinatorAssumption
<1>1. ASSUME UNCHANGED <<batch, lock, pc>>
      PROVE  LockOverRequest'
  BY <1>1 DEF LockOverRequest
<1>2. ASSUME NEW i \in Slot, NEW at, pc[i] # "request", at # "request", Goto(i, at),
             UNCHANGED <<batch, lock>>
      PROVE  LockOverRequest'
  BY <1>2 DEF LockOverRequest, Goto, Recorded
<1>3. ASSUME NEW i \in Slot, Acquire(i)
      PROVE  LockOverRequest'
  <2>1. CASE TakePreassigned(i) /\ Goto(i, "taken")
    BY <1>2, <1>3, <2>1 DEF Acquire, TakePreassigned
  <2>2. CASE AskForBatch(i, Idle) /\ Goto(i, "request")
    BY <2>2 DEF AskForBatch, LockOverRequest, Goto, Recorded
  <2>3. CASE batch = 1 /\ UNCHANGED coordinatorVars /\ Goto(i, "request")
    BY <2>3 DEF coordinatorVars, LockOverRequest, Goto, Recorded
  <2> QED
    BY <1>3, <2>1, <2>2, <2>3 DEF Acquire
<1>4. ASSUME NEW i \in Slot, NEW at, pc[i] = "request", at # "request", Goto(i, at),
             batch' = batch, lock' = IF lock = i THEN NoSlot ELSE lock
      PROVE  LockOverRequest'
  BY <1>4 DEF LockOverRequest, Goto, Recorded
<1>5. ASSUME NEW i \in Slot, Answer(i)
      PROVE  LockOverRequest'
  <2>1. PICK give : BatchAnswered(i, give) \/ DirectAnswered(i, give)
    BY <1>5 DEF Answer
  <2>2. PICK at \in {"empty", "taken"} : Goto(i, at)
    BY <1>5 DEF Answer
  <2>3. batch' = batch /\ lock' = IF lock = i THEN NoSlot ELSE lock
    BY <2>1 DEF BatchAnswered, DirectAnswered, LockOverRequest
  <2> QED
    BY <1>4, <1>5, <2>2, <2>3 DEF Answer
<1>6. ASSUME NEW i \in Slot, NoAnswer(i)
      PROVE  LockOverRequest'
  BY <1>4, <1>6 DEF NoAnswer, RequestFailed
<1>7. ASSUME NEW i \in Slot, Thread(i)
      PROVE  LockOverRequest'
  <2>1. CASE Report(i)
    BY <1>2, <2>1 DEF Report, Reported
  <2>2. CASE \/ Jitter(i) \/ Begin(i) \/ Poll(i) \/ Empty(i) \/ Wake(i)
             \/ Begun(i) \/ Done(i) \/ Leave(i)
    BY <1>2, <2>2 DEF Jitter, Begin, Poll, Empty, Wake, Begun, Done, Leave, coordinatorVars
  <2> QED
    BY <1>3, <1>5, <1>6, <1>7, <2>1, <2>2 DEF Thread
<1>8. CASE Supervisor
  <2>1. ASSUME NEW i \in Slot, StartInstance(i)
        PROVE  LockOverRequest'
    <3>1. pc[i] = "dead"
      BY <2>1 DEF StartInstance, Missing, Recorded, NoOrphanThread, Alive
    <3> QED
      BY <1>2, <2>1, <3>1 DEF StartInstance, Goto, coordinatorVars
  <2>2. ASSUME NEW i \in Slot, SetStopEvent(i)
        PROVE  LockOverRequest'
    BY <1>1, <2>2 DEF SetStopEvent, coordinatorVars, threadVars
  <2> QED
    BY <1>1, <1>8, <2>1, <2>2 DEF Supervisor, AllStarted, ReadSnapshot, MarkStopping, Prune,
       Heartbeat, coordinatorVars, threadVars
<1>9. CASE Manager \/ UNCHANGED vars
  BY <1>1, <1>9 DEF Manager, LeaseExpires, vars, coordinatorVars, threadVars
<1>10. CASE Restart
  BY <1>10 DEF Restart, LockOverRequest
<1> QED
  BY <1>7, <1>8, <1>9, <1>10 DEF Next

(* The supervisor works on an instance while it stops it; what it reads of  *)
(* a snapshot and writes back is a task or none.                           *)
Supervised ==
    /\ target \in Target /\ sup \in {"start", "stop", "snapshot", "mark", "beat"}
    /\ victim \in Slot \cup {NoSlot} /\ (sup \in {"snapshot", "mark"} => victim \in Slot)
    /\ seen \in Task \cup {NoTask}
    /\ current \in [Slot -> Task \cup {NoTask}]

LEMMA SupervisedInductive == Carried /\ Supervised /\ [Next]_vars => Supervised'
<1> SUFFICES ASSUME Carried, Supervised, [Next]_vars PROVE Supervised'
  OBVIOUS
<1>1. ASSUME UNCHANGED <<supVars, current>>
      PROVE  Supervised'
  BY <1>1 DEF Supervised, supVars
<1>2. ASSUME NEW i \in Slot, NEW t \in Task \cup {NoTask}, UNCHANGED supVars,
             current' = [current EXCEPT ![i] = t]
      PROVE  Supervised'
  BY <1>2 DEF Supervised, supVars
<1>3. CASE Supervisor
  <2>1. ASSUME NEW i \in Slot, StartInstance(i) \/ SetStopEvent(i)
        PROVE  Supervised'
    BY <1>2, <2>1 DEF StartInstance, SetStopEvent, Supervised
  <2>2. CASE AllStarted \/ ReadSnapshot \/ MarkStopping
    BY <2>2 DEF AllStarted, ReadSnapshot, MarkStopping, recordVars, Supervised
  <2>3. CASE Prune \/ Heartbeat
    BY <2>3 DEF Prune, Heartbeat, recordVars, Supervised
  <2> QED
    BY <1>3, <2>1, <2>2, <2>3 DEF Supervisor
<1>4. ASSUME NEW i \in Slot, Thread(i)
      PROVE  Supervised'
  <2>1. CASE Jitter(i) \/ Poll(i) \/ Acquire(i) \/ Answer(i) \/ NoAnswer(i) \/ Wake(i) \/ Report(i)
    BY <1>1, <2>1 DEF Jitter, Poll, Acquire, Answer, NoAnswer, Wake, Report, recordVars
  <2>2. CASE Begin(i) \/ Empty(i) \/ Done(i)
    BY <1>2, <2>2 DEF Begin, Empty, Done, SetStatus
  <2>3. CASE Begun(i)
    BY <1>2, <2>3 DEF Begun, SetStatus, Carried
  <2>4. CASE Leave(i)
    BY <1>1, <1>2, <2>4 DEF Leave, SetStatus, recordVars
  <2> QED
    BY <1>4, <2>1, <2>2, <2>3, <2>4 DEF Thread
<1>5. CASE Manager \/ UNCHANGED vars
  BY <1>1, <1>5 DEF Manager, vars, recordVars
<1>6. CASE Restart
  BY <1>6 DEF Restart, Supervised
<1> QED
  BY <1>3, <1>4, <1>5, <1>6 DEF Next

(* A thread past the lease has a task to run, and a task whose lease        *)
(* response or report was lost is still leased to an instance of the node. *)
Executing ==
    /\ \A i \in Slot : pc[i] \in {"taken", "run"} => mine[i] \in Task
    /\ lost \subseteq HeldBySlot

LEMMA ExecutingInductive == Recorded /\ Queued /\ Carried /\ Executing /\ [Next]_vars => Executing'
<1> SUFFICES ASSUME Recorded, Queued, Carried, Executing, [Next]_vars PROVE Executing'
  OBVIOUS
<1>1. ASSUME UNCHANGED <<held, lost, mine>>,
             \A i \in Slot : pc'[i] \in {"taken", "run"} => pc[i] \in {"taken", "run"}
      PROVE  Executing'
  BY <1>1 DEF Executing, HeldBySlot
<1>2. ASSUME NEW i \in Slot, NEW at, at \notin {"taken", "run"} \/ pc[i] \in {"taken", "run"},
             Goto(i, at), UNCHANGED <<held, lost, mine>>
      PROVE  Executing'
  BY <1>1, <1>2 DEF Goto, Recorded
<1>3. ASSUME NEW i \in Slot, Acquire(i)
      PROVE  Executing'
  <2>1. CASE TakePreassigned(i) /\ mine' = [mine EXCEPT ![i] = Head(queue[i])] /\ Goto(i, "taken")
    <3>1. Head(queue[i]) \in Task
      BY <2>1, ShortSequence DEF TakePreassigned, Queued, OnePreassignedTask
    <3> QED
      BY <2>1, <3>1 DEF TakePreassigned, Goto, Recorded, Carried, Executing, HeldBySlot
  <2>2. CASE /\ AskForBatch(i, Idle) \/ UNCHANGED coordinatorVars
             /\ UNCHANGED mine /\ Goto(i, "request")
    BY <1>2, <2>2 DEF AskForBatch, coordinatorVars
  <2> QED
    BY <1>3, <2>1, <2>2 DEF Acquire
<1>4. ASSUME NEW i \in Slot, Answer(i) \/ NoAnswer(i),
             NEW give \in Answers(IF batch = 1 THEN {i} ELSE asked), Lease(give),
             lost' = lost \ Given(give) \/ lost' = lost \cup Given(give)
      PROVE  lost' \subseteq HeldBySlot'
  <2>1. (IF batch = 1 THEN {i} ELSE asked) \in SUBSET Slot
    BY DEF Queued
  <2>2. /\ \A k \in DOMAIN give : k \in Slot /\ give[k] \in Task /\ held'[give[k]] = k
        /\ \A t \in Task \ Given(give) : held'[t] = held[t]
    BY <1>4, <2>1, LeaseNamesTheGiven DEF Carried
  <2>3. \A t \in Given(give) : t \in HeldBySlot'
    BY <2>2 DEF Given, HeldBySlot
  <2>4. \A t \in lost \ Given(give) : t \in HeldBySlot'
    BY <2>2 DEF Executing, HeldBySlot
  <2> QED
    BY <1>4, <2>3, <2>4
<1>5. ASSUME NEW i \in Slot, Answer(i)
      PROVE  Executing'
  <2> DEFINE foundIn(give) == IF batch > 1 THEN BatchFound(i, give)
                              ELSE IF i \in DOMAIN give THEN give[i] ELSE NoTask
             Takes(t) == /\ mine' = [mine EXCEPT ![i] = t]
                         /\ Goto(i, IF t = NoTask THEN "empty" ELSE "taken")
  <2>1. PICK give \in Answers(IF batch = 1 THEN {i} ELSE asked) :
            (BatchAnswered(i, give) \/ DirectAnswered(i, give)) /\ Takes(foundIn(give))
    BY <1>5 DEF Answer
  <2>2. Lease(give) /\ lost' = lost \ Given(give)
    BY <2>1 DEF BatchAnswered, DirectAnswered
  <2>3. lost' \subseteq HeldBySlot'
    BY <1>4, <1>5, <2>2
  <2>4. PICK found : Takes(found)
    <3> HIDE DEF Takes, foundIn
    <3> QED
      BY <2>1
  <2>5. found \in Task \cup {NoTask}
    <3>1. mine'[i] = found /\ mine' \in [Slot -> Task \cup {NoTask}]
      BY <2>4, CarriedInductive DEF Carried
    <3> QED
      BY <3>1
  <2>6. \A k \in Slot : pc'[k] \in {"taken", "run"} => mine'[k] \in Task
    BY <2>4, <2>5 DEF Executing, Goto, Recorded, Carried
  <2> QED
    BY <2>3, <2>6 DEF Executing
<1>6. ASSUME NEW i \in Slot, NoAnswer(i)
      PROVE  Executing'
  <2>1. PICK give \in Answers(IF batch = 1 THEN {i} ELSE asked) : RequestFailed(i, give)
    BY <1>6 DEF NoAnswer
  <2>2. lost' \subseteq HeldBySlot'
    BY <1>4, <1>6, <2>1 DEF RequestFailed
  <2>3. \A k \in Slot : pc'[k] \in {"taken", "run"} => mine'[k] \in Task
    BY <1>6 DEF NoAnswer, Executing, Goto, Recorded
  <2> QED
    BY <2>2, <2>3 DEF Executing
<1>7. ASSUME NEW i \in Slot, Report(i)
      PROVE  Executing'
  <2>1. mine[i] \in Task
    BY <1>7 DEF Report, Executing
  <2>2. lost' \subseteq HeldBySlot'
    BY <1>7, <2>1 DEF Report, Reported, Executing, Carried, HeldBySlot
  <2>3. \A k \in Slot : pc'[k] \in {"taken", "run"} => mine'[k] \in Task
    BY <1>7 DEF Report, Executing, Goto, Recorded, Carried
  <2> QED
    BY <2>2, <2>3 DEF Executing
<1>8. ASSUME NEW i \in Slot, Thread(i)
      PROVE  Executing'
  <2>1. CASE \/ Jitter(i) \/ Begin(i) \/ Poll(i) \/ Empty(i) \/ Wake(i)
             \/ Begun(i) \/ Done(i) \/ Leave(i)
    BY <1>2, <2>1 DEF Jitter, Begin, Poll, Empty, Wake, Begun, Done, Leave, coordinatorVars
  <2> QED
    BY <1>3, <1>5, <1>6, <1>7, <1>8, <2>1 DEF Thread
<1>9. CASE Supervisor
  <2>1. ASSUME NEW i \in Slot, StartInstance(i)
        PROVE  Executing'
    BY <1>2, <2>1 DEF StartInstance, Goto, coordinatorVars
  <2>2. ASSUME NEW i \in Slot, SetStopEvent(i)
        PROVE  Executing'
    BY <1>1, <2>2 DEF SetStopEvent, coordinatorVars, threadVars
  <2> QED
    BY <1>1, <1>9, <2>1, <2>2 DEF Supervisor, AllStarted, ReadSnapshot, MarkStopping, Prune,
       Heartbeat, coordinatorVars, threadVars
<1>10. CASE Manager
  BY <1>10 DEF Manager, LeaseExpires, threadVars, Executing, Carried, HeldBySlot
<1>11. CASE Restart
  BY <1>11 DEF Restart, Executing, HeldBySlot
<1>12. CASE UNCHANGED vars
  BY <1>1, <1>12 DEF vars, coordinatorVars, threadVars
<1> QED
  BY <1>8, <1>9, <1>10, <1>11, <1>12 DEF Next

-----------------------------------------------------------------------------
(* Stopping: the event stays set until the thread has ended, and a thread   *)
(* that has started a task since then is past the point where it takes     *)
(* another: it comes to its next check and leaves.                         *)
PastTheLease == {"run", "done", "poll", "leave", "close", "return", "dead"}
Stopping ==
    /\ stop \in [Slot -> BOOLEAN] /\ late \in [Slot -> 0 .. 1]
    /\ \A i \in Slot : late[i] = 1 => stop[i] /\ pc[i] \in PastTheLease

LEMMA StoppingInductive == Recorded /\ Stopping /\ [Next]_vars => Stopping'
<1> SUFFICES ASSUME Recorded, Stopping, [Next]_vars PROVE Stopping'
  OBVIOUS
<1>1. ASSUME UNCHANGED <<stop, late, pc>>
      PROVE  Stopping'
  BY <1>1 DEF Stopping
<1>2. ASSUME NEW i \in Slot, NEW at, Goto(i, at), UNCHANGED <<stop, late>>,
             pc[i] \notin PastTheLease \/ at \in PastTheLease \/ ~stop[i]
      PROVE  Stopping'
  BY <1>2 DEF Stopping, Goto, Recorded
<1>3. ASSUME NEW i \in Slot, Thread(i)
      PROVE  Stopping'
  <2>1. CASE Jitter(i) \/ Begin(i) \/ Acquire(i) \/ Empty(i) \/ Wake(i) \/ NoAnswer(i)
    BY <1>2, <2>1
       DEF Jitter, Begin, Acquire, Empty, Wake, NoAnswer, SetStatus, recordVars, PastTheLease
  <2>2. CASE Answer(i)
    <3>1. PICK at : Goto(i, at)
      BY <2>2 DEF Answer
    <3> QED
      BY <1>2, <2>2, <3>1 DEF Answer, recordVars, PastTheLease
  <2>3. CASE Poll(i) \/ Report(i) \/ Done(i) \/ Leave(i)
    BY <1>2, <2>3 DEF Poll, Report, Done, Leave, SetStatus, recordVars, PastTheLease
  <2>4. CASE Begun(i)
    <3>1. late[i] = 0
      BY <2>4 DEF Begun, Stopping, PastTheLease
    <3>2. late' = [late EXCEPT ![i] = IF stop[i] THEN 1 ELSE 0]
      BY <2>4, <3>1 DEF Begun, Stopping
    <3> QED
      BY <2>4, <3>2 DEF Begun, Goto, SetStatus, Stopping, Recorded, PastTheLease
  <2> QED
    BY <1>3, <2>1, <2>2, <2>3, <2>4 DEF Thread
<1>4. CASE Supervisor
  <2>1. ASSUME NEW i \in Slot, StartInstance(i)
        PROVE  Stopping'
    BY <2>1 DEF StartInstance, Stopping, Recorded
  <2>2. ASSUME NEW i \in Slot, SetStopEvent(i)
        PROVE  Stopping'
    BY <2>2 DEF SetStopEvent, threadVars, Stopping
  <2> QED
    BY <1>1, <1>4, <2>1, <2>2 DEF Supervisor, AllStarted, ReadSnapshot, MarkStopping, Prune,
       Heartbeat, threadVars, recordVars
<1>5. CASE Manager \/ UNCHANGED vars
  BY <1>1, <1>5 DEF Manager, vars, threadVars, recordVars
<1>6. CASE Restart
  BY <1>6 DEF Restart, Stopping
<1> QED
  BY <1>3, <1>4, <1>5, <1>6 DEF Next

(* An instance told to stop starts at most one more task, wherever in its   *)
(* loop the event finds it and however requests and answers interleave.    *)
THEOREM StopAllowsOneTask == Spec => []StopsAfterOneMore
<1>1. Init => Recorded /\ Stopping
  BY DEF Init, NodeInit, Recorded, NoOrphanThread, Alive, Has, Statuses, Places, Stopping
<1>2. Stopping => StopsAfterOneMore
  BY DEF Stopping, StopsAfterOneMore
<1> QED
  BY <1>1, <1>2, RecordedInductive, StoppingInductive, PTL DEF Spec

-----------------------------------------------------------------------------
(* What the records say.  A record that no stop has been written to is      *)
(* changed by its own thread alone, together with what the thread does.    *)
LEMMA BusyInductive == Recorded /\ Carried /\ Supervised /\ BusyIsBusy /\ [Next]_vars => BusyIsBusy'
<1> SUFFICES ASSUME Recorded, Carried, Supervised, BusyIsBusy, [Next]_vars PROVE BusyIsBusy'
  OBVIOUS
<1>1. ASSUME UNCHANGED <<status, current, pc, mine>>
      PROVE  BusyIsBusy'
  BY <1>1 DEF BusyIsBusy, Has
\* A thread that is not at work has a record without a task, wherever it goes.
<1>2. ASSUME NEW i \in Slot, UNCHANGED <<status, current>>, pc[i] \notin {"run", "done"},
             \A k \in Slot \ {i} : pc'[k] = pc[k] /\ mine'[k] = mine[k]
      PROVE  BusyIsBusy'
  BY <1>2 DEF BusyIsBusy, Has
\* Writing a record without a task.
<1>3. ASSUME NEW i \in Slot, NEW to, SetStatus(i, to, NoTask),
             \A k \in Slot \ {i} : pc'[k] = pc[k] /\ mine'[k] = mine[k]
      PROVE  BusyIsBusy'
  BY <1>3 DEF SetStatus, BusyIsBusy, Has, Recorded, Supervised
<1>4. \A i \in Slot : \A at : Goto(i, at) => \A k \in Slot \ {i} : pc'[k] = pc[k]
  BY DEF Goto, Recorded
<1>5. ASSUME NEW i \in Slot, Thread(i)
      PROVE  BusyIsBusy'
  <2>1. CASE Jitter(i) \/ Poll(i) \/ Wake(i) \/ NoAnswer(i)
    BY <1>2, <1>4, <2>1 DEF Jitter, Poll, Wake, NoAnswer, recordVars
  <2>2. CASE Acquire(i) \/ Answer(i)
    <3>1. /\ pc[i] \in {"acquire", "request"} /\ UNCHANGED recordVars
          /\ \E at : Goto(i, at)
          /\ \A k \in Slot \ {i} : mine'[k] = mine[k]
      BY <2>2 DEF Acquire, Answer, Carried
    <3> QED
      BY <1>2, <1>4, <3>1 DEF recordVars
  <2>3. CASE Begin(i) \/ Empty(i) \/ Done(i)
    BY <1>3, <1>4, <2>3 DEF Begin, Empty, Done
  <2>4. CASE Leave(i)
    BY <1>2, <1>3, <1>4, <2>4 DEF Leave, recordVars
  <2>5. CASE Begun(i)
    BY <2>5 DEF Begun, SetStatus, Goto, BusyIsBusy, Has, Recorded, Supervised
  <2>6. CASE Report(i)
    BY <2>6 DEF Report, Goto, recordVars, BusyIsBusy, Has, Recorded, Carried
  <2> QED
    BY <1>5, <2>1, <2>2, <2>3, <2>4, <2>5, <2>6 DEF Thread
<1>6. CASE Supervisor
  <2>1. ASSUME NEW i \in Slot, StartInstance(i)
        PROVE  BusyIsBusy'
    BY <2>1 DEF StartInstance, BusyIsBusy, Has, Recorded, Supervised
  <2>2. ASSUME NEW i \in Slot, SetStopEvent(i)
        PROVE  BusyIsBusy'
    BY <1>1, <2>2 DEF SetStopEvent, threadVars
  <2>3. CASE MarkStopping
    BY <2>3 DEF MarkStopping, threadVars, BusyIsBusy, Has, Recorded, Supervised
  <2>4. CASE Prune
    BY <2>4 DEF Prune, threadVars, BusyIsBusy, Has, Recorded
  <2>5. CASE AllStarted \/ ReadSnapshot \/ Heartbeat
    BY <1>1, <2>5 DEF AllStarted, ReadSnapshot, Heartbeat, threadVars, recordVars
  <2> QED
    BY <1>6, <2>1, <2>2, <2>3, <2>4, <2>5 DEF Supervisor
<1>7. CASE Manager \/ UNCHANGED vars
  BY <1>1, <1>7 DEF Manager, vars, threadVars, recordVars
<1>8. CASE Restart
  BY <1>8 DEF Restart, BusyIsBusy, Has
<1> QED
  BY <1>5, <1>6, <1>7, <1>8 DEF Next

-----------------------------------------------------------------------------
(* The parts together, and what they give.                                  *)
NodeInv ==
    Recorded /\ Queued /\ Carried /\ LockOverRequest /\ Supervised /\ Executing /\ Stopping /\ BusyIsBusy

LEMMA NodeInvStarts == Init => NodeInv
<1> SUFFICES ASSUME Init PROVE NodeInv
  OBVIOUS
<1> USE CoordinatorAssumption DEF Init, NodeInit, CoordinatorInit
<1>1. Recorded /\ Stopping /\ BusyIsBusy
  BY DEF Recorded, NoOrphanThread, Alive, Has, Statuses, Places, Stopping, BusyIsBusy
<1>2. Queued /\ Carried
  BY DEF Queued, OnePreassignedTask, Carried, NothingMislaid, HeldBySlot
<1>3. LockOverRequest /\ Supervised /\ Executing
  BY DEF LockOverRequest, Supervised, Executing, HeldBySlot
<1> QED
  BY <1>1, <1>2, <1>3 DEF NodeInv

LEMMA NodeInvInductive == NodeInv /\ [Next]_vars => NodeInv'
BY RecordedInductive, QueuedInductive, CarriedInductive, LockInductive, SupervisedInductive,
   ExecutingInductive, StoppingInductive, BusyInductive DEF NodeInv

(* Types; and the coordinator's lock is held exactly over the request of    *)
(* the instance that holds it, whatever becomes of the request: a lost     *)
(* answer, a stop or a restart never leaves the node locked.               *)
THEOREM LockIsGivenBack == Spec => []TypeOK
<1>1. NodeInv => TypeOK
  <2> SUFFICES ASSUME NodeInv PROVE TypeOK
    OBVIOUS
  <2>1. /\ \A i \in Slot : lock = i <=> (batch > 1 /\ pc[i] = "request")
        /\ batch \in BatchSizes /\ lock \in Slot \cup {NoSlot} /\ asked \subseteq Slot
        /\ queue \in [Slot -> Seq(Task)]
        /\ held \in [Task -> Slot \cup {NoSlot, Over}] /\ lost \subseteq HeldBySlot
    BY DEF NodeInv, LockOverRequest, Queued, Carried, Executing
  <2>2. /\ target \in Target /\ victim \in Slot \cup {NoSlot} /\ seen \in Task \cup {NoTask}
        /\ sup \in {"start", "stop", "snapshot", "mark", "beat"}
        /\ current \in [Slot -> Task \cup {NoTask}] /\ mine \in [Slot -> Task \cup {NoTask}]
    BY DEF NodeInv, Supervised, Carried
  <2>3. stop \in [Slot -> BOOLEAN] /\ late \in [Slot -> 0 .. 2]
    BY DEF NodeInv, Stopping
  <2>4. status \in [Slot -> Statuses] /\ pc \in [Slot -> Places]
    BY DEF NodeInv, Recorded
  <2> QED
    BY <2>1, <2>2, <2>3, <2>4 DEF TypeOK, Statuses, Places
<1> QED
  BY <1>1, NodeInvStarts, NodeInvInductive, PTL DEF Spec

(* An instance that heartbeats as busy with a task is working on that task, *)
(* unless it is stopping.                                                  *)
THEOREM BusyMeansAtWork == Spec => []BusyIsBusy
<1>1. NodeInv => BusyIsBusy
  BY DEF NodeInv
<1> QED
  BY <1>1, NodeInvStarts, NodeInvInductive, PTL DEF Spec
=============================================================================
