------------------------------ MODULE Dispatch ------------------------------
(***************************************************************************)
(* Which queued task which node is given (lease_tasks and                  *)
(* lease_tasks_for_instances), over the registry of nodes, the priorities  *)
(* of sessions and tasks and the pauses; and what the queue diagnostics    *)
(* say of the same tables.                                                 *)
(*                                                                         *)
(* What else happens to a task is TaskStore's subject and appears here as  *)
(* an environment that may do more: a task settles, a running one returns  *)
(* to the queue, a job's status moves between leaseable and not, at any    *)
(* time.                                                                   *)
(***************************************************************************)
EXTENDS WorkerRegistry

CONSTANTS Task,           \* naturals, in the order of created_at, input_index, id
          Job, Session, JobOf, SessionOf,
          TypeOf, TagsOf, \* task_type and required_tags of each job
          Priority,       \* priorities clients and operators choose
          WindowFactor,   \* LEASE_CANDIDATE_MULTIPLIER
          LeaseLimit,     \* the most tasks one lease_tasks call asks for
          NoOwner,
          MaxCommands     \* bound: operator commands and task returns

ASSUME DispatchAssumption ==
    /\ Task \subseteq Nat /\ IsFiniteSet(Task)
    /\ JobOf \in [Task -> Job]
    /\ SessionOf \in [Job -> Session]
    /\ TypeOf \in [Job -> Type]
    /\ TagsOf \in [Job -> SUBSET Tag]
    /\ Priority \subseteq Nat
    /\ WindowFactor \in Nat \ {0}
    /\ LeaseLimit \in Nat \ {0}
    /\ NoOwner \notin Executor
    /\ MaxCommands \in Nat

VARIABLES
    task,       \* status, priority and owner of each task row
    job,        \* paused, and closing: status cancelled or cancelling
    session,    \* paused, and the session's priority
    commands    \* bound: operator commands and task returns so far

queue == <<task, job, session>>
vars == <<registry, queue, commands>>

NoTask == [status |-> "absent", priority |-> 0, owner |-> NoOwner]

Init ==
    /\ RegistryInit
    /\ task = [t \in Task |-> NoTask]
    /\ job = [j \in Job |-> [paused |-> FALSE, closing |-> FALSE]]
    /\ session = [s \in Session |-> [paused |-> FALSE, priority |-> 0]]
    /\ commands = 0

InStatus(status) == {t \in Task : task[t].status = status}
Queued == InStatus("queued")
Moved(t, status, owner) == [status |-> status, priority |-> task[t].priority, owner |-> owner]

-----------------------------------------------------------------------------
(* The queue.                                                              *)

(* ORDER BY priority DESC, created_at, input_index, id.                     *)
(* Mutant: the newest first.                                                *)
MutNewestFirst(t, u) ==
    \/ task[t].priority > task[u].priority
    \/ task[t].priority = task[u].priority /\ t > u
Before(t, u) ==
    \/ task[t].priority > task[u].priority
    \/ task[t].priority = task[u].priority /\ t < u
(* The best n of T.                                                        *)
Best(T, n) == {t \in T : Cardinality({u \in T : Before(u, t)}) < n}

JobLeaseable(j) == ~job[j].closing /\ ~job[j].paused /\ ~session[SessionOf[j]].paused
Leaseable == {t \in Queued : JobLeaseable(JobOf[t])}

(* A node without a catalogue of task types is open to all of them.        *)
OffersType(ad, j) == ad.types = {} \/ TypeOf[j] \in ad.types
Fits(ad, j) == OffersType(ad, j) /\ TagsOf[j] \subseteq ad.tags

(* The rows a lease of n tasks reads, and what it takes of them for a node *)
(* with metadata ad.                                                       *)
Window(n) == Best(Leaseable, n * WindowFactor)
(* Mutant: the scan ends at the first row the node cannot run.             *)
MutEndsAtMisfit(ad, n) ==
    Best({t \in Window(n) : \A u \in Window(n) : u = t \/ Before(u, t) => Fits(ad, JobOf[u])}
           \cap {t \in Window(n) : Fits(ad, JobOf[t])}, n)
Taken(ad, n) == Best({t \in Window(n) : Fits(ad, JobOf[t])}, n)

-----------------------------------------------------------------------------
(* Leases.  A lease registers an unknown node first; a blocked node, or a  *)
(* drained instance, gets nothing.                                         *)
HandOut(give) ==
    task' = [t \in Task |-> IF t \in DOMAIN give THEN Moved(t, "running", give[t]) ELSE task[t]]

(* lease_tasks: the best n tasks for one executor.                         *)
LeaseTasks(w, i, n) ==
    LET takes == IF Blocked(config[w]) \/ <<w, i>> \in drained THEN {}
                 ELSE Taken(Registered(w)[w].advert, n)
    IN  /\ RegisterForLease(w, 1)
        /\ HandOut([t \in takes |-> <<w, i>>])
        /\ UNCHANGED <<job, session, commands>>

(* lease_tasks_for_instances: one task for each of the undrained ones of I,*)
(* in the order in which the node names them.                              *)
(* Mutant: a drained instance is not left out.                             *)
MutIgnoresDrain(w, I) == I
Undrained(w, I) == {i \in I : <<w, i>> \notin drained}
LeaseForInstances(w, I) ==
    LET free == IF Blocked(config[w]) THEN {} ELSE Undrained(w, I)
        takes == Taken(Registered(w)[w].advert, Cardinality(free))
    IN  /\ RegisterForLease(w, Cardinality(I))
        /\ \E to \in [takes -> free] :
              /\ \A t, u \in takes : to[t] = to[u] => t = u
              /\ HandOut([t \in takes |-> <<w, to[t]>>])
        /\ UNCHANGED <<job, session, commands>>

LeaseStep(w) ==
    \/ \E e \in Executor, n \in 1 .. LeaseLimit : e[1] = w /\ LeaseTasks(w, e[2], n)
    \/ \E I \in SUBSET InstancesOf(w) : I # {} /\ LeaseForInstances(w, I)

-----------------------------------------------------------------------------
(* Submission and priorities.                                              *)

(* require_capable_worker: an active node advertises the type and the tags.*)
Capable(j) == {w \in Worker : /\ Active(w)
                              /\ TypeOf[j] \in worker[w].advert.types
                              /\ TagsOf[j] \subseteq worker[w].advert.tags}

(* Queued tasks of the session move to priority p.                         *)
Reprioritized(s, p) ==
    [t \in Task |-> IF t \in Queued /\ SessionOf[JobOf[t]] = s
                    THEN [status |-> "queued", priority |-> p, owner |-> NoOwner] ELSE task[t]]

(* create_job: jp is the job's own priority, sp the session's, each given  *)
(* or not.  A new session takes sp, or jp, or 0; an old one moves to sp.   *)
(* The place of a job and a session whose tasks are all gone is free.      *)
Given(p) == IF p = {} THEN 0 ELSE CHOOSE x \in p : TRUE
CreateJob(j, jp, sp, new, require) ==
    LET s == SessionOf[j]
        mine == {t \in Task : JobOf[t] = j}
        sessionP == IF sp # {} THEN Given(sp)
                    ELSE IF new THEN Given(jp) ELSE session[s].priority
        jobP == IF jp # {} THEN Given(jp) ELSE sessionP
        moved == IF sessionP # session[s].priority THEN Reprioritized(s, sessionP) ELSE task
    IN  /\ \A t \in mine : task[t].status = "absent"
        /\ new => \A t \in Task : SessionOf[JobOf[t]] = s => task[t].status = "absent"
        /\ require => Capable(j) # {}
        /\ session' = [session EXCEPT ![s] = [priority |-> sessionP,
                                             paused |-> ~new /\ session[s].paused]]
        /\ job' = [job EXCEPT ![j] = [paused |-> FALSE, closing |-> FALSE]]
        /\ task' = [t \in Task |-> IF t \in mine
                                   THEN [status |-> "queued", priority |-> jobP, owner |-> NoOwner]
                                   ELSE moved[t]]
        /\ UNCHANGED <<registry, commands>>

SetSessionPriority(s, p) ==
    /\ session[s].priority # p
    /\ session' = [session EXCEPT ![s].priority = p]
    /\ task' = Reprioritized(s, p)
    /\ UNCHANGED <<registry, job>>

SetJobPaused(j, b) ==
    /\ job' = [job EXCEPT ![j].paused = b]
    /\ UNCHANGED <<registry, task, session>>
SetSessionPaused(s, b) ==
    /\ session' = [session EXCEPT ![s].paused = b]
    /\ UNCHANGED <<registry, task, job>>

-----------------------------------------------------------------------------
(* The environment: what TaskStore says of reports, expiry, cancel, retry. *)

(* A task settles, or is cancelled in the queue.  A settled row plays no   *)
(* part in any of this, so its place is free for a new task.               *)
TaskEnds(t) ==
    /\ task[t].status # "absent"
    /\ task' = [task EXCEPT ![t] = NoTask]
    /\ UNCHANGED <<registry, job, session, commands>>
(* A failed attempt or an expired lease: the row keeps its priority.        *)
TaskReturns(t) ==
    /\ task[t].status = "running"
    /\ task' = [task EXCEPT ![t] = Moved(t, "queued", NoOwner)]
    /\ UNCHANGED <<registry, job, session>>
JobTurns(j) ==
    /\ job' = [job EXCEPT ![j].closing = ~@]
    /\ UNCHANGED <<registry, task, session>>

-----------------------------------------------------------------------------
(* Running tasks of a node.  Executor ids are strings, "id-instance", and  *)
(* both readers below take them apart by prefix.                           *)

(* _worker_running_assignment_count: "id" or "id-...", which are also the  *)
(* executors of nodes whose id extends w's.                                *)
(* Mutant: the whole id is compared.                                       *)
MutExactId(w) == {t \in InStatus("running") : task[t].owner = <<w, Itself>>}
RunningAssignments(w) ==
    {t \in InStatus("running") : LET v == task[t].owner[1] IN v = w \/ w \in Extends[v]}

(* _split_executor_assignment with the known ids: the longest one that fits.*)
Split(v) == IF v \in Known THEN {v}
            ELSE {w \in Extends[v] \cap Known : \A u \in Extends[v] \cap Known : u = w \/ u \in Extends[w]}
BusySlots(w) == Cardinality({t \in InStatus("running") : w \in Split(task[t].owner[1])})
DrainedSlots(w) == Cardinality({i \in 1 .. MaxSize : <<w, i>> \in drained})
Slots(w) == IF worker[w].advert.slots # 0 THEN worker[w].advert.slots ELSE config[w].desired
(* Mutant: drained instances count as free.                                *)
MutForgetsDrain(w) == Slots(w) > BusySlots(w)
HasFreeSlot(w) == Slots(w) > BusySlots(w) + DrainedSlots(w)

(* _queued_task_diagnostic.                                                *)
(* Mutant: a node without a catalogue supports nothing, as in the catalog. *)
MutNeedsCatalog(j) == {w \in Known : TypeOf[j] \in worker[w].advert.types}
Supporting(j) == {w \in Known : OffersType(worker[w].advert, j)}
Matching(j) == {w \in Supporting(j) : TagsOf[j] \subseteq worker[w].advert.tags}
Diagnosis(t) ==
    LET j == JobOf[t]
        matching == Matching(j)
        active == {w \in matching : Active(w)}
    IN  IF job[j].closing THEN "job_not_leaseable"
        ELSE IF job[j].paused THEN "job_paused"
        ELSE IF session[SessionOf[j]].paused THEN "session_paused"
        ELSE IF Known = {} THEN "no_workers_registered"
        ELSE IF Supporting(j) = {} THEN "no_worker_supports_task_type"
        ELSE IF matching = {} THEN "missing_required_tags"
        ELSE IF active # {} THEN
             IF \A w \in active : ~HasFreeSlot(w) THEN "all_capable_workers_busy"
             ELSE "leaseable_now"
        ELSE IF \A w \in matching : config[w].disabled THEN "all_capable_workers_disabled"
        ELSE IF \A w \in matching : config[w].draining THEN "all_capable_workers_draining"
        ELSE IF \A w \in matching : ~Beating(w) THEN "all_capable_workers_stale"
        ELSE "no_active_capable_worker"

PurgeOffline(stale, force) ==
    /\ Purge(stale, IF force THEN {} ELSE {w \in Known : RunningAssignments(w) # {}})
    /\ UNCHANGED <<queue, commands>>

-----------------------------------------------------------------------------
Optional == {{}} \cup {{p} : p \in Priority}
Command ==
    \/ OrderStep /\ UNCHANGED queue
    \/ \E s \in Session : (\E p \in Priority : SetSessionPriority(s, p))
                          \/ (\E b \in BOOLEAN : SetSessionPaused(s, b))
    \/ \E j \in Job : JobTurns(j) \/ \E b \in BOOLEAN : SetJobPaused(j, b)
    \/ \E t \in Task : TaskReturns(t)

Next ==
    \/ \E w \in Worker : LeaseStep(w)
    \/ (NodeStep \/ AnswerStep) /\ UNCHANGED <<queue, commands>>
    \/ \E j \in Job, jp, sp \in Optional, new, require \in BOOLEAN : CreateJob(j, jp, sp, new, require)
    \/ \E t \in Task : TaskEnds(t)
    \/ \E stale \in StaleSets, force \in BOOLEAN : PurgeOffline(stale, force)
    \/ commands < MaxCommands /\ commands' = commands + 1 /\ Command

Spec == Init /\ [][Next]_vars
(* Every executor polls by itself, at its own pace and for ever: batch      *)
(* size 1, the default of lease_tasks.                                     *)
FairSpec == Spec /\ \A e \in Executor : WF_vars(LeaseTasks(e[1], e[2], 1))

-----------------------------------------------------------------------------
TypeOK ==
    /\ RegistryTypeOK
    /\ task \in [Task -> [status : {"absent", "queued", "running"}, priority : Priority \cup {0},
                          owner : Executor \cup {NoOwner}]]
    /\ \A t \in Task : task[t].status = "running" <=> task[t].owner # NoOwner
    /\ job \in [Job -> [paused : BOOLEAN, closing : BOOLEAN]]
    /\ session \in [Session -> [paused : BOOLEAN, priority : Priority \cup {0}]]
    /\ commands \in 0 .. MaxCommands

HandedOut(t) == task[t].status = "queued" /\ task'[t].status = "running"

(* No task is handed to a node that operators last disabled or put to      *)
(* drain, or to a drained instance, whatever came between their order and  *)
(* the lease: heartbeats, a fallback registration, orders about its size.  *)
NoLeaseOnHold ==
    [][\A t \in Task :
          HandedOut(t) => LET e == task'[t].owner
                          IN  ~told[e[1]].disabled /\ ~told[e[1]].draining /\ e \notin drained]_vars

(* A node gets only work that the metadata it sent last fits, unless it    *)
(* sent none since its row was purged (core.py:2066: "do not lease         *)
(* unsupported work to it").                                               *)
WorkFitsNode ==
    [][\A t \in Task :
          HandedOut(t) => LET ad == told[task'[t].owner[1]].advert
                          IN  /\ ad.types = {} \/ TypeOf[JobOf[t]] \in ad.types
                              /\ TagsOf[JobOf[t]] \subseteq ad.tags]_vars

(* No lease passes over an earlier or more urgent task that the node fits  *)
(* and nobody paused or closed.                                            *)
BestFirst ==
    [][\A t, u \in Task :
          /\ HandedOut(t)
          /\ u \in Leaseable /\ task'[u].status = "queued"
          /\ Fits(told[task'[t].owner[1]].advert, JobOf[u])
          => \/ task[t].priority > task[u].priority
             \/ task[t].priority = task[u].priority /\ t < u]_vars

(* What the diagnostics call blocked, for any reason but busy nodes, no    *)
(* active node that has a row would be given.                              *)
BlockedIsBlocked ==
    \A t \in Queued : Diagnosis(t) \notin {"leaseable_now", "all_capable_workers_busy"}
        => \A w \in Worker, n \in 1 .. LeaseLimit : Active(w) => t \notin Taken(worker[w].advert, n)

(* What they call leaseable now, a node in service that fits it has an     *)
(* instance for: idle and not drained, among those it runs (or is to run,  *)
(* when it says it runs none).  Whether the row is within the window of a  *)
(* lease they do not ask.                                                  *)
LeaseableHasTaker ==
    \A t \in Queued : Diagnosis(t) = "leaseable_now" =>
        \E w \in Known, i \in 1 .. MaxSize :
            /\ ~told[w].disabled /\ ~told[w].draining /\ Fits(told[w].advert, JobOf[t])
            /\ i <= (IF told[w].advert.slots # 0 THEN told[w].advert.slots ELSE config[w].desired)
            /\ <<w, i>> \notin drained
            /\ \A u \in InStatus("running") : task[u].owner # <<w, i>>

(* No purge but one that asks for it removes the row of a node that runs a *)
(* task, under whatever ids its executors report and whatever nodes have   *)
(* ids that extend one another.                                            *)
PurgeSparesBusy ==
    [][\A stale \in StaleSets : PurgeOffline(stale, FALSE) =>
          \A t \in InStatus("running") :
              LET w == task[t].owner[1] IN w \in Known => worker'[w] # Absent]_vars

(* A task that is the best of what an executor fits, and stays in reach of *)
(* its lease, does not wait for ever: the tasks before it that the node    *)
(* cannot run do not hold it up.                                           *)
Servable(t, e) ==
    LET fits(u) == Fits(Registered(e[1])[e[1]].advert, JobOf[u])
    IN  /\ ~Blocked(config[e[1]]) /\ e \notin drained
        /\ t \in Window(1) /\ fits(t)
        /\ \A u \in Leaseable : fits(u) => u = t \/ Before(t, u)
ServableIsServed == \A t \in Task : \A e \in Executor : ~<>[]Servable(t, e)
=============================================================================
