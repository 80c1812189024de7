# TaskGrid: TLA+ specifications and proofs

TaskGrid is a small task grid: clients submit jobs of tasks to a *manager* (FastAPI over
SQLite), and *worker nodes* with several single-task instances lease tasks, run them and
report. This directory holds the TLA+ modules that model it, the TLC configurations that check
them and the theorems that TLAPS proves. Paths such as `core.py:2220` mean
`src/taskgrid/core.py`, line 2220.

## 1. The system

| part | code | state | operations |
| --- | --- | --- | --- |
| store | `core.py`, `db.py` | rows of `tasks`, `jobs`, `service_sessions` | submit, lease, complete, fail, expire, reconcile, retry, bulk retry/cancel, cancel, pause, retention |
| derived status | `core.py:408-655` | status, counters, `finished_at` of job and session rows | `recalc_job`, `recalc_session`, two incremental helpers |
| lease recovery | `core.py:103`, `1671-2022` | a process-wide throttle timestamp | expiry inside a lease call, recover, reconcile at start |
| scheduling | `core.py:2025-2218`, `2782` | priorities, tags, task types | which queued rows a lease takes, for which node |
| queue diagnostics | `core.py:1199-1530` | none | why a queued task is not handed out; which nodes can run a task |
| worker registry | `core.py:838-1103`, `1769` | `workers`, `worker_configs`, `worker_instance_configs` | heartbeat, configure, disable, drain, purge |
| worker node | `worker.py:638-976` | instance records and threads | start, stop and reconcile instances, heartbeat, run, report |
| lease coordinator | `worker.py:540-631` | one queue of pre-assigned tasks per instance | batch lease for all idle instances |
| protocol | `app.py:670-705` | none | long poll, complete, fail |
| result streams | `core.py:3830-3960`, `app.py:190` | a cursor per stream | updates after a cursor, done, timeout |
| submission | `core.py:657`, `sdk.py` | `(client_id, idempotency_key)` index, sessions and their tokens; the credentials in a client object | submit, retry, replay, resume |
| operator cache | `core.py:66-100` | cached summaries | get, set, clear |
| the rest | `ui.py`, `security.py`, `tasks.py`, logs | none that a decision reads back | pages, roles, reports |

How they interact. Every public function of `core.py` that writes opens one connection, runs
`BEGIN IMMEDIATE`, reads, writes and commits; SQLite lets one such transaction run at a time. So
calls of workers, operators, clients and the start-up reconcile interleave, but each is
atomic. Workers know the manager only by HTTP: a lease or a report may be lost, repeated or late,
and a worker may die at any moment. The manager has no background thread: an expired lease is
noticed by the next lease call (throttled) or by an operator.

What is hard. Job and session rows repeat what the task rows say. The slow path recounts;
the fast path of a lease and an accepted result patches. Some fifteen calls mix the two on the
same rows. A report carries no attempt number, so old and new attempts of a task are told apart by
executor and status alone. Cancelling is a promise over time, kept by several calls that each
test the job status in a different way. `PROJECT.json` lists the hazards line by line.

What makes each part correct:

* *store*: a task follows its life cycle whatever reports arrive; it is never lost; attempts stay
  in budget; a cancelled job stays cancelled; nothing but a pause keeps a task from settling.
* *derived status*: counters equal a recount; a terminal job or session status means that all tasks are settled,
  and for sessions the converse.
* *scheduling*: a lease takes the best rows that the node fits, and none for a node on hold; no task
  waits behind rows of its window that the node cannot run.
* *queue diagnostics*: they mean what the lease does.
* *worker registry*: what an operator last ordered and what a node last sent is what the rows say,
  whatever heartbeats, leases and other orders came in between. A late default answer of
  `get_worker_config` counts as an order here, and may overrule an operator's.
* *worker node*: an instance told to stop does so after at most one more task; one that the target includes
  again comes back, unless its record is stuck (a finding).
* *lease coordinator*: no instance is assigned a second task while one waits for it; every task leased to the node
  is in the queue or the hands of the instance it is leased to, unless a message was lost; an instance
  takes the task that waits for it as long as it lives. An instance that is stopped first leaves the
  task in its queue, and nobody runs it until its lease expires: no property says otherwise.
* *result streams*: no settlement is sent twice, and only one that commits behind the cursor is missed
  when the stream says `done`; a stream of a finished job ends.
* *submission*: a retried submission creates one job and is never refused once it has; a client
  that sees one call through before the next does not lose its sessions.

## 2. Modules

| module | what it holds |
| --- | --- |
| `Recount` | the rows and the functions that derive job and session rows from task rows |
| `TaskStore` | the store: one action per call, specification, fairness, properties |
| `TaskLifecycle` | what the manager promises of one task; abstract specification of `TaskStore` |
| `LeaseCoordinator` | the node's batch leasing: lock, queues, requests; the manager seen from a node |
| `WorkerNode` | supervisor and instance threads of one node, on top of `LeaseCoordinator` |
| `WorkerRegistry` | the three tables about nodes, heartbeats, orders, purges |
| `Dispatch` | both lease calls over the registry, priorities, submission as the queue sees it, the diagnostics |
| `Submission` | clients that retry over a lossy network, client objects, `create_job` with keys and tokens |
| `ResultStream` | one stream, its cursor, and the tasks that settle meanwhile |
| `MCTaskStore`, `MCWorkerNode`, `MCDispatch`, `MCSubmission`, `MCResultStream` | instances for TLC |
| `RecountLemmas` | lemmas about the functions of `Recount`, with proofs |
| `TaskStoreProofs` | theorems of `TaskStore` about types and counters, with proofs |
| `TaskMoveProofs` | theorems of `TaskStore` about single task and job rows, with proofs |
| `TaskStatusProofs` | theorems of `TaskStore` about derived statuses, and the refinement of `TaskLifecycle`, with proofs |
| `WorkerNodeProofs` | theorems of `WorkerNode`, with proofs |
| `DispatchProofs` | theorems of `Dispatch` and `WorkerRegistry`, with proofs |
| `SubmissionProofs` | theorems of `Submission`, with proofs |
| `ResultStreamProofs` | theorems of `ResultStream`, with proofs |

`TaskStore` and `Dispatch` look at the same lease calls from two sides. `TaskStore` keeps everything a
task, job or session row says of progress and lets a lease take *any* eligible rows; `Dispatch` keeps
everything that decides *which* rows, for which executor, and lets the rest happen at any time
(`TaskEnds`, `TaskReturns`, `JobTurns`). A lease of `Dispatch` is one of the leases that `TaskStore` allows.
`Submission` and `ResultStream` add the two ends a client holds, and leave to `TaskStore` what happens
to a job in between.

### State

`task[t]` keeps `status`, `attempts`, `assigned_worker_id` (`owner`) and the lease. Of
`lease_expires_at` only what the code compares is kept: `"none"` (NULL), `"valid"` or `"lapsed"`
(past due). `job[j]` keeps status, `total_tasks`, the three stored counters (`count`), `paused` and
whether `finished_at` is set; `session[s]` the same with five counters and `total_jobs`. A row
that is not in its table has status `Absent`. `handed` is the only variable that is not in the
database: the tasks that some executor was ever given, and may therefore report at any later
moment, once, several times or never. It models workers and the network: nothing else is
assumed of them. Timestamps, names, payloads, results, error texts, events and metadata are left
out: no decision of these calls reads them.

### Actions

Each action is a whole call, with its guards and early returns. A call that only reads, refuses or
logs is a stutter.

| action | code |
| --- | --- |
| `CreateJob` | `create_job` |
| `LeaseTasks`, `LeaseForInstances` | `lease_tasks`, `lease_tasks_for_instances`, with the expiry they start with, or without it when the throttle skips it |
| `LeaseLapses` | the clock passes `lease_expires_at` |
| `RecoverExpiredLeases`, `Reconcile` | `recover_expired_leases`, `reconcile_manager_state` |
| `CompleteTask` = `KeptCancelled` or `ResultAccepted` or `ResultIgnored` | the branches of `complete_task` |
| `FailTask` | `fail_task` |
| `RetryTasks`, `RetryFailedTasks` | `retry_task`, `bulk_update_tasks("retry")`, `retry_failed_tasks` |
| `BulkCancel` | `bulk_update_tasks("cancel")` |
| `CancelJob` | `cancel_job`, graceful and forced |
| `SetJobPaused`, `SetSessionPaused` | the pause calls |
| `RetentionCleanup` | `apply_retention_cleanup` |

Choices worth knowing:

* A lease takes *any* eligible tasks up to its limit. Priority order, tags, task types, the
  candidate window, disabled and drained workers only restrict that choice, so safety shown here
  holds with them; what they must achieve is for the scheduling module.
* `LeaseForInstances` lets a batch mix the bare node with its instances. The code hands out to
  instances only; a lease by the bare node is a `LeaseTasks` already.
* The code runs `recalc_job` once per touched task or job, in a loop. One recount over the final
  rows gives the same result; the comment at `RecalcJobs` says why.
* A manager crash loses no row, because each call is one transaction, and a restart runs
  `Reconcile`. There is nothing else to model of it but that `Reconcile` may happen at any time.
* Jobs without a session and tasks without a job cannot arise from any call.

### The worker node

`WorkerNode` is about one process. Its records (`status`, `current`, `stop`) are shared by the
supervisor (`sup`, `target`), by every instance's thread (`pc`, `mine`) and by the coordinator, so a
step is what one thread does between two points at which another can look: each `set_status`, the
three statements of `request_stop_instance`, each `stop_event` test, each acquisition of the
coordinator's lock and each answer to a request is a step of its own. The manager is external:
`held[t]` is the instance its row names, `lost` the tasks that only an expiry can free.

| action | code |
| --- | --- |
| `StartInstance`, `AllStarted` | the first loop of `reconcile_instances` |
| `SetStopEvent`, `ReadSnapshot`, `MarkStopping` | `request_stop_instance` |
| `Prune`, `Heartbeat`, `Restart` | the last loop, the heartbeat with its answer or failure, the process |
| `Jitter`, `Begin`, `Poll`, `Empty`, `Wake`, `Begun`, `Report`, `Done`, `Leave` | `_instance_loop` from top to bottom |
| `Acquire`, `Answer`, `NoAnswer` | `acquire`: the three ways through it |

`WorkerNode` and `TaskStore` meet in two places: `Answers` gives at most one free task to each asked
instance, as `LeaseForInstances` does, and `Reported` lets the manager accept a report from the
holder only, as `OwnedBy` does. Left out: what a task computes; the few microseconds over which
`acquire` reads the snapshots of several instances one after the other (it reads them at once
here; `QueuesHoldOneTask` and `HandOverKeepsTasks` do not use what it reads); and a process pool that breaks, after which its instance fails every task it is given.

### Nodes and leases

`worker[w]` keeps the metadata a decision reads (task types, tags, `instance_count`) and how old the
heartbeat is: `"fresh"`, `"silent"` (for longer than the default window) or `"stopped"` (the node said
so). `config[w]` is the row of `worker_configs`, `drained` the rows of `worker_instance_configs` with
`draining = 1`. `told` is history, for the properties only: what operators last ordered and the node last
sent since its row was purged. In `Dispatch` a task row keeps status, priority and owner, a job row whether
it is paused or may not be leased from (`closing`), a session row its pause and priority. Tasks are
numbers in the order of `created_at, input_index, id`. An executor is a pair of node and instance, or
of node and `Itself` when a node polls without instances. The code joins the two with `-` and takes
them apart by prefix; what matters of this is which node ids extend which others (`Extends`).

| action | code |
| --- | --- |
| `Advertises`, `StatusHeartbeat`, `SaysStopped` | `heartbeat_worker` with and without metadata, and as a node that shuts down sends it |
| `GoesSilent` | the default active window passes |
| `SetConfig`, `SetDisabled`, `SetDraining`, `SetInstanceDraining` | the operator calls of these names |
| `FindsNoConfig`, `AnswersDefault` | `get_worker_config`, which reads in one transaction and writes in another |
| `PurgeOffline` | `purge_offline_workers`, in any window |
| `LeaseTasks`, `LeaseForInstances` | `lease_tasks`, `lease_tasks_for_instances`, with the rows they make for an unknown node |
| `CreateJob`, `SetSessionPriority` | the priorities of `create_job` and `set_session_priority` |
| `SetJobPaused`, `SetSessionPaused` | the pause calls |

`Diagnosis` is `_queued_task_diagnostic`, with its reasons in its order; `Capable` is what
`require_capable_worker` asks. Choices worth knowing:

* A purge may name a window shorter than the default, so `StaleSets` is every set of known nodes that
  holds all stopped ones. The code reads `workers` there without their configurations, so a disabled
  or draining node is not stale for that alone.
* A purge forgets sizes, disabling and draining with the row, but not drained instances. A lease of
  such a node, before its next heartbeat, makes a row with no task types, which is open to all of
  them. The properties say "since its row was purged" for this reason.
* An HTTP heartbeat without `metadata` arrives as `{}` (`app.py:102`): it is one that sends empty
  metadata. `StatusHeartbeat` is the call without metadata that `core.py:846` is about.
* Metadata with an `instance_count` of 0 counts as not given, both where a configuration is made and
  where slots are counted.

### Submission

A call is one submission as the application means it, attempted up to `MaxTries` times with the same
arguments. Each attempt is a request with the client id and token the client object has at that
moment; `open` are the requests not handled yet. `Fails` is a timeout: the request may be lost or
still arrive, and a reply under way is lost. `CreateJob` is one transaction of the manager and may
handle an old request after newer ones. `Answered` is the rest of `submit`, which takes over the id
and token of the answer. Normalisation of ids and keys (characters replaced, length cut) is left out:
ids here are those that come out of it. So are a token passed to one call and the endpoints' roles.
Retention may delete a session at any moment, between a commit and its reply included.

### Result streams

`Commit` is any call that settles a task, in two steps, since `now()` is taken before `BEGIN IMMEDIATE`:
`TakeStamp`, then `Commit` with that timestamp. `over` is the terminal status of the job row. One turn of
`_result_stream` is `ReadJob` and then `ReadTasks`: `get_job_result_updates` reads the job and its tasks in
two statements outside a transaction, so commits come in between. `Open` may ask for replay or start
after the latest settled row, `Close` is a connection that breaks, ends or runs into its deadline. The
history variables say of the open connection what was sent, what was sent twice, what was committed
behind the cursor, and what was there before a stream without replay.

## 3. Runs

| run | question | result |
| --- | --- | --- |
| `task_store` | eight invariants, two action properties and the refinement of `TaskLifecycle`, under all calls but pauses | holds |
| `settles` | does every task settle? | holds, under the fairness below |
| `worker_node` | five invariants and types of a node, under every interleaving of its threads | holds |
| `node_follows` | do stopped instances end, do wanted ones come back, is a waiting task taken? | holds, but for stuck records and stopped instances |
| `dispatch` | four invariants, four action properties and one liveness property of nodes, leases and diagnostics | holds |
| `submission` | one job for each submission, no refusal of a retry, no lost session | holds |
| `result_stream` | nothing sent twice, nothing missed but late commits, and streams that end | holds |
| `slot_lost` | does an instance within the target always run again? | no |
| `mixed_job` | is a running job never without work? | no |
| `cancel_revoked` | does a job in `cancelling` never go back to work? | no |
| `late_result` | does a report never rewrite a settled task? | no |
| `stream_skips` | has a stream sent every result when it says done? | no |

The five violated runs each state a promise of the documentation; `findings` in `PROJECT.json`
quotes it. The shortest counterexamples:

* `mixed_job`: one task of a job fails for good, the other one then succeeds. The completion path
  ends a job only when *all* its tasks succeeded, so the job stays `running` although its session
  is `failed`. A client waiting on the job waits until something unrelated recounts it.
* `cancel_revoked`: a running task of a `cancelling` job fails with a retry left. It is requeued,
  nothing is running any more, and the recount makes the job `queued`.
* `late_result`: a task succeeds, the job is cancelled, the worker repeats its result: the task
  becomes `cancelled`.
* `slot_lost`: the target drops and rises while the thread of an instance is still in its start-up
  jitter. The thread returns without a status, the record is never removed, and no thread is ever
  started for it again. `GrowsBack` shows that a record left this way is the *only* reason for which
  a wanted instance stays away.
* `stream_skips`: a call that settles task 1 takes its timestamp and waits for the lock; task 2 settles
  with a later timestamp and is streamed; then task 1 commits, behind the cursor. The stream says
  done without it. `MissedOnlyIfLate` shows that this is the *only* way in which a result is missed.

The invariants are stated so that they hold *with* these behaviours: `JobStatusSound` promises
nothing of `running`, `SettledOutlivesReports` leaves out tasks of cancelled jobs, and
`CancelledJobIsFinal` speaks of `cancelled` and not of `cancelling`.

### Bounds

* `task_store`: one session, a job of two tasks and a job of one, one node and one of its
  instances, `MaxRetries = 1`, leases of up to two tasks. Two tasks of one job are the fewest that
  can end differently, and a second job the fewest that make a session differ from a job. With
  one retry a task is requeued once and failed once. Two executors are the fewest between which
  a task can move, and `slot` reports under the bare id of `node`, as an instance may.
* `AttemptCap = 3` bounds `attempts` only for retries that do not reset them, which the code
  leaves unbounded; 3 is more than `1 + MaxRetries`, so a task over its budget does occur (in
  `settles`). `ResetChoices = {TRUE}` in `task_store` makes attempts finite without that bound.
* `Command` turns operator commands on per run: pauses multiply the states by sixteen and affect
  only eligibility, so `task_store` leaves them out and `settles` has them.
* `settles` uses two sessions of one job of one task, so that a pause of one cannot be mistaken
  for a pause of the other, and no symmetry, as it checks liveness.
* The two tasks of `j1` are symmetric in the safety runs: nothing distinguishes them.
* `worker_node`: two instances, two tasks, batch sizes 1 and 2, targets 0 to 2. Two instances are the
  fewest of which one leases for the other; two tasks the fewest that can be swapped. The tasks are
  symmetric. `late` counts to 2, one more than `StopsAfterOneMore` allows.
* `node_follows`: targets 1 and 2, one task and no restart: instance 2 comes and goes while instance 1
  keeps competing for the lock, and either may lease the task for the other. `slot_lost` needs one
  instance only.
* `dispatch`: node `n` has two slots, node `nb`, whose executor id looks like an instance of `n`, polls as a
  whole; job `jA` needs type A and a tag, `jB` type B. One task each is the least with which a row that a
  node does not fit can stand before one that it does, and with `WindowFactor = 2` both are in the window
  of a lease of one. `n` sends two kinds of metadata, with a full catalogue and with none. `MaxCommands = 1`
  bounds operator commands and returns of tasks to one per behaviour; heartbeats, leases, submissions,
  purges and endings are not bounded. Priorities are 0 and 1. What these bounds leave out is left to the
  theorems, which know none of them: with two tasks the window never cuts (`BestGoesFirst`,
  `BlockedStaysBlocked`), and with one command no two orders meet and none comes between the read and the answer of
  `get_worker_config` (`OrdersAlwaysStand`, `HoldsAreRespected`, `LeaseableNowHasTaker`). The safety part also
  passes with two commands and a window of one row, in somewhat over five minutes.
* `submission`: two client objects, three calls, two of them tried twice; three settings of arguments, in
  which calls have keys or none, join a chosen session, share a key across clients or name a client id.
  Client objects start with an id or without. Two attempts are the fewest that can overtake each other.
* `result_stream`: three tasks, pages of one or two, two timestamps, each task settles up to twice. Three
  tasks and pages of two are the least with which a page is cut between equal timestamps.
  `stream_skips` needs two tasks, and a third timestamp.

### Fairness

`FairSpec` assumes that the clock runs (a valid lease lapses, unless the row changes first), and
that some worker keeps polling. A poll that changes nothing is a stutter, so this is said of
polls that could do something: if, from some moment on, there is always a stale lease to expire
or an eligible task (`LeaseUseful`), a poll that does one of these happens again and again. This
is weak fairness of the poll with its `ENABLED` written out. The code justifies it: each instance
loop polls with a bounded back-off (`worker.py:667-685`), and the throttle of recovery
(`core.py:103-113`) delays it by half a second only. It does assume that some worker is able to
run the task and is neither disabled nor drained. Nothing is assumed of reports, operators or
clients; in particular a worker may stay silent about every task it is given, and `settles` shows
that the tasks settle all the same.

`WorkerNode!FairSpec` assumes that the supervisor and every thread are scheduled, that requests end
(they have a timeout) and that tasks end. Fairness of threads is strong, which matters at one
point: a thread that waits for the coordinator's lock gets it eventually. Python's lock promises no
order, but a thread holds it for one request and, when nothing was leased, sleeps afterwards. Without
it an instance could be told to stop and wait for the lock for ever on a node that is always busy.

`Dispatch!FairSpec` assumes that every executor polls `lease_tasks` with a limit of one again and again
(`worker.py:667-685`), and nothing else: no heartbeat, operator or report is promised. `ServableIsServed`
then says what the code achieves and no more: a task that stays in the window, fits, and is the best
that fits does not wait for ever. That a task may leave the window is a limit of the code (a window of
`limit * 50` rows that the node does not fit hides all others), and one that a reader should know of.

`ResultStream!FairSpec` assumes that the poll loop of an open connection goes on. Tasks need not settle and
clients need not connect.

## 4. Proofs

All theorems are about the `Spec` of their component with arbitrary constants. Those of `WorkerNode`
assume `CoordinatorAssumption` and `NodeAssumption` (types and distinct model values; the numbers of
instances and tasks need not even be finite); those of `TaskStore` assume `RowsAssumption` (tasks and jobs are
finite, each task has a job, each job a session) and `StoreAssumption` (types of the constants).

* `TypeCorrect`: `Spec => []TypeOK`. The type invariant is inductive alone; that a counter never
  goes below zero is the part that is not obvious.
* `JobCountersCorrect`, `SessionCountersCorrect`: `Spec => []JobCountersExact` and the same for
  sessions. A counter of a session is patched by a lease, so the session invariant is not inductive
  without knowing that a job row exists wherever its tasks do, and a session row wherever its
  jobs do: otherwise a lease could patch a session for a task the recount does not see. The
  inductive invariant `Exact` is the conjunction of `JobExact`, `SessionExact` and this link
  (`Linked`). `ExactInductive` has one case per action. All slow paths go through
  `WriteAndRecalcExact` (a recount makes the touched rows exact and the others are untouched
  because their tasks are). The fast paths rest on `StartedExact` and `CompletedExact` of
  `RecountLemmas`: moving k tasks from queued to running changes a recount exactly as the patch
  changes the row. These in turn rest on two facts about cardinality.

* `LostWorkIsRecoverable`, `AttemptsStayInBudget`, `SettledTasksOutliveReports` (`TaskMoveProofs`):
  `RunningIsRecoverable`, `AttemptsBounded` and `SettledOutlivesReports`. All three rest on `StepMoves`: a
  step moves any one task row in one of ten ways of workers and recovery, or, in an operator's
  command, in one of four more. `StepMoves` has one case per action; the invariants are then
  inductive row by row (`RecoverableRows`, `BudgetRows`, one line per move), and an action property
  is a look at which moves apply. That a settled row has no expiry time, which
  `SettledTasksOutliveReports` needs, is `LostWorkIsRecoverable` again.
* `CancelledJobsStayCancelled`: `CancelledJobIsFinal`, from `TypeOK` alone, because every recount
  keeps the status and every call that sets another one looks at it first.

* `FinishedJobsAreQuiet`, `JobStatusesAreSound`, `SessionsSettleWithTheirTasks` (`TaskStatusProofs`):
  `FinishedJobIsQuiet`, `JobStatusSound` and `SessionSettlesWithItsTasks`. None of the three is inductive: the
  fast path of a result writes a status from the *stored* counters, and a lease patches a status without a
  look at any task. The inductive invariant `Sound` therefore says what a status means in terms of the counters
  of its own row (`Says`), that `finished_at` is set exactly with a settled status, and that a session is
  settled exactly when its row counts tasks and none of them as queued or running; it holds
  together with `TypeOK` and `Exact`, which turn counters into tasks. `LadderSays` and `SessionStatusSettles`
  show that the status ladder gives such a status, from any tally (`TallyAddsUp`: the five counters add up
  to the total). `RecalcSound` carries this over a recount of any rows, `StartedSound` and `CompletedSound` over the
  two patches, and `SoundInductive` has one case per action. The theorems follow by reading the counters
  as task sets (`NothingLive`, `SettledCounts`).
* `StoreImplementsLifecycle`: `Spec => ImplementsLifecycle`, the step simulation on top of `StepMoves`: each way in
  which a step moves a task row is a move of `TaskLifecycle` under the refinement mapping (`RowsRefine`). Two
  of them need an invariant. A deletion takes settled tasks only (`DeletedIsSettled`), which is
  `SessionSettlesWithItsTasks` again, since retention looks at the session's status and never at its
  tasks. A submission starts with no attempts because a row that is not in its table has none
  (`AbsentIsEmpty`).

* `ThreadsAreRecorded`: `Spec => []NoOrphanThread`, inductive with the types of `status` and `pc`: a
  record is created in the same step as its thread, no thread step writes the status "none", and a
  prune asks that the thread is dead.
* `QueuesHoldOneTask`: `Spec => []OnePreassignedTask`. Inductive (`Queued`) with the fact that an
  instance named in the open request has an empty queue. That fact survives because only the holder
  of the lock asks or fills queues; the statuses from which the idle instances are chosen play no
  part, so their races with the supervisor cannot break it.
* `HandOverKeepsTasks`: `Spec => []NothingMislaid`, from both invariants above and `Carried`: a thread has
  a task in hand only between taking and reporting it. `NoOrphanThread` is needed where an instance is
  started again: its old thread is dead, so it has no task in hand that a new one would forget.
* `LockIsGivenBack`: `Spec => []TypeOK`. The part that is not about types, that the lock is held exactly over
  the request of its holder (`LockOverRequest`), needs that a thread that is started was dead, or a start
  would take a thread out of its request with the lock. The types need three facts that are not
  types: the supervisor has a victim from the stop event to the last write (`Supervised`), a thread
  past the lease has a task (`Executing`), and that no two tasks are waiting (`Queued`).
* `StopAllowsOneTask`: `Spec => []StopsAfterOneMore`. The strengthening `Stopping` says where a thread
  that has started a task since it was told to stop can be: past the lease, from where the next thing
  it comes to is the check, and that the event stays set until then. The event is reset only where
  a thread is started, together with the count.
* `BusyMeansAtWork`: `Spec => []BusyIsBusy`. It is inductive with the types: whatever the supervisor writes to a
  record, it writes "stopping" with it, and a record that says something else was last written by its own
  thread.

* `OrdersAlwaysStand` (`DispatchProofs`): `OrdersStand` is inductive with the types alone, one case per action of
  the registry. The case to look at is a lease of an unknown node, which writes both tables: it makes
  a configuration only where there is none, and then nothing has been ordered.
* `HoldsAreRespected`, `LeasedWorkFits`, `BestGoesFirst`: the two lease calls are the only steps that hand out
  a task (`HandOutComesFromLease`), and what they read of the rows is what was told (`LeaseReadsWhatWasTold`).
  `BestGoesFirst` needs that the queue is totally ordered (`QueueIsOrdered`) and that `Best` of a finite set is
  an initial part of it (`BestIsInitial`), for any window and limit.
* `PurgesSpareTheBusy`: the busy nodes that a purge skips are found by prefix, and an id is a prefix of itself.
* `BlockedStaysBlocked`: a task in some lease of an active node is leaseable and fits it, so that the node
  is in every set whose emptiness the diagnostics report.
* `LeaseableNowHasTaker`: needs that a node with a row has a configuration (`RowsComeWithConfig`, one case per
  action) and a pigeonhole (`FreeSlotIsAnInstance`): the instances that run a task are at most as many as the
  tasks counted for the node, so with fewer busy and drained ones than slots some instance is neither.
* `SubmitsOnce`, `RetriesAreAnswered` (`SubmissionProofs`): the invariant is that each job of a keyed call carries
  the client id of one of the attempts of its call (`FromAttempt`) and that no two jobs have the same
  client id and key (`Unique`); an attempt under that id therefore finds the job and cannot be refused.
* `PatienceKeepsSessions`: `Spec => []PatientKeepsAll`. The invariant has three layers. `Owned`: an id the manager
  made up names one session for ever, because applications choose lower ones and a deleted session
  does not come back; so the session of a job has the credentials of one of the attempts that
  asked for it (`OwnSession`). `InTurn`: a patient object has one call under way, and all its attempts
  carry what the object still has (`Carries`). `AllSettled`: an answer agrees with what the object
  has, before and after it is taken over. The step to look at is `AnswerSettles`, for a retry whose
  first attempt got through: the replay describes the session of that attempt, and by `Carries` both
  had the same credentials.
* `SendsOnce`, `MissesOnlyTheLate` (`ResultStreamProofs`): the invariant says that the cursor has passed every
  settlement that was sent (`SentIsBehind`) and that every settled row is sent, late, not asked for or
  still ahead (`Covered`). Keys of rows are totally ordered; a page is an initial part of what is ahead
  (`PageIsInitial`), the cursor moves to its last row (`CursorMovesOn`), and a page that is not full is
  everything ahead (`ShortPageIsAll`), which is when a stream may say done. That a finite set of rows has
  a last one, which `NextCursor` chooses, follows from the library's theorem on subsets of finite sets.

Those of `Dispatch` assume `RegistryAssumption` and `DispatchAssumption`, those of `Submission`
`SubmissionAssumption`, those of `ResultStream` `StreamAssumption`: types of the constants, and finitely many tasks
where tasks are counted.

Every safety property of a passing run is a theorem, and so is the refinement of `TaskLifecycle`. TLC found no
violation of `Sound` (on `task_store`), of the parts of `NodeInv` (on `worker_node`) and of `Owned`, `InTurn` and
`AllSettled` (on `submission`) either. Model-checked only, because
liveness under fairness is out of the prover's reach: `EveryTaskSettles`, `StopIsHeard`, `GrowsBack`,
`WaitingTaskIsTaken`, `ServableIsServed` and `StreamEnds`. The violated claims of section 3 are refuted by their
counterexamples.

## 5. What is left

* That a lease of `Dispatch` is a lease of `TaskStore`, and its environment what the other calls do to the queue,
  is argued in section 2. A common abstract specification of the queue, implemented by both, would
  make it a theorem.
* The safety core of the liveness properties, where it does not need fairness: that a thread ends only when it
  was told to stop, that a stream which says done has read an empty or short page.
* That no task runs twice under *one* lease, for which `WorkerNode` would have to tell the leases of a task apart.

### Not modelled

* The operator cache (`core.py:58-100`) keeps summaries for operator pages and clears them before the
  write that makes them old, so a page may show old rows for one time-to-live. No call decides by it.
* The long poll (`_wait_for_leases`) repeats a lease call until it finds something: every repetition is
  a lease of `TaskStore` and `Dispatch`, and nothing is kept between two of them. Its waiting time is
  left out. A report carries no attempt or lease number, so a model in which the manager tells
  attempts of one executor apart would not be this program.
* Services, executors and assignments (`core.py:1552-1657`, `2964-3500`), results and exports, the admin UI:
  they format the tables that the modules keep and change nothing.
* Authentication is a stateless check of each request. Events and logs are written and never read back by
  a decision.
* Task functions are arbitrary: success, failure or silence. Schema migration runs once before any call.
* SQLite is modelled by its promise: a transaction that begins with `BEGIN IMMEDIATE` is one step.

## 6. Running

    tlc -config TaskStore.cfg MCTaskStore.tla      # likewise the other .cfg files
    tlapm TaskMoveProofs.tla                       # likewise the other modules with proofs
