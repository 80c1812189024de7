---------------------------- MODULE ResultStream ----------------------------
(***************************************************************************)
(* The stream of results that a client follows while tasks of its job (or  *)
(* session) settle, are retried and settle again: one connection at a time,*)
(* its poll loop in the manager, and the timestamps it steers by.  They are*)
(* taken before a call waits for the write lock, so that rows may be       *)
(* committed in another order than that of their timestamps.               *)
(***************************************************************************)
EXTENDS Naturals, FiniteSets

CONSTANTS Task,       \* tasks of the job or session: naturals, in the order of id
          Limits,     \* page sizes that clients ask for
          MaxTime,    \* bound: the clock, in milliseconds
          MaxTurns    \* bound: how often a task settles
ASSUME StreamAssumption ==
    /\ Task \subseteq Nat /\ IsFiniteSet(Task) /\ Limits \subseteq Nat \ {0}
    /\ MaxTime \in Nat /\ MaxTurns \in Nat

VARIABLES
    clock,
    row,       \* tasks: settled or not, updated_at, and how often it has settled
    stamp,     \* calls about to settle a task: the timestamp taken, or NoStamp
    over,      \* the job or session row is terminal
    stream,    \* the open connection: its phase, page size, cursor, and the
               \* status it has read of the job row
    sent,      \* history of the connection: settlements sent, settlements sent
    again,     \* twice, those committed behind the cursor and those that the
    late,      \* client did not ask for
    old

history == <<sent, again, late, old>>
rows == <<clock, row, stamp, over>>
vars == <<rows, stream, history>>

NoStamp == MaxTime + 1
Start == [at |-> 0, id |-> 0]       \* no cursor: every row is after it
Settled == {t \in Task : row[t].settled}
Key(t) == [at |-> row[t].at, id |-> t]
Turn(t) == <<t, row[t].turn>>

Init ==
    /\ clock = 1
    /\ row = [t \in Task |-> [settled |-> FALSE, at |-> 1, turn |-> 0]]
    /\ stamp = [t \in Task |-> NoStamp]
    /\ over = FALSE
    /\ stream = [phase |-> "closed", limit |-> 1, cursor |-> Start, over |-> FALSE]
    /\ sent = {} /\ again = {} /\ late = {} /\ old = {}

-----------------------------------------------------------------------------
(* Tasks settle.                                                           *)

Tick ==
    /\ clock < MaxTime
    /\ clock' = clock + 1
    /\ UNCHANGED <<row, stamp, over, stream, history>>

(* A result, a failure, an expiry or a cancel: now(), then BEGIN IMMEDIATE.*)
TakeStamp(t) ==
    /\ stamp[t] = NoStamp
    /\ row[t].turn < MaxTurns
    /\ stamp' = [stamp EXCEPT ![t] = clock]
    /\ UNCHANGED <<clock, row, over, stream, history>>

(* _cursor_clause.                                                         *)
(* Mutant: the row at the cursor counts as after it.                       *)
MutNotStrict(k, c) == k.at > c.at \/ (k.at = c.at /\ k.id >= c.id)
After(k, c) == k.at > c.at \/ (k.at = c.at /\ k.id > c.id)

(* It gets the lock.  A late report changes nothing, a bulk cancel also    *)
(* rewrites settled rows.  When nothing is left to run the row of the job  *)
(* becomes terminal, unless the fast path of complete_task leaves that to  *)
(* a later recount.                                                        *)
Commit(t) ==
    /\ stamp[t] # NoStamp
    /\ stamp' = [stamp EXCEPT ![t] = NoStamp]
    /\ \/ /\ row' = [row EXCEPT ![t] = [settled |-> TRUE, at |-> stamp[t], turn |-> @.turn + 1]]
          /\ late' = IF stream.phase = "closed" \/ After([at |-> stamp[t], id |-> t], stream.cursor)
                     THEN late ELSE late \cup {<<t, row[t].turn + 1>>}
          /\ over' \in IF Settled \cup {t} = Task THEN {over, TRUE} ELSE {over}
       \/ t \in Settled /\ UNCHANGED <<row, late, over>>
    /\ UNCHANGED <<clock, stream, sent, again, old>>
Recount ==
    /\ Settled = Task
    /\ over' = TRUE
    /\ UNCHANGED <<clock, row, stamp, stream, history>>

(* A retry takes a settled task back into the queue and reopens the job.   *)
Retry(t) ==
    /\ t \in Settled
    /\ row[t].turn < MaxTurns
    /\ row' = [row EXCEPT ![t].settled = FALSE]
    /\ over' = FALSE
    /\ UNCHANGED <<clock, stamp, stream, history>>

-----------------------------------------------------------------------------
(* The connection.                                                         *)

(* latest_job_result_cursor, latest_session_result_cursor.                 *)
Latest == IF Settled = {} THEN Start
          ELSE Key(CHOOSE t \in Settled : \A u \in Settled : u = t \/ After(Key(t), Key(u)))

(* The client connects, again after a loss, with or without replay.        *)
Open(limit, replay) ==
    /\ stream.phase = "closed"
    /\ stream' = [phase |-> "poll", limit |-> limit, cursor |-> IF replay THEN Start ELSE Latest,
                  over |-> FALSE]
    /\ old' = IF replay THEN {} ELSE {Turn(t) : t \in Settled}
    /\ sent' = {} /\ again' = {} /\ late' = {}
    /\ UNCHANGED rows

(* One turn of _result_stream: the job row is read first, its tasks in a   *)
(* read of their own.                                                      *)
ReadJob ==
    /\ stream.phase = "poll"
    /\ stream' = [phase |-> "read", limit |-> stream.limit, cursor |-> stream.cursor, over |-> over]
    /\ UNCHANGED <<rows, history>>

Page ==
    LET new == {t \in Settled : After(Key(t), stream.cursor)}
    IN  {t \in new : Cardinality({u \in new : After(Key(t), Key(u))}) < stream.limit}
NextCursor(page) ==
    IF page = {} THEN stream.cursor
    ELSE Key(CHOOSE t \in page : \A u \in page : u = t \/ After(Key(t), Key(u)))
(* Mutants: the end is looked for only after results; has_more is ignored. *)
MutIgnoresMore(page) == stream.over
MutAfterResults(page) == stream.over /\ page # {} /\ Cardinality(page) < stream.limit
Done(page) == stream.over /\ Cardinality(page) < stream.limit

ReadTasks ==
    /\ stream.phase = "read"
    /\ stream' = [phase |-> IF Done(Page) THEN "done" ELSE "poll", limit |-> stream.limit,
                  cursor |-> NextCursor(Page), over |-> stream.over]
    /\ again' = again \cup (sent \cap {Turn(t) : t \in Page})
    /\ sent' = sent \cup {Turn(t) : t \in Page}
    /\ UNCHANGED <<rows, late, old>>

(* The client has read the done event.  At any other time the deadline     *)
(* passes or the connection breaks.                                        *)
Close ==
    /\ stream.phase # "closed"
    /\ stream' = [stream EXCEPT !.phase = "closed"]
    /\ UNCHANGED <<rows, history>>

Next ==
    \/ Tick \/ Recount
    \/ \E t \in Task : TakeStamp(t) \/ Commit(t) \/ Retry(t)
    \/ \E limit \in Limits, replay \in BOOLEAN : Open(limit, replay)
    \/ ReadJob \/ ReadTasks \/ Close

Spec == Init /\ [][Next]_vars
(* The poll loop of an open connection goes on; nothing else is promised.  *)
FairSpec == Spec /\ WF_vars(ReadJob) /\ WF_vars(ReadTasks)

-----------------------------------------------------------------------------
(* No settlement of a task is sent twice on one connection, however pages  *)
(* are cut, rows share a timestamp and tasks settle again in between.      *)
SentOnce == again = {}

(* When a stream says done, a settled task is missing from it only if it   *)
(* was committed behind the cursor, its timestamp being older than what    *)
(* had been sent by then, or if the client did not ask for replay and it   *)
(* was there before.                                                       *)
MissedOnlyIfLate ==
    [][stream.phase # "done" /\ stream'.phase = "done"
       => \A t \in Settled : Turn(t) \in sent' \cup late \cup old]_vars

(* README.md:1082: "all terminal results were sent".                       *)
DoneMeansAllSent ==
    [][stream.phase # "done" /\ stream'.phase = "done" /\ old = {}
       => \A t \in Settled : Turn(t) \in sent']_vars

(* Once the job stays over, no stream polls for ever: its pages come to an *)
(* end and it says done, or the connection is closed before.               *)
StreamEnds == <>[]over => ~<>[](stream.phase \in {"poll", "read"})
=============================================================================
