-------------------------- MODULE TaskStatusProofs --------------------------
(* Theorems about the derived statuses: what the status of a job or a      *)
(* session row says of its task rows, after any sequence of calls.         *)
EXTENDS TaskMoveProofs

-----------------------------------------------------------------------------
(* Facts about tallies and about the status ladder.                        *)

(* A counter is zero exactly when nothing is counted.                      *)
LEMMA CountIsZero ==
    ASSUME NEW S \in SUBSET Task
    PROVE  /\ Cardinality(S) \in Nat
           /\ Cardinality(S) = 0 <=> S = {}
BY TaskSubsetFinite, FS_EmptySet

LEMMA CardinalityDisjoint ==
    ASSUME NEW A \in SUBSET Task, NEW B \in SUBSET Task, A \cap B = {}
    PROVE  Cardinality(A \cup B) = Cardinality(A) + Cardinality(B)
BY CardinalityMove

(* The five counters add up to the number of rows.                         *)
LEMMA TallyAddsUp ==
    ASSUME NEW tk, NEW J, \A t \in Task : tk[t].status \in TaskStatus \cup {Absent}
    PROVE  LET n == Tally(tk, J)
           IN  CountRows(tk, J) = n.queued + n.running + n.succeeded + n.failed + n.cancelled
<1> DEFINE A == InStatus(tk, J, "queued")
           B == InStatus(tk, J, "running")
           C == InStatus(tk, J, "succeeded")
           D == InStatus(tk, J, "failed")
           E == InStatus(tk, J, "cancelled")
           R == {t \in TasksOf(J) : tk[t].status # Absent}
<1>1. /\ A \in SUBSET Task /\ B \in SUBSET Task /\ C \in SUBSET Task
      /\ D \in SUBSET Task /\ E \in SUBSET Task
  BY DEF InStatus, TasksOf
<1>2. R = (((A \cup B) \cup C) \cup D) \cup E
  BY DEF InStatus, TasksOf, TaskStatus, Live, Settled, Absent
<1>3. /\ A \cap B = {} /\ (A \cup B) \cap C = {} /\ ((A \cup B) \cup C) \cap D = {}
      /\ (((A \cup B) \cup C) \cup D) \cap E = {}
  BY DEF InStatus
<1>4. /\ Tally(tk, J).queued = Cardinality(A) /\ Tally(tk, J).running = Cardinality(B)
      /\ Tally(tk, J).succeeded = Cardinality(C) /\ Tally(tk, J).failed = Cardinality(D)
      /\ Tally(tk, J).cancelled = Cardinality(E)
  BY DEF Tally
<1>5. CountRows(tk, J) = Cardinality(R)
  BY DEF CountRows
<1> HIDE DEF A, B, C, D, E, R
<1>6. /\ Cardinality(A \cup B) = Cardinality(A) + Cardinality(B)
      /\ Cardinality((A \cup B) \cup C) = Cardinality(A \cup B) + Cardinality(C)
      /\ Cardinality(((A \cup B) \cup C) \cup D) = Cardinality((A \cup B) \cup C) + Cardinality(D)
      /\ Cardinality((((A \cup B) \cup C) \cup D) \cup E)
            = Cardinality(((A \cup B) \cup C) \cup D) + Cardinality(E)
  BY <1>1, <1>3, CardinalityDisjoint
<1> QED
  BY <1>2, <1>4, <1>5, <1>6

Total(n) == n.queued + n.running + n.succeeded + n.failed + n.cancelled

(* What a status derived from the tally n says of it.                      *)
Says(st, n) ==
    /\ st \in Settled => n.queued = 0 /\ n.running = 0
    /\ st = "succeeded" => n.failed = 0 /\ n.cancelled = 0
    /\ st = "failed" => n.failed > 0
    /\ st = "cancelling" => n.running > 0
    /\ st = "queued" => n.running = 0 /\ n.succeeded = 0 /\ n.failed = 0

(* The ladder says it, when total counts the rows of n, and it ends in a   *)
(* settled status whenever nothing is queued or running.                   *)
LEMMA LadderSays ==
    ASSUME NEW n \in FullTally, NEW total, total = Total(n), NEW st, st = Ladder(total, n)
    PROVE  /\ st \in TaskStatus
           /\ Says(st, n)
           /\ total # 0 /\ n.queued = 0 /\ n.running = 0 => st \in Settled
<1> DEFINE over == /\ n.queued = 0
                   /\ n.running = 0
                   /\ n.succeeded + n.failed + n.cancelled = total
<1>0. /\ n.queued \in Nat /\ n.running \in Nat /\ n.succeeded \in Nat
      /\ n.failed \in Nat /\ n.cancelled \in Nat
  BY DEF FullTally
<1>1. CASE n.succeeded = total
  <2>1. st = "succeeded"
    BY <1>1 DEF Ladder
  <2>2. n.queued = 0 /\ n.running = 0 /\ n.failed = 0 /\ n.cancelled = 0
    BY <1>0, <1>1 DEF Total
  <2> QED
    BY <2>1, <2>2 DEF Says, TaskStatus, Settled
<1>2. CASE n.succeeded # total /\ over /\ n.failed > 0
  <2>1. ~(n.failed <= 0)
    BY <1>0, <1>2
  <2>2. st = "failed"
    BY <1>2, <2>1 DEF Ladder
  <2> QED
    BY <1>0, <1>2, <2>2 DEF Total, Says, TaskStatus, Settled
<1>3. CASE n.succeeded # total /\ over /\ n.failed <= 0 /\ n.cancelled > 0
  <2>1. ~(n.failed > 0)
    BY <1>0, <1>3
  <2>2. st = "cancelled"
    BY <1>3, <2>1 DEF Ladder
  <2> QED
    BY <1>0, <1>3, <2>2 DEF Total, Says, TaskStatus, Settled
<1>4. CASE n.succeeded # total /\ ~over
  <2>1. st = IF n.running > 0 \/ n.succeeded > 0 \/ n.failed > 0 THEN "running" ELSE "queued"
    BY <1>4 DEF Ladder
  <2>2. n.queued # 0 \/ n.running # 0
    BY <1>0, <1>4 DEF Total
  <2> QED
    BY <1>0, <2>1, <2>2 DEF Says, TaskStatus, Live, Settled
<1> QED
  BY <1>0, <1>1, <1>2, <1>3, <1>4 DEF Total

(* The same for a session, whose status also looks at its jobs.            *)
LEMMA SessionStatusSettles ==
    ASSUME NEW n \in FullTally, NEW total, total = Total(n), NEW b \in BOOLEAN, NEW st,
           st = NextSessionStatus(total, n, b)
    PROVE  st \in Settled <=> total # 0 /\ n.queued = 0 /\ n.running = 0
<1>0. n.running \in Nat /\ total \in Nat
  BY DEF FullTally, Total
<1>1. CASE total = 0
  <2>1. st = "queued"
    BY <1>1 DEF NextSessionStatus
  <2> QED
    BY <1>1, <2>1 DEF Settled
<1>2. CASE total # 0 /\ b /\ n.running > 0
  <2>1. st = "cancelling"
    BY <1>2 DEF NextSessionStatus
  <2>2. n.running # 0
    BY <1>0, <1>2
  <2> QED
    BY <2>1, <2>2 DEF Settled
<1>3. CASE total # 0 /\ ~(b /\ n.running > 0)
  <2>1. st = Ladder(total, n)
    BY <1>3 DEF NextSessionStatus
  <2> QED
    BY <1>3, <2>1, LadderSays DEF Says
<1> QED
  BY <1>1, <1>2, <1>3

-----------------------------------------------------------------------------
(* The invariant: statuses that say what is true.                          *)
JobRowSound(row, n) ==
    /\ row.finished <=> row.status \in Settled
    /\ Says(row.status, n)
SessionRowSound(row, n) ==
    /\ row.finished <=> row.status \in Settled
    /\ row.status \in Settled <=> Total(n) # 0 /\ n.queued = 0 /\ n.running = 0

JobsSound(tk, jb) == \A j \in Job : JobRowSound(jb[j], Tally(tk, {j}))
SessionsSound(tk, jb, se) ==
    \A s \in Session : se[s].status # Absent =>
        SessionRowSound(se[s], Tally(tk, JobRowsIn(jb, s)))
Sound == JobsSound(task, job) /\ SessionsSound(task, job, session)

HasStatus(tk) == \A t \in Task : tk[t].status \in TaskStatus \cup {Absent}

LEMMA RecalcJobSound ==
    ASSUME NEW tk, HasStatus(tk), NEW j \in Job, NEW row \in JobRow, row.status # Absent,
           row.finished <=> row.status \in Settled,
           row.status = "cancelled" => Says("cancelled", Tally(tk, {j}))
    PROVE  JobRowSound(RecalcJob(tk, row, j), Tally(tk, {j}))
<1> DEFINE n == Tally(tk, {j})
           total == CountRows(tk, {j})
           st == NextJobStatus(row.status, total, n)
           row2 == RecalcJob(tk, row, j)
<1>1. n \in FullTally /\ total \in Nat /\ total = Total(n)
  BY TallyType, TallyAddsUp DEF HasStatus, Total
<1>2. row2.status = st /\ (row2.finished <=> st \in Settled /\ (row.finished \/ st # row.status))
  BY DEF RecalcJob
<1> HIDE DEF n, total, row2
<1>3. CASE row.status = "cancelled"
  BY <1>2, <1>3 DEF NextJobStatus, JobRowSound, n, row2
<1>4. CASE row.status = "cancelling" /\ n.running > 0
  BY <1>2, <1>4 DEF NextJobStatus, JobRowSound, Says, Settled, n, row2
<1>5. CASE row.status # "cancelled" /\ ~(row.status = "cancelling" /\ n.running > 0)
  <2>1. st = Ladder(total, n)
    BY <1>5 DEF NextJobStatus
  <2>2. Says(st, n)
    BY <1>1, <2>1, LadderSays
  <2> QED
    BY <1>2, <2>2 DEF JobRowSound, n, row2
<1> QED
  BY <1>3, <1>4, <1>5

LEMMA RecalcSessionSound ==
    ASSUME NEW tk, HasStatus(tk), NEW jb, NEW s \in Session, NEW row
    PROVE  SessionRowSound(RecalcSession(tk, jb, row, s), Tally(tk, JobRowsIn(jb, s)))
<1> DEFINE J == JobRowsIn(jb, s)
           n == Tally(tk, J)
           total == CountRows(tk, J)
           b == IsCancelling(jb, s)
           st == NextSessionStatus(total, n, b)
           row2 == RecalcSession(tk, jb, row, s)
<1>1. n \in FullTally /\ total \in Nat /\ total = Total(n)
  BY TallyType, TallyAddsUp DEF HasStatus, Total
<1>2. row2.status = st /\ (row2.finished <=> st \in Settled)
  BY DEF RecalcSession
<1>3. b \in BOOLEAN
  BY DEF IsCancelling
<1> HIDE DEF n, total, row2, b
<1>4. st \in Settled <=> total # 0 /\ n.queued = 0 /\ n.running = 0
  BY <1>1, <1>3, SessionStatusSettles
<1> HIDE DEF st
<1>5. SessionRowSound(row2, n)
  BY <1>1, <1>2, <1>4 DEF SessionRowSound
<1> QED
  BY <1>5 DEF row2, n

(* The slow path: a recount makes the touched rows sound again.            *)
LEMMA RecalcJobsSound ==
    ASSUME NEW tk0, NEW tk, NEW jb0, NEW jb \in [Job -> JobRow], NEW J,
           HasStatus(tk), JobsSound(tk0, jb0),
           \A t \in Task : JobOf[t] \notin J => tk[t].status = tk0[t].status,
           \A j \in Job : j \notin J => jb[j] = jb0[j],
           \A j \in Job : j \in J =>
               /\ jb[j].finished <=> jb[j].status \in Settled
               /\ jb[j].status = "cancelled" => Says("cancelled", Tally(tk, {j}))
    PROVE  JobsSound(tk, RecalcJobs(tk, jb, J))
<1> DEFINE jb2 == RecalcJobs(tk, jb, J)
<1>1. ASSUME NEW j \in Job
      PROVE  JobRowSound(jb2[j], Tally(tk, {j}))
  <2>1. CASE j \in J /\ jb[j].status # Absent
    <3>1. jb2[j] = RecalcJob(tk, jb[j], j)
      BY <2>1 DEF RecalcJobs
    <3>2. JobRowSound(RecalcJob(tk, jb[j], j), Tally(tk, {j}))
      BY <2>1, RecalcJobSound
    <3> QED
      BY <3>1, <3>2
  <2>2. CASE j \in J /\ jb[j].status = Absent
    BY <2>2 DEF RecalcJobs, JobRowSound, Says, Settled, Absent
  <2>3. CASE j \notin J
    <3>1. jb2[j] = jb0[j]
      BY <2>3 DEF RecalcJobs
    <3>2. Tally(tk, {j}) = Tally(tk0, {j})
      BY <2>3, SameTally DEF TasksOf
    <3> QED
      BY <3>1, <3>2 DEF JobsSound
  <2> QED
    BY <2>1, <2>2, <2>3
<1> QED
  BY <1>1 DEF JobsSound

LEMMA RecalcSessionsSound ==
    ASSUME NEW tk0, NEW tk, NEW jb0, NEW jb, NEW se0, NEW se, NEW S,
           HasStatus(tk), SessionsSound(tk0, jb0, se0),
           \A t \in Task : SessionOf[JobOf[t]] \notin S => tk[t].status = tk0[t].status,
           \A j \in Job : SessionOf[j] \notin S =>
               (jb[j].status = Absent <=> jb0[j].status = Absent),
           \A s \in Session : s \notin S => se[s] = se0[s]
    PROVE  SessionsSound(tk, jb, RecalcSessions(tk, jb, se, S))
<1> DEFINE se2 == RecalcSessions(tk, jb, se, S)
<1>1. ASSUME NEW s \in Session, se2[s].status # Absent
      PROVE  SessionRowSound(se2[s], Tally(tk, JobRowsIn(jb, s)))
  <2>1. se[s].status # Absent
    BY <1>1, RecalcKeepsSessions
  <2>2. CASE s \in S
    <3>1. se2[s] = RecalcSession(tk, jb, se[s], s)
      BY <2>1, <2>2 DEF RecalcSessions
    <3> QED
      BY <3>1, RecalcSessionSound
  <2>3. CASE s \notin S
    <3>1. se2[s] = se0[s]
      BY <2>3 DEF RecalcSessions
    <3>2. JobRowsIn(jb, s) = JobRowsIn(jb0, s)
      BY <2>3 DEF JobRowsIn
    <3>3. \A t \in TasksOf(JobRowsIn(jb0, s)) : tk[t].status = tk0[t].status
      BY <2>3 DEF JobRowsIn, TasksOf
    <3>4. Tally(tk, JobRowsIn(jb0, s)) = Tally(tk0, JobRowsIn(jb0, s))
      BY <3>3, SameTally
    <3> QED
      BY <1>1, <3>1, <3>2, <3>4 DEF SessionsSound
  <2> QED
    BY <2>2, <2>3
<1> QED
  BY <1>1 DEF SessionsSound

LEMMA RecalcSound ==
    ASSUME NEW tk0, NEW tk, NEW jb0, NEW jb \in [Job -> JobRow],
           NEW se, NEW J \in SUBSET Job, NEW S,
           HasStatus(tk), SessionsOf(J) \subseteq S,
           JobsSound(tk0, jb0), SessionsSound(tk0, jb0, se),
           \A t \in Task : JobOf[t] \notin J => tk[t].status = tk0[t].status,
           \A j \in Job : j \notin J => jb[j] = jb0[j],
           \A j \in Job : jb[j].status = Absent <=> jb0[j].status = Absent,
           \A j \in Job : j \in J =>
               /\ jb[j].finished <=> jb[j].status \in Settled
               /\ jb[j].status = "cancelled" => Says("cancelled", Tally(tk, {j}))
    PROVE  LET jb2 == RecalcJobs(tk, jb, J)
               se2 == RecalcSessions(tk, jb2, se, S)
           IN  JobsSound(tk, jb2) /\ SessionsSound(tk, jb2, se2)
<1> DEFINE jb2 == RecalcJobs(tk, jb, J)
<1>1. JobsSound(tk, jb2)
  BY RecalcJobsSound
<1>2. \A j \in Job : jb2[j].status = Absent <=> jb0[j].status = Absent
  BY RecalcKeepsJobs
<1>3. \A t \in Task : SessionOf[JobOf[t]] \notin S => tk[t].status = tk0[t].status
  BY RowsAssumption DEF SessionsOf
<1> HIDE DEF jb2
<1>4. SessionsSound(tk, jb2, RecalcSessions(tk, jb2, se, S))
  BY <1>2, <1>3, RecalcSessionsSound
<1> QED
  BY <1>1, <1>4 DEF jb2

(* Steps that change no status and no finished_at.                         *)
LEMMA UntouchedSound ==
    ASSUME NEW tk, NEW tk2, NEW jb, NEW jb2, NEW se, NEW se2,
           JobsSound(tk, jb), SessionsSound(tk, jb, se),
           \A t \in Task : tk2[t].status = tk[t].status,
           \A j \in Job : jb2[j].status = jb[j].status /\ jb2[j].finished = jb[j].finished,
           \A s \in Session : se2[s].status = se[s].status /\ se2[s].finished = se[s].finished
    PROVE  JobsSound(tk2, jb2) /\ SessionsSound(tk2, jb2, se2)
<1>1. \A J : Tally(tk2, J) = Tally(tk, J)
  BY SameTally DEF TasksOf
<1>2. \A s \in Session : JobRowsIn(jb2, s) = JobRowsIn(jb, s)
  BY DEF JobRowsIn
<1>3. JobsSound(tk2, jb2)
  BY <1>1 DEF JobsSound, JobRowSound
<1>4. SessionsSound(tk2, jb2, se2)
  BY <1>1, <1>2 DEF SessionsSound, SessionRowSound
<1> QED
  BY <1>3, <1>4

(* No task of the job is queued or running.                                *)
LEMMA NothingLive ==
    ASSUME NEW tk, NEW J
    PROVE  Says("cancelled", Tally(tk, J)) <=> \A t \in TasksOf(J) : tk[t].status \notin Live
<1>1. /\ InStatus(tk, J, "queued") \in SUBSET Task
      /\ InStatus(tk, J, "running") \in SUBSET Task
  BY DEF InStatus, TasksOf
<1>2. /\ Tally(tk, J).queued = 0 <=> InStatus(tk, J, "queued") = {}
      /\ Tally(tk, J).running = 0 <=> InStatus(tk, J, "running") = {}
  BY <1>1, CountIsZero DEF Tally
<1>3. /\ InStatus(tk, J, "queued") = {} <=> \A t \in TasksOf(J) : tk[t].status # "queued"
      /\ InStatus(tk, J, "running") = {} <=> \A t \in TasksOf(J) : tk[t].status # "running"
  BY DEF InStatus
<1> QED
  BY <1>2, <1>3 DEF Says, Settled, Live

(* The lease path: a job with a queued task is not settled, and a leased   *)
(* job is neither cancelled nor cancelling, so it is "running" afterwards. *)
LEMMA StartedSound ==
    ASSUME NEW tk, NEW tk2, NEW jb \in [Job -> JobRow], NEW se \in [Session -> SessionRow],
           NEW T \in SUBSET Task,
           JobsSound(tk, jb), SessionsSound(tk, jb, se),
           JobExact(tk, jb), SessionExact(tk, jb, se), Linked(tk, jb, se),
           HasStatus(tk2),
           \A t \in T : /\ tk[t].status = "queued"
                        /\ jb[JobOf[t]].status \notin {"cancelled", "cancelling"},
           \A t \in Task : tk2[t].status = IF t \in T THEN "running" ELSE tk[t].status
    PROVE  /\ JobsSound(tk2, MarkStartedJobs(jb, T))
           /\ SessionsSound(tk2, MarkStartedJobs(jb, T), MarkStartedSessions(se, T))
<1> DEFINE jb2 == MarkStartedJobs(jb, T)
           se2 == MarkStartedSessions(se, T)
<1>1. ASSUME NEW j \in Job
      PROVE  JobRowSound(jb2[j], Tally(tk2, {j}))
  <2>1. CASE j \in JobsOf(T)
    <3>1. PICK t \in T : JobOf[t] = j
      BY <2>1 DEF JobsOf
    <3>2. t \in InStatus(tk, {j}, "queued") /\ InStatus(tk, {j}, "queued") \in SUBSET Task
      BY <3>1 DEF InStatus, TasksOf
    <3>3. Tally(tk, {j}).queued # 0
      BY <3>2, CountIsZero DEF Tally
    <3>4. /\ jb[j].status \notin Settled \cup {"cancelling", Absent} /\ ~jb[j].finished
          /\ jb[j] \in JobRow
      BY <3>1, <3>3, RowsAssumption DEF JobsSound, JobRowSound, Says, Linked, Absent, JobRow
    <3>5. jb[j].status \in {"queued", "running"}
      BY <3>4 DEF JobRow, JobStatus, TaskStatus, Live
    <3>6. jb2[j].status = "running" /\ ~jb2[j].finished
      BY <2>1, <3>4, <3>5 DEF MarkStartedJobs, JobRow
    <3> HIDE DEF jb2
    <3> QED
      BY <3>6 DEF JobRowSound, Says, Settled
  <2>2. CASE j \notin JobsOf(T)
    <3>1. jb2[j] = jb[j]
      BY <2>2 DEF MarkStartedJobs
    <3>2. \A t \in TasksOf({j}) : tk2[t].status = tk[t].status
      BY <2>2 DEF TasksOf, JobsOf
    <3>3. Tally(tk2, {j}) = Tally(tk, {j})
      BY <3>2, SameTally
    <3> QED
      BY <3>1, <3>3 DEF JobsSound
  <2> QED
    BY <2>1, <2>2
<1>2. /\ \A s \in Session : JobRowsIn(jb2, s) = JobRowsIn(jb, s)
      /\ \A s \in Session : se2[s].status = Absent <=> se[s].status = Absent
  BY DEF MarkStartedJobs, JobRow, JobRowsIn, Absent, MarkStartedSessions, MarkStartedSession, SessionRow
<1>3. ASSUME NEW s \in Session, se2[s].status # Absent
      PROVE  SessionRowSound(se2[s], Tally(tk2, JobRowsIn(jb2, s)))
  <2> DEFINE J == JobRowsIn(jb, s)
             M == {t \in T : SessionOf[JobOf[t]] = s}
             Q == InStatus(tk, J, "queued")
             R2 == InStatus(tk2, J, "running")
  <2>1. M \in SUBSET Task /\ M \subseteq Q /\ M \subseteq R2 /\ Q \in SUBSET Task /\ R2 \in SUBSET Task
    BY RowsAssumption DEF InStatus, TasksOf, JobRowsIn, Linked, Absent
  <2>2. se[s].status # Absent /\ SessionRowSound(se[s], Tally(tk, J))
    BY <1>2, <1>3 DEF SessionsSound
  <2>3. CASE M # {}
    <3>1. Tally(tk, J).queued # 0 /\ Tally(tk2, J).running # 0
      BY <2>1, <2>3, CountIsZero DEF Tally
    <3>2. se[s].status \notin Settled
      BY <2>2, <3>1 DEF SessionRowSound
    <3>3. se2[s] = MarkStartedSession(se[s], Cardinality(M)) /\ se[s] \in SessionRow
      BY <2>2, <2>3 DEF MarkStartedSessions
    <3>4. se2[s].status \notin Settled /\ ~se2[s].finished
      BY <3>2, <3>3 DEF MarkStartedSession, SessionRow, Settled
    <3> HIDE DEF se2, J
    <3>5. SessionRowSound(se2[s], Tally(tk2, J))
      BY <3>1, <3>4 DEF SessionRowSound
    <3>6. JobRowsIn(jb2, s) = J
      BY <1>2 DEF J
    <3> HIDE DEF jb2
    <3> QED
      BY <3>5, <3>6
  <2>4. CASE M = {}
    <3>1. se2[s] = se[s]
      BY <2>4 DEF MarkStartedSessions
    <3>2. \A t \in TasksOf(J) : tk2[t].status = tk[t].status
      BY <2>4 DEF TasksOf, JobRowsIn
    <3>3. Tally(tk2, J) = Tally(tk, J)
      BY <3>2, SameTally
    <3>4. JobRowsIn(jb2, s) = J
      BY <1>2
    <3> HIDE DEF jb2, se2, J
    <3> QED
      BY <2>2, <3>1, <3>3, <3>4
  <2> QED
    BY <2>3, <2>4
<1> HIDE DEF jb2, se2
<1>4. JobsSound(tk2, jb2) /\ SessionsSound(tk2, jb2, se2)
  BY <1>1, <1>3 DEF JobsSound, SessionsSound
<1> QED
  BY <1>4 DEF jb2, se2

(* The completion path: the job is "running", because a task of it is.     *)
LEMMA CompletedSound ==
    ASSUME NEW tk, NEW tk2, NEW jb \in [Job -> JobRow], NEW se \in [Session -> SessionRow],
           NEW t \in Task,
           JobsSound(tk, jb), SessionsSound(tk, jb, se),
           JobExact(tk, jb), SessionExact(tk, jb, se), Linked(tk, jb, se),
           HasStatus(tk2),
           tk[t].status = "running", jb[JobOf[t]].status \notin {"cancelled", "cancelling"},
           \A u \in Task : tk2[u].status = IF u = t THEN "succeeded" ELSE tk[u].status
    PROVE  LET j0 == JobOf[t]
               jb2 == [jb EXCEPT ![j0] = MarkCompletedJob(@)]
               se2 == [se EXCEPT ![SessionOf[j0]] = MarkCompletedSession(@)]
           IN  JobsSound(tk2, jb2) /\ SessionsSound(tk2, jb2, se2)
<1> DEFINE j0 == JobOf[t]
           s0 == SessionOf[j0]
           jb2 == [jb EXCEPT ![j0] = MarkCompletedJob(@)]
           se2 == [se EXCEPT ![s0] = MarkCompletedSession(@)]
           n == Tally(tk, {j0})
           n2 == Tally(tk2, {j0})
<1>0. /\ j0 \in Job /\ s0 \in Session
      /\ jb[j0] \in JobRow /\ se[s0] \in SessionRow
      /\ jb[j0].status # Absent /\ se[s0].status # Absent
  BY RowsAssumption DEF Linked, Absent
<1>1. t \in InStatus(tk, {j0}, "running") /\ InStatus(tk, {j0}, "running") \in SUBSET Task
  BY DEF InStatus, TasksOf
<1>2. n.running # 0
  BY <1>1, CountIsZero DEF Tally
<1>3. jb[j0].status = "running" /\ ~jb[j0].finished
  <2>1. jb[j0].status \notin Settled \cup {"queued"} /\ ~jb[j0].finished
    BY <1>0, <1>2 DEF JobsSound, JobRowSound, Says, JobRow
  <2> QED
    BY <1>0, <2>1 DEF JobRow, JobStatus, TaskStatus, Live, Settled
<1>4. n2 = Completed(n) /\ CountRows(tk2, {j0}) = CountRows(tk, {j0})
  BY <1>1, CompletedTally DEF TasksOf
<1>5. /\ jb[j0].total = Total(n2) /\ jb[j0].count.succeeded + 1 = n2.succeeded
      /\ n2 \in FullTally
  <2>1. jb[j0].total = CountRows(tk2, {j0}) /\ jb[j0].count = Stored(n)
    BY <1>0, <1>4 DEF JobExact
  <2>2. n2 \in FullTally
    BY TallyType
  <2>3. CountRows(tk2, {j0}) = Total(n2)
    BY TallyAddsUp DEF HasStatus, Total
  <2>4. jb[j0].count.succeeded + 1 = n2.succeeded
    <3>1. jb[j0].count.succeeded = n.succeeded
      BY <2>1 DEF Stored
    <3>2. n2.succeeded = n.succeeded + 1
      <4>1. n2 = Completed(n)
        BY <1>4
      <4> HIDE DEF n, n2
      <4> QED
        BY <4>1 DEF Completed
    <3> QED
      BY <3>1, <3>2
  <2> QED
    BY <2>1, <2>2, <2>3, <2>4
<1> HIDE DEF n, n2
<1>6. JobRowSound(MarkCompletedJob(jb[j0]), n2)
  <2>1. CASE n2.succeeded = jb[j0].total
    <3>1. MarkCompletedJob(jb[j0]).status = "succeeded" /\ MarkCompletedJob(jb[j0]).finished
      BY <1>3, <1>5, <2>1 DEF MarkCompletedJob, Settled
    <3>2. n2.queued = 0 /\ n2.running = 0 /\ n2.failed = 0 /\ n2.cancelled = 0
      BY <1>5, <2>1 DEF Total, FullTally
    <3> QED
      BY <3>1, <3>2 DEF JobRowSound, Says, Settled
  <2>2. CASE n2.succeeded # jb[j0].total
    <3>1. MarkCompletedJob(jb[j0]).status = "running" /\ ~MarkCompletedJob(jb[j0]).finished
      BY <1>3, <1>5, <2>2 DEF MarkCompletedJob, Settled
    <3> QED
      BY <3>1 DEF JobRowSound, Says, Settled
  <2> QED
    BY <2>1, <2>2
<1>7. ASSUME NEW j \in Job
      PROVE  JobRowSound(jb2[j], Tally(tk2, {j}))
  <2>1. CASE j = j0
    BY <1>0, <1>6, <2>1 DEF n2
  <2>2. CASE j # j0
    <3>1. jb2[j] = jb[j]
      BY <2>2
    <3>2. \A u \in TasksOf({j}) : tk2[u].status = tk[u].status
      BY <2>2 DEF TasksOf
    <3>3. Tally(tk2, {j}) = Tally(tk, {j})
      BY <3>2, SameTally
    <3> QED
      BY <3>1, <3>3 DEF JobsSound
  <2> QED
    BY <2>1, <2>2
<1>8. ASSUME NEW s \in Session
      PROVE  JobRowsIn(jb2, s) = JobRowsIn(jb, s)
  <2>1. MarkCompletedJob(jb[j0]).status # Absent
    BY <1>0 DEF MarkCompletedJob, Absent
  <2> QED
    BY <1>0, <2>1 DEF JobRowsIn
<1>9. ASSUME NEW s \in Session, se2[s].status # Absent
      PROVE  SessionRowSound(se2[s], Tally(tk2, JobRowsIn(jb2, s)))
  <2> DEFINE J == JobRowsIn(jb, s)
  <2>1. CASE s = s0
    <3>1. t \in InStatus(tk, J, "running")
      BY <1>0, <2>1 DEF InStatus, TasksOf, JobRowsIn
    <3>2. \A u \in TasksOf(J) : tk2[u].status = IF u = t THEN "succeeded" ELSE tk[u].status
      BY DEF TasksOf
    <3> HIDE DEF J
    <3>3. Tally(tk2, J) = Completed(Tally(tk, J)) /\ CountRows(tk2, J) = CountRows(tk, J)
      BY <3>1, <3>2, CompletedTally
    <3>4. se[s].total = CountRows(tk, J) /\ se[s].count = Tally(tk, J)
      BY <1>0, <2>1 DEF SessionExact, J
    <3>5. CountRows(tk2, J) = Total(Tally(tk2, J)) /\ Tally(tk2, J) \in FullTally
      BY TallyAddsUp, TallyType DEF HasStatus, Total
    <3> DEFINE m == Tally(tk2, J)
               st == NextSessionStatus(Total(m), m, FALSE)
    <3>6. se2[s].status = st /\ (se2[s].finished <=> st \in Settled)
      <4>1. se2[s] = MarkCompletedSession(se[s])
        BY <1>0, <2>1
      <4>2. se[s].total = Total(m) /\ Completed(se[s].count) = m
        BY <3>3, <3>4, <3>5
      <4> DEFINE st0 == NextSessionStatus(se[s].total, Completed(se[s].count), FALSE)
      <4>3. /\ MarkCompletedSession(se[s]).status = st0
            /\ MarkCompletedSession(se[s]).finished <=> st0 \in Settled
        BY DEF MarkCompletedSession
      <4>4. st0 = st
        BY <4>2
      <4> HIDE DEF m, se2, st, st0
      <4> QED
        BY <4>1, <4>3, <4>4
    <3>7. st \in Settled <=> Total(m) # 0 /\ m.queued = 0 /\ m.running = 0
      BY <3>5, SessionStatusSettles
    <3> HIDE DEF m, st, se2
    <3>8. SessionRowSound(se2[s], m)
      BY <3>6, <3>7 DEF SessionRowSound
    <3> QED
      BY <1>8, <3>8 DEF m, J
  <2>2. CASE s # s0
    <3>1. se2[s] = se[s]
      BY <2>2
    <3>2. \A u \in TasksOf(J) : tk2[u].status = tk[u].status
      BY <2>2 DEF TasksOf, JobRowsIn
    <3>3. Tally(tk2, J) = Tally(tk, J)
      BY <3>2, SameTally
    <3> QED
      BY <1>8, <1>9, <3>1, <3>3 DEF SessionsSound
  <2> QED
    BY <2>1, <2>2
<1> HIDE DEF jb2, se2
<1>10. JobsSound(tk2, jb2) /\ SessionsSound(tk2, jb2, se2)
  BY <1>7, <1>9 DEF JobsSound, SessionsSound
<1> QED
  BY <1>10 DEF jb2, se2

-----------------------------------------------------------------------------
(* Every call keeps the statuses sound.                                    *)
LEMMA TypedStatus == TypeOK => HasStatus(task)
BY DEF TypeOK, HasStatus, TaskRow

(* A cancelled job has nothing left to run.                                *)
LEMMA CancelledIsQuiet ==
    ASSUME Sound, NEW t \in Task, job[JobOf[t]].status = "cancelled"
    PROVE  task[t].status \notin Live
<1>1. JobOf[t] \in Job /\ t \in TasksOf({JobOf[t]})
  BY RowsAssumption DEF TasksOf
<1>2. Says("cancelled", Tally(task, {JobOf[t]}))
  BY <1>1 DEF Sound, JobsSound, JobRowSound
<1> QED
  BY <1>1, <1>2, NothingLive

LEMMA WriteAndRecalcSound ==
    ASSUME TypeOK, TypeOK', Sound, NEW tk, NEW jb \in [Job -> JobRow], NEW J \in SUBSET Job,
           \A t \in Task : JobOf[t] \notin J => tk[t].status = task[t].status,
           \A j \in Job : j \notin J => jb[j] = job[j],
           \A j \in Job : jb[j].status = Absent <=> job[j].status = Absent,
           \A j \in Job : jb[j].finished <=> jb[j].status \in Settled,
           \A t \in Task : jb[JobOf[t]].status = "cancelled" => tk[t].status \notin Live,
           WriteAndRecalc(tk, jb, J)
    PROVE  Sound'
<1> DEFINE jb2 == RecalcJobs(tk, jb, J)
           se2 == RecalcSessions(tk, jb2, session, SessionsOf(J))
<1>1. task' = tk /\ job' = jb2 /\ session' = se2
  BY DEF WriteAndRecalc
<1>2. HasStatus(tk)
  BY <1>1 DEF TypeOK, HasStatus, TaskRow
<1>3. \A j \in Job : /\ jb[j].finished <=> jb[j].status \in Settled
                     /\ jb[j].status = "cancelled" => Says("cancelled", Tally(tk, {j}))
  BY NothingLive DEF TasksOf
<1>4. JobsSound(task, job) /\ SessionsSound(task, job, session)
  BY DEF Sound
<1>5. JobsSound(tk, jb2) /\ SessionsSound(tk, jb2, se2)
  BY <1>2, <1>3, <1>4, RecalcSound
<1> HIDE DEF jb2, se2
<1> QED
  BY <1>1, <1>5 DEF Sound, JobsSound, SessionsSound

(* The common case: the job rows are recounted as they stand.              *)
LEMMA RowsRecalcSound ==
    ASSUME TypeOK, TypeOK', Sound, NEW tk, NEW J \in SUBSET Job,
           \A t \in Task : JobOf[t] \notin J => tk[t].status = task[t].status,
           \A t \in Task : job[JobOf[t]].status = "cancelled" => tk[t].status \notin Live,
           WriteAndRecalc(tk, job, J)
    PROVE  Sound'
<1>1. job \in [Job -> JobRow] /\ \A j \in Job : job[j].finished <=> job[j].status \in Settled
  BY DEF TypeOK, Sound, JobsSound, JobRowSound
<1> QED
  BY <1>1, WriteAndRecalcSound

LEMMA ExpireQuiet ==
    ASSUME TypeOK, Sound, NEW T \in {{}, Stale}, NEW t \in Task,
           job[JobOf[t]].status = "cancelled"
    PROVE  Expire(T)[t].status \notin Live
<1>1. task[t].status \notin Live
  BY CancelledIsQuiet
<1>2. t \notin T
  BY <1>1 DEF Stale, Live
<1> QED
  BY <1>1, <1>2 DEF Expire

LEMMA GrantSound ==
    ASSUME TypeOK, TypeOK', Exact, Sound, NEW T \in SUBSET Task, NEW to \in [T -> Executor],
           NEW stale \in {{}, Stale}, Grant(T, to, stale)
    PROVE  Sound'
<1> DEFINE J == JobsOf(stale)
           tk == Expire(stale)
           jb == RecalcJobs(tk, job, J)
           se == RecalcSessions(tk, jb, session, SessionsOf(J))
<1>1. tk \in [Task -> TaskRow] /\ jb \in [Job -> JobRow] /\ se \in [Session -> SessionRow]
  BY ExpireType, RecalcJobsType, RecalcSessionsType DEF TypeOK
<1>2. JobExact(tk, jb) /\ SessionExact(tk, jb, se) /\ Linked(tk, jb, se)
  BY ExpireStatus, RecalcExact DEF TypeOK, Exact
<1>3. HasStatus(tk)
  BY <1>1 DEF HasStatus, TaskRow
<1>4. JobsSound(tk, jb) /\ SessionsSound(tk, jb, se)
  <2>1. \A j \in Job : /\ job[j].finished <=> job[j].status \in Settled
                       /\ job[j].status = "cancelled" => Says("cancelled", Tally(tk, {j}))
    BY ExpireQuiet, NothingLive DEF TasksOf, Sound, JobsSound, JobRowSound
  <2>2. /\ J \in SUBSET Job /\ job \in [Job -> JobRow]
        /\ \A t \in Task : JobOf[t] \notin J => tk[t].status = task[t].status
    BY ExpireStatus DEF TypeOK
  <2> HIDE DEF J, tk
  <2> QED
    BY <1>3, <2>1, <2>2, RecalcSound DEF Sound
<1>5. /\ T \subseteq Eligible(tk, jb, se)
      /\ task' = [t \in Task |-> IF t \in T THEN Handout(tk[t], to[t]) ELSE tk[t]]
      /\ job' = MarkStartedJobs(jb, T)
      /\ session' = MarkStartedSessions(se, T)
  BY DEF Grant
<1> HIDE DEF tk, jb, se
<1>6. \A t \in T : /\ tk[t].status = "queued"
                   /\ jb[JobOf[t]].status \notin {"cancelled", "cancelling"}
  BY <1>5 DEF Eligible
<1>7. \A t \in Task : task'[t].status = IF t \in T THEN "running" ELSE tk[t].status
  BY <1>1, <1>5, RowStatus
<1>8. HasStatus(task')
  BY DEF TypeOK, HasStatus, TaskRow
<1>9. JobsSound(task', job') /\ SessionsSound(task', job', session')
  BY <1>1, <1>2, <1>4, <1>5, <1>6, <1>7, <1>8, StartedSound
<1> QED
  BY <1>9 DEF Sound, JobsSound, SessionsSound

LEMMA CreateJobSound ==
    ASSUME TypeOK, TypeOK', Exact, Sound, NEW j \in Job, CreateJob(j)
    PROVE  Sound'
<1> DEFINE s == SessionOf[j]
           mine == TasksOf({j})
           row == [NoJob EXCEPT !.status = "queued", !.total = Cardinality(mine)]
           tk == [t \in Task |-> IF t \in mine THEN NewTask ELSE task[t]]
           jb == [job EXCEPT ![j] = row]
           se == IF session[s].status = Absent
                 THEN [session EXCEPT ![s] = [NoSession EXCEPT !.status = "queued"]]
                 ELSE session
           se2 == RecalcSessions(tk, jb, se, {s})
<1>1. /\ job[j].status = Absent
      /\ task' = tk /\ job' = jb /\ session' = se2
  BY DEF CreateJob
<1>2. s \in Session /\ job \in [Job -> JobRow] /\ session \in [Session -> SessionRow]
  BY RowsAssumption DEF TypeOK
<1>3. row.status = "queued" /\ ~row.finished
  BY DEF NoJob
<1>4. /\ \A t \in mine : tk[t].status = "queued"
      /\ \A t \in Task : t \notin mine => tk[t] = task[t]
      /\ \A t \in Task : t \in mine <=> JobOf[t] = j
  BY DEF NewTask, NoTask, TasksOf
<1>5. ASSUME NEW i \in Job
      PROVE  JobRowSound(jb[i], Tally(tk, {i}))
  <2>1. CASE i = j
    <3>1. \A st \in {"running", "succeeded", "failed"} : InStatus(tk, {i}, st) = {}
      BY <1>4, <2>1 DEF InStatus
    <3>2. /\ Tally(tk, {i}).running = 0 /\ Tally(tk, {i}).succeeded = 0
          /\ Tally(tk, {i}).failed = 0
      BY <3>1, FS_EmptySet DEF Tally
    <3>3. jb[i] = row
      BY <1>2, <2>1
    <3> HIDE DEF row, jb, tk
    <3> QED
      BY <1>3, <3>2, <3>3 DEF JobRowSound, Says, Settled
  <2>2. CASE i # j
    <3>1. jb[i] = job[i]
      BY <2>2
    <3>2. \A t \in TasksOf({i}) : tk[t].status = task[t].status
      BY <1>4, <2>2 DEF TasksOf
    <3>3. Tally(tk, {i}) = Tally(task, {i})
      BY <3>2, SameTally
    <3> QED
      BY <3>1, <3>3 DEF Sound, JobsSound
  <2> QED
    BY <2>1, <2>2
<1>6. /\ \A t \in Task : SessionOf[JobOf[t]] \notin {s} => tk[t].status = task[t].status
      /\ \A i \in Job : SessionOf[i] \notin {s} =>
            (jb[i].status = Absent <=> job[i].status = Absent)
      /\ \A r \in Session : r \notin {s} => se[r] = session[r]
  BY <1>4
<1>7. HasStatus(tk)
  BY <1>1 DEF TypeOK, HasStatus, TaskRow
<1> HIDE DEF row, jb, tk, se
<1>8. SessionsSound(task, job, session)
  BY DEF Sound
<1>9. SessionsSound(tk, jb, RecalcSessions(tk, jb, se, {s}))
  BY <1>6, <1>7, <1>8, RecalcSessionsSound
<1>10. SessionsSound(tk, jb, se2)
  BY <1>9
<1> HIDE DEF se2
<1> QED
  BY <1>1, <1>5, <1>10 DEF Sound, JobsSound, SessionsSound

LEMMA ReconcileSound ==
    ASSUME TypeOK, TypeOK', Sound, NEW recover \in BOOLEAN, Reconcile(recover)
    PROVE  Sound'
<1> DEFINE tk == IF recover THEN Expire(Stale) ELSE task
           jb == RecalcJobs(tk, job, Job)
           se == RecalcSessions(tk, jb, session, Session)
<1>1. task' = tk /\ job' = jb /\ session' = se
  BY DEF Reconcile
<1>2. HasStatus(tk)
  BY <1>1 DEF TypeOK, HasStatus, TaskRow
<1>3. \A t \in Task : job[JobOf[t]].status = "cancelled" => tk[t].status \notin Live
  BY ExpireQuiet, CancelledIsQuiet
<1> HIDE DEF tk
<1>4. \A j \in Job : /\ job[j].finished <=> job[j].status \in Settled
                     /\ job[j].status = "cancelled" => Says("cancelled", Tally(tk, {j}))
  BY <1>3, NothingLive DEF TasksOf, Sound, JobsSound, JobRowSound
<1>5. SessionsOf(Job) \subseteq Session /\ \A t \in Task : JobOf[t] \in Job
  BY RowsAssumption DEF SessionsOf
<1>6. job \in [Job -> JobRow]
  BY DEF TypeOK
<1>7. JobsSound(tk, jb) /\ SessionsSound(tk, jb, se)
  BY <1>2, <1>4, <1>5, <1>6, RecalcSound DEF Sound
<1> HIDE DEF jb, se
<1> QED
  BY <1>1, <1>7 DEF Sound, JobsSound, SessionsSound

LEMMA RetentionSound ==
    ASSUME TypeOK, Sound, NEW S \in SUBSET Session, RetentionCleanup(S)
    PROVE  Sound'
<1>1. /\ \A t \in Task : SessionOf[JobOf[t]] \notin S => task'[t] = task[t]
      /\ \A j \in Job : job'[j] = IF SessionOf[j] \in S THEN NoJob ELSE job[j]
      /\ \A s \in Session : session'[s] = IF s \in S THEN NoSession ELSE session[s]
  BY RowsAssumption DEF RetentionCleanup, TasksOf
<1>2. ASSUME NEW j \in Job
      PROVE  JobRowSound(job'[j], Tally(task', {j}))
  <2>1. CASE SessionOf[j] \in S
    <3>1. job'[j].status = Absent /\ ~job'[j].finished
      BY <1>1, <2>1 DEF NoJob
    <3> QED
      BY <3>1 DEF JobRowSound, Says, Settled, Absent
  <2>2. CASE SessionOf[j] \notin S
    <3>1. \A t \in TasksOf({j}) : task'[t].status = task[t].status
      BY <1>1, <2>2 DEF TasksOf
    <3>2. Tally(task', {j}) = Tally(task, {j})
      BY <3>1, SameTally
    <3> QED
      BY <1>1, <2>2, <3>2 DEF Sound, JobsSound
  <2> QED
    BY <2>1, <2>2
<1>3. ASSUME NEW s \in Session, session'[s].status # Absent
      PROVE  SessionRowSound(session'[s], Tally(task', JobRowsIn(job', s)))
  <2> DEFINE J == JobRowsIn(job, s)
  <2>1. s \notin S /\ session'[s] = session[s]
    BY <1>1, <1>3 DEF NoSession
  <2>2. JobRowsIn(job', s) = J
    BY <1>1, <2>1 DEF JobRowsIn
  <2>3. \A t \in TasksOf(J) : task'[t].status = task[t].status
    BY <1>1, <2>1 DEF TasksOf, JobRowsIn
  <2>4. Tally(task', J) = Tally(task, J)
    BY <2>3, SameTally
  <2>5. SessionRowSound(session[s], Tally(task, J))
    BY <1>3, <2>1 DEF Sound, SessionsSound
  <2> HIDE DEF J
  <2> QED
    BY <2>1, <2>2, <2>4, <2>5
<1> QED
  BY <1>2, <1>3 DEF Sound, JobsSound, SessionsSound

LEMMA SoundInductive == TypeOK /\ Exact /\ Sound /\ [Next]_vars => Sound'
<1> SUFFICES ASSUME TypeOK, Exact, Sound, [Next]_vars
             PROVE  Sound'
  OBVIOUS
<1>0. /\ TypeOK'
      /\ job \in [Job -> JobRow]
      /\ \A t \in Task : JobOf[t] \in Job /\ {JobOf[t]} \in SUBSET Job
      /\ \A T \in SUBSET Task : JobsOf(T) \in SUBSET Job /\ \A t \in T : JobOf[t] \in JobsOf(T)
      /\ \A t \in Task : job[JobOf[t]].status = "cancelled" => task[t].status \notin Live
      /\ \A j \in Job : job[j].finished <=> job[j].status \in Settled
  <2>1. TypeOK'
    BY TypeOKInductive
  <2>2. /\ \A t \in Task : JobOf[t] \in Job
        /\ \A T \in SUBSET Task : JobsOf(T) \in SUBSET Job /\ \A t \in T : JobOf[t] \in JobsOf(T)
    BY RowsAssumption DEF JobsOf
  <2> QED
    BY <2>1, <2>2, CancelledIsQuiet DEF TypeOK, Sound, JobsSound, JobRowSound
<1>1. ASSUME NEW j \in Job, CreateJob(j)
      PROVE  Sound'
  BY <1>0, <1>1, CreateJobSound
<1>2. ASSUME NEW e \in Executor, LeaseTasks(e)
      PROVE  Sound'
  <2>1. PICK T \in SUBSET Task, stale \in {{}, Stale} : Grant(T, [t \in T |-> e], stale)
    BY <1>2 DEF LeaseTasks
  <2> QED
    BY <1>0, <2>1, GrantSound
<1>3. ASSUME LeaseForInstances(Executor)
      PROVE  Sound'
  <2>0. PICK F \in SUBSET Executor : \E give \in [F -> Task], stale \in {{}, Stale} :
            Grant({give[e] : e \in F},
                  [t \in {give[e] : e \in F} |-> CHOOSE e \in F : give[e] = t], stale)
    BY <1>3 DEF LeaseForInstances
  <2>1. PICK give \in [F -> Task], stale \in {{}, Stale} :
            Grant({give[e] : e \in F},
                  [t \in {give[e] : e \in F} |-> CHOOSE e \in F : give[e] = t], stale)
    BY <2>0
  <2> DEFINE T == {give[e] : e \in F}
             to == [t \in T |-> CHOOSE e \in F : give[e] = t]
  <2>2. T \in SUBSET Task /\ to \in [T -> Executor]
    OBVIOUS
  <2>3. Grant(T, to, stale)
    BY <2>1
  <2> HIDE DEF T, to
  <2> QED
    BY <1>0, <2>2, <2>3, GrantSound
<1>4. ASSUME NEW t \in Task, NEW e \in Executor, CompleteTask(t, e)
      PROVE  Sound'
  <2>1. CASE ResultIgnored(t, e)
    BY <1>0, <2>1, RowsRecalcSound DEF ResultIgnored
  <2>2. CASE KeptCancelled(t)
    <3> DEFINE tk == [task EXCEPT ![t] = Settle(@, "cancelled")]
    <3>1. tk[t].status = "cancelled" /\ \A u \in Task : u # t => tk[u] = task[u]
      BY RowStatus DEF TypeOK, TaskStatus, Settled
    <3>2. WriteAndRecalc(tk, job, {JobOf[t]})
      BY <2>2 DEF KeptCancelled
    <3> HIDE DEF tk
    <3> QED
      BY <1>0, <3>1, <3>2, RowsRecalcSound DEF Live
  <2>3. CASE ResultAccepted(t, e)
    <3> DEFINE j == JobOf[t]
               tk == [task EXCEPT ![t] = Settle(@, "succeeded")]
    <3>1. tk[t].status = "succeeded" /\ \A u \in Task : u # t => tk[u] = task[u]
      BY RowStatus DEF TypeOK, TaskStatus, Settled
    <3>2. task[t].status = "running" /\ job[j].status # "cancelled"
      BY <2>3 DEF ResultAccepted, OwnedBy
    <3>3. CASE WriteAndRecalc(tk, job, {j})
      <4> HIDE DEF tk
      <4> QED
        BY <1>0, <3>1, <3>3, RowsRecalcSound DEF Live
    <3>4. CASE /\ job[j].status # "cancelling"
               /\ task' = tk
               /\ job' = [job EXCEPT ![j] = MarkCompletedJob(@)]
               /\ session' = [session EXCEPT ![SessionOf[j]] = MarkCompletedSession(@)]
      <4>1. \A u \in Task : tk[u].status = IF u = t THEN "succeeded" ELSE task[u].status
        BY <3>1
      <4>2. HasStatus(tk)
        BY <1>0, <3>4 DEF TypeOK, HasStatus, TaskRow
      <4>3. /\ job \in [Job -> JobRow] /\ session \in [Session -> SessionRow]
            /\ JobsSound(task, job) /\ SessionsSound(task, job, session)
            /\ JobExact(task, job) /\ SessionExact(task, job, session)
            /\ Linked(task, job, session)
        BY DEF TypeOK, Exact, Sound
      <4> HIDE DEF tk
      <4>4. /\ JobsSound(tk, [job EXCEPT ![j] = MarkCompletedJob(@)])
            /\ SessionsSound(tk, [job EXCEPT ![j] = MarkCompletedJob(@)],
                             [session EXCEPT ![SessionOf[j]] = MarkCompletedSession(@)])
        BY <3>2, <3>4, <4>1, <4>2, <4>3, CompletedSound
      <4> QED
        BY <3>4, <4>4 DEF Sound, JobsSound, SessionsSound
    <3> QED
      BY <2>3, <3>3, <3>4 DEF ResultAccepted
  <2> QED
    BY <1>4, <2>1, <2>2, <2>3 DEF CompleteTask
<1>5. ASSUME NEW t \in Task, NEW e \in Executor, FailTask(t, e)
      PROVE  Sound'
  <2> DEFINE row == IF HasRetryLeft(task[t]) THEN Requeue(task[t])
                    ELSE [Settle(task[t], "failed") EXCEPT !.owner = e]
             tk == [task EXCEPT ![t] = row]
  <2>1. job[JobOf[t]].status # "cancelled"
    BY <1>0, <1>5 DEF FailTask, OwnedBy, Live
  <2>2. WriteAndRecalc(tk, job, {JobOf[t]})
    BY <1>5 DEF FailTask
  <2>3. \A u \in Task : u # t => tk[u] = task[u]
    OBVIOUS
  <2> HIDE DEF tk
  <2> QED
    BY <1>0, <2>1, <2>2, <2>3, RowsRecalcSound
<1>6. ASSUME NEW t \in Task, LeaseLapses(t)
      PROVE  Sound'
  <2>1. job' = job /\ session' = session /\ \A u \in Task : task'[u].status = task[u].status
    BY <1>6 DEF LeaseLapses, TypeOK, TaskRow
  <2>2. JobsSound(task', job') /\ SessionsSound(task', job', session')
    BY <2>1, UntouchedSound DEF Sound
  <2> QED
    BY <2>2 DEF Sound, JobsSound, SessionsSound
<1>7. ASSUME RecoverExpiredLeases
      PROVE  Sound'
  <2>1. WriteAndRecalc(Expire(Stale), job, JobsOf(Stale))
    BY <1>7 DEF RecoverExpiredLeases
  <2> QED
    BY <1>0, <2>1, ExpireStatus, ExpireQuiet, RowsRecalcSound
<1>8. ASSUME NEW recover \in BOOLEAN, Reconcile(recover)
      PROVE  Sound'
  BY <1>0, <1>8, ReconcileSound
<1>9. ASSUME NEW T \in SUBSET Task, NEW reset \in BOOLEAN, NEW J \in SUBSET Job,
             NEW jb \in [Job -> JobRow], RetryAll(T, reset, jb, J),
             \A t \in T : JobOf[t] \in J /\ jb[JobOf[t]].status # "cancelled",
             \A j \in Job : j \notin J => jb[j] = job[j],
             \A j \in Job : /\ jb[j].status = Absent <=> job[j].status = Absent
                            /\ jb[j].finished <=> jb[j].status \in Settled
                            /\ jb[j].status = "cancelled" => job[j].status = "cancelled"
      PROVE  Sound'
  <2> DEFINE tk == [t \in Task |-> IF t \in T THEN RetryRow(task[t], reset) ELSE task[t]]
  <2>1. \A t \in Task : t \notin T => tk[t] = task[t]
    OBVIOUS
  <2>2. WriteAndRecalc(tk, jb, J)
    BY <1>9 DEF RetryAll
  <2> HIDE DEF tk
  <2>3. /\ \A t \in Task : JobOf[t] \notin J => tk[t].status = task[t].status
        /\ \A t \in Task : jb[JobOf[t]].status = "cancelled" => tk[t].status \notin Live
    BY <1>0, <1>9, <2>1
  <2>4. \A j \in Job : /\ j \notin J => jb[j] = job[j]
                       /\ jb[j].status = Absent <=> job[j].status = Absent
                       /\ jb[j].finished <=> jb[j].status \in Settled
    BY <1>9
  <2>5. TypeOK'
    BY <1>0
  <2> QED
    BY <2>2, <2>3, <2>4, <2>5, WriteAndRecalcSound
<1>10. ASSUME NEW T \in SUBSET Task, BulkCancel(T)
       PROVE  Sound'
  <2> DEFINE row(t) == [Settle(task[t], "cancelled") EXCEPT
                           !.owner = IF task[t].status = "running" THEN @ ELSE NoOwner]
             tk == [t \in Task |-> IF t \in T THEN row(t) ELSE task[t]]
  <2>1. \A t \in T : row(t).status = "cancelled"
    BY RowStatus DEF TypeOK, TaskStatus, Settled, Settle
  <2>2. WriteAndRecalc(tk, job, JobsOf(T))
    BY <1>10 DEF BulkCancel
  <2> HIDE DEF row
  <2>3. \A t \in Task : tk[t] = IF t \in T THEN row(t) ELSE task[t]
    OBVIOUS
  <2> HIDE DEF tk
  <2> QED
    BY <1>0, <2>1, <2>2, <2>3, RowsRecalcSound DEF Live
<1>11. ASSUME NEW j \in Job, NEW force \in BOOLEAN, CancelJob(j, force)
       PROVE  Sound'
  <2> DEFINE now == force \/ InStatus(task, {j}, "running") = {}
             hit == InStatus(task, {j}, "queued")
                    \cup IF now THEN InStatus(task, {j}, "running") ELSE {}
             tk == [t \in Task |-> IF t \in hit THEN Settle(task[t], "cancelled") ELSE task[t]]
             jb == [job EXCEPT ![j].status = IF now THEN "cancelled" ELSE "cancelling",
                               ![j].finished = now]
  <2>1. WriteAndRecalc(tk, jb, {j}) /\ job[j].status # Absent
    BY <1>11 DEF CancelJob
  <2>2. /\ \A t \in hit : tk[t].status = "cancelled" /\ JobOf[t] = j
        /\ \A t \in Task : t \notin hit => tk[t] = task[t]
    BY RowStatus DEF TypeOK, TaskStatus, Settled, InStatus, TasksOf
  <2>3. \A i \in Job : i # j => jb[i] = job[i]
    BY DEF TypeOK
  <2>4. jb \in [Job -> JobRow] /\ jb[j].status # Absent
        /\ (jb[j].finished <=> jb[j].status \in Settled)
        /\ (jb[j].status = "cancelled" => now)
    <3>1. CASE now
      <4>1. jb = [job EXCEPT ![j].status = "cancelled", ![j].finished = TRUE]
        BY <3>1
      <4> HIDE DEF jb
      <4>2. job[j] \in JobRow
        BY <1>0
      <4>3. jb \in [Job -> JobRow]
        BY <1>0, <4>1 DEF JobRow, JobStatus, TaskStatus, Settled
      <4>4. jb[j].status = "cancelled" /\ jb[j].finished
        BY <1>0, <4>1, <4>2 DEF JobRow
      <4> HIDE DEF now
      <4> QED
        BY <3>1, <4>3, <4>4 DEF Settled, Absent
    <3>2. CASE ~now
      <4>1. jb = [job EXCEPT ![j].status = "cancelling", ![j].finished = FALSE]
        BY <3>2
      <4> HIDE DEF jb
      <4>2. job[j] \in JobRow
        BY <1>0
      <4>3. jb \in [Job -> JobRow]
        BY <1>0, <4>1 DEF JobRow, JobStatus
      <4>4. jb[j].status = "cancelling" /\ ~jb[j].finished
        BY <1>0, <4>1, <4>2 DEF JobRow
      <4> HIDE DEF now
      <4> QED
        BY <4>3, <4>4 DEF Settled, Absent
    <3> QED
      BY <3>1, <3>2
  <2>5. now => \A t \in Task : JobOf[t] = j => tk[t].status \notin Live
    <3>1. \A t \in Task : now /\ JobOf[t] = j /\ task[t].status \in Live => t \in hit
      BY DEF InStatus, TasksOf, Live
    <3> HIDE DEF tk, hit, now
    <3> QED
      BY <2>2, <3>1 DEF Live
  <2>6. \A t \in Task : JobOf[t] # j => tk[t] = task[t]
    BY <2>2
  <2> HIDE DEF tk, jb, hit, now
  <2> QED
    BY <1>0, <2>1, <2>3, <2>4, <2>5, <2>6, WriteAndRecalcSound
<1>12. ASSUME NEW j \in Job, NEW paused \in BOOLEAN, SetJobPaused(j, paused)
       PROVE  Sound'
  <2>1. /\ task' = task /\ session' = session
        /\ \A i \in Job : job'[i].status = job[i].status /\ job'[i].finished = job[i].finished
    BY <1>12 DEF SetJobPaused, TypeOK, JobRow
  <2>2. JobsSound(task', job') /\ SessionsSound(task', job', session')
    BY <2>1, UntouchedSound DEF Sound
  <2> QED
    BY <2>2 DEF Sound, JobsSound, SessionsSound
<1>13. ASSUME NEW s \in Session, NEW paused \in BOOLEAN, SetSessionPaused(s, paused)
       PROVE  Sound'
  <2>1. /\ task' = task /\ job' = job
        /\ \A r \in Session : /\ session'[r].status = session[r].status
                              /\ session'[r].finished = session[r].finished
    BY <1>13 DEF SetSessionPaused, TypeOK, SessionRow
  <2>2. JobsSound(task', job') /\ SessionsSound(task', job', session')
    BY <2>1, UntouchedSound DEF Sound
  <2> QED
    BY <2>2 DEF Sound, JobsSound, SessionsSound
<1>14. ASSUME NEW S \in SUBSET Session, RetentionCleanup(S)
       PROVE  Sound'
  BY <1>14, RetentionSound
<1>15. CASE UNCHANGED vars
  BY <1>15 DEF vars, Sound, JobsSound, SessionsSound
<1>16. ASSUME NEW T \in SUBSET Task, NEW reset \in BOOLEAN, RetryTasks(T, reset)
       PROVE  Sound'
  <2>1. \A t \in T : JobOf[t] \in JobsOf(T) /\ job[JobOf[t]].status # "cancelled"
    BY <1>0, <1>16 DEF RetryTasks, Retriable
  <2>2. RetryAll(T, reset, job, JobsOf(T))
    BY <1>16 DEF RetryTasks
  <2> QED
    BY <1>0, <1>9, <2>1, <2>2
<1>17. ASSUME NEW j \in Job, NEW reset \in BOOLEAN, RetryFailedTasks(j, reset)
       PROVE  Sound'
  <2> DEFINE T == InStatus(task, {j}, "failed")
  <2>1. T \in SUBSET Task /\ \A t \in T : task[t].status = "failed" /\ JobOf[t] = j
    BY DEF InStatus, TasksOf
  <2>2. RetryAll(T, reset, Reopened(j), {j})
    BY <1>17 DEF RetryFailedTasks
  <2>3. T # {}
    BY <2>2 DEF RetryAll
  <2>4. job[j].status # Absent
    BY <1>0, <2>1, <2>3 DEF Exact, Linked, Absent
  <2>5. /\ Reopened(j) \in [Job -> JobRow]
        /\ \A i \in Job : i # j => Reopened(j)[i] = job[i]
        /\ Reopened(j)[j].status = "queued" /\ ~Reopened(j)[j].finished
    BY <1>0 DEF TypeOK, Reopened, JobRow, JobStatus, TaskStatus, Live
  <2>6. \A i \in Job : /\ Reopened(j)[i].status = Absent <=> job[i].status = Absent
                       /\ Reopened(j)[i].finished <=> Reopened(j)[i].status \in Settled
                       /\ Reopened(j)[i].status = "cancelled" => job[i].status = "cancelled"
    BY <1>0, <2>4, <2>5 DEF Absent, Settled
  <2> HIDE DEF T
  <2> QED
    BY <1>0, <1>9, <2>1, <2>2, <2>5, <2>6
<1> QED
  BY <1>1, <1>2, <1>3, <1>4, <1>5, <1>6, <1>7, <1>8, <1>10, <1>11, <1>12, <1>13,
     <1>14, <1>15, <1>16, <1>17
  DEF Next, WorkerStep, RecoveryStep, OperatorStep

LEMMA SoundInvariant == Spec => [](TypeOK /\ Exact /\ Sound)
<1>1. Init => Sound
  <2> SUFFICES ASSUME Init PROVE Sound
    OBVIOUS
  <2>1. /\ \A j \in Job : job[j].status = Absent /\ ~job[j].finished
        /\ \A s \in Session : session[s].status = Absent
    BY DEF Init, NoJob, NoSession
  <2> QED
    BY <2>1 DEF Sound, JobsSound, SessionsSound, JobRowSound, Says, Settled, Absent
<1> QED
  BY <1>1, SoundInductive, ExactInvariant, PTL DEF Spec

(* The live and settled tasks of a set of jobs, and their counts.          *)
LEMMA SettledCounts ==
    ASSUME NEW tk, NEW J, HasStatus(tk)
    PROVE  LET n == Tally(tk, J)
               mine == {t \in TasksOf(J) : tk[t].status # Absent}
           IN  /\ Total(n) # 0 <=> mine # {}
               /\ n.queued = 0 /\ n.running = 0 <=> \A t \in mine : tk[t].status \in Settled
<1> DEFINE mine == {t \in TasksOf(J) : tk[t].status # Absent}
           n == Tally(tk, J)
<1>1. Total(n) = Cardinality(mine) /\ mine \in SUBSET Task
  BY TallyAddsUp DEF HasStatus, Total, CountRows, TasksOf
<1>2. Total(n) # 0 <=> mine # {}
  BY <1>1, CountIsZero
<1>3. n.queued = 0 /\ n.running = 0 <=> \A t \in TasksOf(J) : tk[t].status \notin Live
  BY NothingLive DEF Says, Settled
<1>4. \A t \in TasksOf(J) : tk[t].status \notin Live <=> tk[t].status \in Settled \cup {Absent}
  BY DEF HasStatus, TasksOf, TaskStatus, Live, Settled, Absent
<1> HIDE DEF n
<1>5. n.queued = 0 /\ n.running = 0 <=> \A t \in mine : tk[t].status \in Settled
  BY <1>3, <1>4 DEF Settled, Absent
<1> QED
  BY <1>2, <1>5 DEF n

(* A job that a client sees as finished has nothing queued or running, and *)
(* finished_at is set exactly then, after any interleaving of calls.       *)
THEOREM FinishedJobsAreQuiet == Spec => []FinishedJobIsQuiet
<1>1. Sound => FinishedJobIsQuiet
  <2> SUFFICES ASSUME Sound, NEW j \in Job
               PROVE  /\ job[j].status \in Settled =>
                            \A t \in TasksOf({j}) : task[t].status \notin Live
                      /\ job[j].finished <=> job[j].status \in Settled
    BY DEF FinishedJobIsQuiet
  <2>1. JobRowSound(job[j], Tally(task, {j}))
    BY DEF Sound, JobsSound
  <2>2. job[j].status \in Settled => Says("cancelled", Tally(task, {j}))
    BY <2>1 DEF JobRowSound, Says
  <2> QED
    BY <2>1, <2>2, NothingLive DEF JobRowSound
<1> QED
  BY <1>1, SoundInvariant, PTL

(* What "succeeded", "failed", "cancelling" and "queued" promise about the *)
(* tasks of the job is true in every reachable state.                      *)
THEOREM JobStatusesAreSound == Spec => []JobStatusSound
<1>1. TypeOK /\ Exact /\ Sound => JobStatusSound
  <2> SUFFICES ASSUME TypeOK, Exact, Sound, NEW j \in Job
               PROVE  LET n == Tally(task, {j})
                          live == n.queued + n.running
                      IN  /\ job[j].status = "succeeded" => n.succeeded = job[j].total
                          /\ job[j].status = "failed" => live = 0 /\ n.failed > 0
                          /\ job[j].status = "cancelling" => n.running > 0
                          /\ job[j].status = "queued" => live = job[j].total - n.cancelled
                                                         /\ n.running = 0
    BY DEF JobStatusSound
  <2> DEFINE n == Tally(task, {j})
  <2>1. Says(job[j].status, n)
    BY DEF Sound, JobsSound, JobRowSound
  <2>2. job[j].status # Absent => job[j].total = Total(n)
    BY TypedStatus, TallyAddsUp DEF Exact, JobExact, HasStatus, Total
  <2>3. n \in FullTally
    BY TallyType
  <2> HIDE DEF n
  <2>4. /\ n.queued \in Nat /\ n.running \in Nat /\ n.succeeded \in Nat
        /\ n.failed \in Nat /\ n.cancelled \in Nat
    BY <2>3 DEF FullTally
  <2>5. /\ job[j].status = "succeeded" => n.succeeded = job[j].total
        /\ job[j].status = "failed" => n.queued + n.running = 0 /\ n.failed > 0
        /\ job[j].status = "cancelling" => n.running > 0
        /\ job[j].status = "queued" => n.queued + n.running = job[j].total - n.cancelled
                                       /\ n.running = 0
    <3>1. CASE job[j].status = "succeeded"
      <4>1. n.queued = 0 /\ n.running = 0 /\ n.failed = 0 /\ n.cancelled = 0
        BY <2>1, <3>1 DEF Says, Settled
      <4> QED
        BY <2>2, <2>4, <3>1, <4>1 DEF Total, Absent
    <3>2. CASE job[j].status = "queued"
      <4>1. n.running = 0 /\ n.succeeded = 0 /\ n.failed = 0
        BY <2>1, <3>2 DEF Says
      <4> QED
        BY <2>2, <2>4, <3>2, <4>1 DEF Total, Absent
    <3>3. CASE job[j].status \notin {"succeeded", "queued"}
      BY <2>1, <2>4, <3>3 DEF Says, Settled
    <3> QED
      BY <3>1, <3>2, <3>3
  <2> QED
    BY <2>5 DEF n
<1> QED
  BY <1>1, SoundInvariant, PTL

(* A session row is terminal exactly when it has tasks and all of them are *)
(* settled: its status is never early and never late.                      *)
THEOREM SessionsSettleWithTheirTasks == Spec => []SessionSettlesWithItsTasks
<1>1. TypeOK /\ Sound => SessionSettlesWithItsTasks
  <2> SUFFICES ASSUME TypeOK, Sound, NEW s \in Session, session[s].status # Absent
               PROVE  LET mine == {t \in TasksOf(JobsIn(s)) : task[t].status # Absent}
                      IN  /\ session[s].status \in Settled
                             <=> mine # {} /\ \A t \in mine : task[t].status \in Settled
                          /\ session[s].finished <=> session[s].status \in Settled
    BY DEF SessionSettlesWithItsTasks
  <2>1. SessionRowSound(session[s], Tally(task, JobsIn(s)))
    BY DEF Sound, SessionsSound, JobsIn
  <2> QED
    BY <2>1, TypedStatus, SettledCounts DEF SessionRowSound
<1> QED
  BY <1>1, SoundInvariant, PTL

-----------------------------------------------------------------------------
(* The store implements TaskLifecycle.  One more fact about rows is needed: *)
(* a row that is not in the table holds nothing of the task it once was.   *)
AbsentIsEmpty == \A t \in Task : task[t].status = Absent => task[t] = NoTask

LEMMA AbsentInductive == TypeOK /\ Exact /\ AbsentIsEmpty /\ [Next]_vars => AbsentIsEmpty'
<1> SUFFICES ASSUME TypeOK, Exact, AbsentIsEmpty, [Next]_vars, NEW t \in Task,
                    task'[t].status = Absent
             PROVE  task'[t] = NoTask
  BY DEF AbsentIsEmpty
<1>0. task[t] \in TaskRow
  BY DEF TypeOK
<1>1. /\ NewTask.status # Absent
      /\ \A e : Handout(task[t], e).status # Absent
      /\ \A e : Handout(Requeue(task[t]), e).status # Absent
      /\ ExpireRow(task[t]).status # Absent /\ Requeue(task[t]).status # Absent
      /\ \A r \in BOOLEAN : RetryRow(task[t], r).status # Absent
      /\ \A st \in Settled : /\ Settle(task[t], st).status # Absent
                             /\ \A o : [Settle(task[t], st) EXCEPT !.owner = o].status # Absent
  <2>1. Requeue(task[t]) \in TaskRow /\ \A st \in Settled : Settle(task[t], st).status = st
    BY <1>0, RowTypes, RowStatus DEF TaskStatus
  <2>2. \A st \in Settled : \A o : [Settle(task[t], st) EXCEPT !.owner = o].status = st
    BY <1>0 DEF Settle, TaskRow
  <2>3. \A st \in Settled : st # Absent
    BY DEF Settled, Absent
  <2> QED
    BY <1>0, <2>1, <2>2, <2>3, RowStatus DEF NewTask, NoTask, Absent
<1>2. task[t].lease = "valid" => [task[t] EXCEPT !.lease = "lapsed"].status = task[t].status
  BY <1>0 DEF TaskRow
<1>3. task[t].lease = "valid" => task[t].status # Absent
  BY DEF AbsentIsEmpty, NoTask
<1>4. CASE WorkMove(t)
  BY <1>1, <1>2, <1>3, <1>4 DEF WorkMove, AbsentIsEmpty, Settled
<1>5. CASE OperatorMove(t)
  BY <1>1, <1>5, StoreAssumption DEF OperatorMove, AbsentIsEmpty, Settled
<1> QED
  BY <1>4, <1>5, StepMoves

(* A session that retention may delete has settled tasks only.             *)
LEMMA DeletedIsSettled ==
    ASSUME TypeOK, Exact, Sound, NEW t \in Task, task[t].status # Absent,
           session[SessionOf[JobOf[t]]].status \in Settled
    PROVE  task[t].status \in Settled
<1> DEFINE s == SessionOf[JobOf[t]]
           J == JobRowsIn(job, s)
<1>1. s \in Session /\ session[s].status # Absent /\ t \in TasksOf(J)
  BY RowsAssumption DEF Exact, Linked, JobRowsIn, TasksOf
<1>2. Tally(task, J).queued = 0 /\ Tally(task, J).running = 0
  BY <1>1 DEF Sound, SessionsSound, SessionRowSound
<1> HIDE DEF J
<1>3. \A u \in {v \in TasksOf(J) : task[v].status # Absent} : task[u].status \in Settled
  BY <1>2, TypedStatus, SettledCounts
<1> QED
  BY <1>1, <1>3

(* What TaskLifecycle sees of a row.                                       *)
Seen(row) == [status |-> row.status, attempts |-> row.attempts, owner |-> row.owner]

LEMMA RowsRefine ==
    ASSUME TypeOK, Exact, Sound, AbsentIsEmpty, [Next]_vars, NEW t \in Task
    PROVE  Seen(task'[t]) = Seen(task[t]) \/ Lifecycle!Move(Seen(task[t]), Seen(task'[t]))
<1> DEFINE a == task[t]
           b == task'[t]
<1>0. a \in TaskRow /\ a.attempts \in Nat /\ MaxRetries \in Nat /\ NoOwner \notin Executor
  BY StoreAssumption DEF TypeOK, TaskRow
<1>1. /\ \A x : Seen(x).status = x.status /\ Seen(x).attempts = x.attempts
                /\ Seen(x).owner = x.owner
      /\ HasRetryLeft(a) <=> a.attempts <= MaxRetries
  BY <1>0 DEF Seen, HasRetryLeft
<1>2. \A st \in Settled : /\ Settle(a, st).status = st /\ Settle(a, st).attempts = a.attempts
                          /\ Settle(a, st).owner = a.owner
                          /\ \A o : LET r == [Settle(a, st) EXCEPT !.owner = o]
                                    IN  r.status = st /\ r.attempts = a.attempts /\ r.owner = o
  BY <1>0 DEF Settle, TaskRow
<1>3. /\ Requeue(a).status = "queued" /\ Requeue(a).attempts = a.attempts
      /\ Requeue(a).owner = NoOwner
  BY <1>0 DEF Requeue, TaskRow
<1>4. ASSUME NEW r \in TaskRow, NEW e
      PROVE  /\ Handout(r, e).status = "running" /\ Handout(r, e).attempts = r.attempts + 1
             /\ Handout(r, e).owner = e
  BY DEF Handout, TaskRow
<1> HIDE DEF a, b
<1>5. CASE WorkMove(t)
  <2>1. CASE b = a
    BY <2>1 DEF a, b
  <2>2. CASE a.status = Absent /\ b = NewTask
    <3>1. b.status = "queued" /\ b.attempts = 0
      BY <2>2 DEF NewTask, NoTask
    <3>2. Lifecycle!Submitted(Seen(a), Seen(b))
      BY <1>1, <2>2, <3>1 DEF Lifecycle!Submitted, Absent
    <3> QED
      BY <3>2 DEF Lifecycle!Move, a, b
  <2>3. CASE /\ a.status = "queued" \/ (a.status = "running" /\ HasRetryLeft(a))
             /\ \E e \in Executor : b = Handout(a, e) \/ b = Handout(Requeue(a), e)
    <3>1. Requeue(a) \in TaskRow
      BY <1>0, RowTypes
    <3>2. b.status = "running" /\ b.attempts = a.attempts + 1 /\ b.owner \in Executor
      BY <1>0, <1>3, <1>4, <2>3, <3>1
    <3>3. Lifecycle!Leased(Seen(a), Seen(b))
      BY <1>1, <2>3, <3>2 DEF Lifecycle!Leased
    <3> QED
      BY <3>3 DEF Lifecycle!Move, a, b
  <2>4. CASE a.status = "running" /\ HasRetryLeft(a) /\ b = Requeue(a)
    <3>1. Lifecycle!Requeued(Seen(a), Seen(b))
      BY <1>1, <1>3, <2>4 DEF Lifecycle!Requeued, Lifecycle!Same
    <3> QED
      BY <3>1 DEF Lifecycle!Move, a, b
  <2>5. CASE a.status = "running" /\ ~HasRetryLeft(a)
             /\ \E o : b = [Settle(a, "failed") EXCEPT !.owner = o]
    <3>1. b.status = "failed" /\ b.attempts = a.attempts
      BY <1>2, <2>5 DEF Settled
    <3>2. a.attempts > MaxRetries
      BY <1>0, <1>1, <2>5
    <3>3. Lifecycle!Failed(Seen(a), Seen(b))
      BY <1>1, <2>5, <3>1, <3>2 DEF Lifecycle!Failed, Lifecycle!Same
    <3> QED
      BY <3>3 DEF Lifecycle!Move, a, b
  <2>6. CASE a.status = "running" /\ b = ExpireRow(a)
    BY <2>4, <2>5, <2>6 DEF ExpireRow
  <2>7. CASE a.lease = "valid" /\ b = [a EXCEPT !.lease = "lapsed"]
    <3>1. b.status = a.status /\ b.attempts = a.attempts /\ b.owner = a.owner
      BY <1>0, <2>7 DEF TaskRow
    <3> QED
      BY <3>1 DEF Seen, a, b
  <2>8. CASE a.status = "running" /\ b = Settle(a, "succeeded")
    <3>1. Lifecycle!Succeeded(Seen(a), Seen(b))
      BY <1>1, <1>2, <2>8 DEF Lifecycle!Succeeded, Lifecycle!Same, Settled
    <3> QED
      BY <3>1 DEF Lifecycle!Move, a, b
  <2>9. CASE job[JobOf[t]].status = "cancelled" /\ b = Settle(a, "cancelled")
    <3>1. a.status # "absent"
      BY <2>9, RowsAssumption DEF Exact, Linked, Absent, a
    <3>2. Lifecycle!Cancelled(Seen(a), Seen(b))
      BY <1>1, <1>2, <2>9, <3>1 DEF Lifecycle!Cancelled, Lifecycle!Same, Settled
    <3> QED
      BY <3>2 DEF Lifecycle!Move, a, b
  <2> QED
    BY <1>5, <2>1, <2>2, <2>3, <2>4, <2>5, <2>6, <2>7, <2>8, <2>9 DEF WorkMove, a, b
<1>6. CASE OperatorMove(t)
  <2>1. CASE b = a
    BY <2>1 DEF a, b
  <2>2. CASE a.status \in {"failed", "cancelled"} /\ \E r \in ResetChoices : b = RetryRow(a, r)
    <3>1. PICK r \in BOOLEAN : b = RetryRow(a, r)
      BY <2>2, StoreAssumption
    <3>2. Requeue(a) \in TaskRow
      BY <1>0, RowTypes
    <3>3. b.status = "queued" /\ b.attempts \in {0, a.attempts} /\ b.owner = NoOwner
      BY <1>3, <3>1, <3>2 DEF RetryRow, TaskRow
    <3>4. Lifecycle!Retried(Seen(a), Seen(b))
      BY <1>1, <2>2, <3>3 DEF Lifecycle!Retried
    <3> QED
      BY <3>4 DEF Lifecycle!Move, a, b
  <2>3. CASE a.status # Absent /\ \E o : b = [Settle(a, "cancelled") EXCEPT !.owner = o]
    <3>1. b.status = "cancelled" /\ b.attempts = a.attempts
      BY <1>2, <2>3 DEF Settled
    <3>2. Lifecycle!Cancelled(Seen(a), Seen(b))
      BY <1>1, <2>3, <3>1 DEF Lifecycle!Cancelled, Lifecycle!Same, Absent
    <3> QED
      BY <3>2 DEF Lifecycle!Move, a, b
  <2>4. CASE session[SessionOf[JobOf[t]]].status \in Settled /\ b = NoTask
    <3>1. CASE a.status = Absent
      BY <2>4, <3>1 DEF AbsentIsEmpty, a, b
    <3>2. CASE a.status # Absent
      <4>1. a.status \in Settled
        BY <2>4, <3>2, DeletedIsSettled DEF a
      <4>2. b.status = "absent"
        BY <2>4 DEF NoTask, Absent
      <4>3. Lifecycle!Deleted(Seen(a), Seen(b))
        BY <1>1, <4>1, <4>2 DEF Lifecycle!Deleted, Settled
      <4> QED
        BY <4>3 DEF Lifecycle!Move, a, b
    <3> QED
      BY <3>1, <3>2
  <2> QED
    BY <1>6, <2>1, <2>2, <2>3, <2>4 DEF OperatorMove, a, b
<1> QED
  BY <1>5, <1>6, StepMoves

(* The manager implements the task lifecycle: whatever the interleaving of *)
(* leases, reports, recoveries and operator calls, a client that watches   *)
(* one task sees only the moves TaskLifecycle allows.                      *)
THEOREM StoreImplementsLifecycle == Spec => ImplementsLifecycle
<1>1. Init => AbsentIsEmpty
  BY DEF Init, AbsentIsEmpty
<1>2. Spec => [](TypeOK /\ Exact /\ Sound /\ AbsentIsEmpty)
  BY <1>1, SoundInvariant, AbsentInductive, PTL DEF Spec
<1> DEFINE rows == [t \in Task |-> [status |-> task[t].status,
                                  attempts |-> task[t].attempts,
                                  owner |-> task[t].owner]]
<1>3. TypeOK => rows \in [Task -> Lifecycle!Row]
  BY DEF TypeOK, TaskRow, Lifecycle!Row, TaskStatus, Live, Settled, Absent
<1>4. Init => Lifecycle!Init
  <2> SUFFICES ASSUME Init
               PROVE  rows \in [Task -> Lifecycle!Row] /\ \A t \in Task : rows[t].status = "absent"
    BY DEF Lifecycle!Init
  <2>1. TypeOK
    BY EmptyRowTypes DEF Init, TypeOK
  <2>2. \A t \in Task : task[t].status = "absent"
    BY DEF Init, NoTask, Absent
  <2> QED
    BY <1>3, <2>1, <2>2
<1>5. TypeOK /\ TypeOK' /\ Exact /\ Sound /\ AbsentIsEmpty /\ [Next]_vars
        => [Lifecycle!Next]_rows
  <2> SUFFICES ASSUME TypeOK, TypeOK', Exact, Sound, AbsentIsEmpty, [Next]_vars
               PROVE  /\ rows' \in [Task -> Lifecycle!Row]
                      /\ \A t \in Task : rows'[t] = rows[t] \/ Lifecycle!Move(rows[t], rows'[t])
    BY DEF Lifecycle!Next
  <2>1. \A t \in Task : rows[t] = Seen(task[t]) /\ rows'[t] = Seen(task'[t])
    BY DEF Seen
  <2>2. rows' \in [Task -> Lifecycle!Row]
    BY DEF TypeOK, TaskRow, Lifecycle!Row, TaskStatus, Live, Settled, Absent
  <2> HIDE DEF rows
  <2> QED
    BY <2>1, <2>2, RowsRefine
<1> QED
  BY <1>2, <1>4, <1>5, PTL DEF Spec, ImplementsLifecycle, Lifecycle!Spec
=============================================================================
