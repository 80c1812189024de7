--------------------------- MODULE RecountLemmas ---------------------------
(* Facts about the operators of Recount: the rows they return are rows,    *)
(* a tally depends only on the statuses it counts, and what a lease or an  *)
(* accepted result does to a tally is what the incremental helpers do.     *)
EXTENDS Recount, FiniteSetTheorems, TLAPS

(* Every set of tasks is finite, so that counting it gives a number.       *)
LEMMA TaskSubsetFinite ==
    ASSUME NEW S \in SUBSET Task
    PROVE  IsFiniteSet(S) /\ Cardinality(S) \in Nat
BY RowsAssumption, FS_Subset, FS_CardinalityType

LEMMA JobSubsetFinite ==
    ASSUME NEW S \in SUBSET Job
    PROVE  IsFiniteSet(S) /\ Cardinality(S) \in Nat
BY RowsAssumption, FS_Subset, FS_CardinalityType

(* Counting rows yields natural numbers.                                   *)
LEMMA TallyType ==
    ASSUME NEW tk, NEW J
    PROVE  Tally(tk, J) \in FullTally /\ CountRows(tk, J) \in Nat
<1>1. \A s : InStatus(tk, J, s) \in SUBSET Task
  BY DEF InStatus, TasksOf
<1>2. \A s : Cardinality(InStatus(tk, J, s)) \in Nat
  BY <1>1, TaskSubsetFinite
<1>3. {t \in TasksOf(J) : tk[t].status # Absent} \in SUBSET Task
  BY DEF TasksOf
<1>4. CountRows(tk, J) \in Nat
  BY <1>3, TaskSubsetFinite DEF CountRows
<1> QED
  BY <1>2, <1>4 DEF Tally, FullTally

LEMMA LadderType ==
    ASSUME NEW total \in Nat, NEW n \in FullTally
    PROVE  Ladder(total, n) \in JobStatus \ {"cancelling"}
BY DEF Ladder, FullTally, JobStatus, TaskStatus, Live, Settled

LEMMA RecalcJobType ==
    ASSUME NEW tk, NEW j \in Job, NEW row \in JobRow
    PROVE  RecalcJob(tk, row, j) \in JobRow
<1> DEFINE n == Tally(tk, {j})
           total == CountRows(tk, {j})
           status == NextJobStatus(row.status, total, n)
<1>1. n \in FullTally /\ total \in Nat
  BY TallyType
<1>2. status \in JobStatus \cup {Absent}
  BY <1>1, LadderType DEF NextJobStatus, JobRow
<1>3. Stored(n) \in StoredTally
  BY <1>1 DEF Stored, FullTally, StoredTally
<1> QED
  BY <1>1, <1>2, <1>3 DEF RecalcJob, JobRow

LEMMA RecalcJobsType ==
    ASSUME NEW tk, NEW jb \in [Job -> JobRow], NEW J
    PROVE  RecalcJobs(tk, jb, J) \in [Job -> JobRow]
BY RecalcJobType DEF RecalcJobs

LEMMA RecalcSessionType ==
    ASSUME NEW tk, NEW jb, NEW s, NEW row \in SessionRow
    PROVE  RecalcSession(tk, jb, row, s) \in SessionRow
<1> DEFINE J == JobRowsIn(jb, s)
           n == Tally(tk, J)
           total == CountRows(tk, J)
           status == NextSessionStatus(total, n, IsCancelling(jb, s))
<1>1. n \in FullTally /\ total \in Nat
  BY TallyType
<1>2. status \in JobStatus
  BY <1>1, LadderType DEF NextSessionStatus, JobStatus, TaskStatus, Live
<1>3. Cardinality(J) \in Nat
  BY JobSubsetFinite DEF JobRowsIn
<1> QED
  BY <1>1, <1>2, <1>3 DEF RecalcSession, SessionRow

LEMMA RecalcSessionsType ==
    ASSUME NEW tk, NEW jb, NEW se \in [Session -> SessionRow], NEW S
    PROVE  RecalcSessions(tk, jb, se, S) \in [Session -> SessionRow]
BY RecalcSessionType DEF RecalcSessions

LEMMA MarkStartedJobsType ==
    ASSUME NEW jb \in [Job -> JobRow], NEW T
    PROVE  MarkStartedJobs(jb, T) \in [Job -> JobRow]
BY DEF MarkStartedJobs, JobRow, JobStatus, TaskStatus, Live

LEMMA StartedType ==
    ASSUME NEW n \in FullTally, NEW k \in Nat
    PROVE  Started(n, k) \in FullTally
<1>1. Minus(n.queued, k) \in Nat /\ n.running + k \in Nat
  BY DEF FullTally, Minus
<1> QED
  BY <1>1 DEF Started, FullTally

LEMMA CompletedType ==
    ASSUME NEW n \in FullTally
    PROVE  Completed(n) \in FullTally
<1>1. Minus(n.running, 1) \in Nat /\ n.succeeded + 1 \in Nat
  BY DEF FullTally, Minus
<1> QED
  BY <1>1 DEF Completed, FullTally

LEMMA MarkStartedSessionsType ==
    ASSUME NEW se \in [Session -> SessionRow], NEW T \in SUBSET Task
    PROVE  MarkStartedSessions(se, T) \in [Session -> SessionRow]
<1>1. ASSUME NEW row \in SessionRow, NEW n \in Nat
      PROVE  MarkStartedSession(row, n) \in SessionRow
  <2>1. Started(row.count, n) \in FullTally
    BY <1>1, StartedType DEF SessionRow
  <2> QED
    BY <1>1, <2>1 DEF MarkStartedSession, SessionRow, JobStatus, TaskStatus, Live
<1>2. ASSUME NEW s \in Session
      PROVE  Cardinality({t \in T : SessionOf[JobOf[t]] = s}) \in Nat
  <2>1. {t \in T : SessionOf[JobOf[t]] = s} \in SUBSET Task
    OBVIOUS
  <2> QED
    BY <2>1, TaskSubsetFinite
<1> QED
  BY <1>1, <1>2 DEF MarkStartedSessions

LEMMA MarkCompletedType ==
    /\ \A row \in JobRow : MarkCompletedJob(row) \in JobRow
    /\ \A row \in SessionRow : MarkCompletedSession(row) \in SessionRow
<1>1. ASSUME NEW row \in JobRow
      PROVE  MarkCompletedJob(row) \in JobRow
  <2> DEFINE done == row.count.succeeded + 1
             status == IF done = row.total THEN "succeeded"
                       ELSE IF row.status = "queued" THEN "running" ELSE row.status
             count == [row.count EXCEPT !.succeeded = done]
  <2>1. row.count \in StoredTally /\ row.status \in JobStatus \cup {Absent}
    BY <1>1 DEF JobRow
  <2>2. count \in StoredTally
    BY <2>1 DEF StoredTally
  <2>3. status \in JobStatus \cup {Absent}
    BY <2>1 DEF JobStatus, TaskStatus, Live, Settled
  <2>4. MarkCompletedJob(row) =
            [status |-> status, total |-> row.total, count |-> count, paused |-> row.paused,
             finished |-> row.finished \/ (status # row.status /\ status \in Settled)]
    BY DEF MarkCompletedJob
  <2> HIDE DEF count, status
  <2> QED
    BY <1>1, <2>2, <2>3, <2>4 DEF JobRow
<1>2. ASSUME NEW row \in SessionRow
      PROVE  MarkCompletedSession(row) \in SessionRow
  <2> DEFINE n == Completed(row.count)
             status == NextSessionStatus(row.total, n, FALSE)
  <2>1. row.total \in Nat /\ n \in FullTally
    BY <1>2, CompletedType DEF SessionRow
  <2>2. status \in JobStatus
    BY <2>1, LadderType DEF NextSessionStatus, JobStatus, TaskStatus, Live
  <2>3. MarkCompletedSession(row) =
            [status |-> status, jobs |-> row.jobs, total |-> row.total, count |-> n,
             paused |-> row.paused, finished |-> status \in Settled]
    BY DEF MarkCompletedSession
  <2> HIDE DEF n, status
  <2> QED
    BY <1>2, <2>1, <2>2, <2>3 DEF SessionRow
<1> QED
  BY <1>1, <1>2

-----------------------------------------------------------------------------
(* Exact counters.                                                         *)

JobExact(tk, jb) ==
    \A j \in Job : jb[j].status # Absent =>
        /\ jb[j].total = CountRows(tk, {j})
        /\ jb[j].count = Stored(Tally(tk, {j}))

SessionExact(tk, jb, se) ==
    \A s \in Session : se[s].status # Absent =>
        /\ se[s].jobs = Cardinality(JobRowsIn(jb, s))
        /\ se[s].total = CountRows(tk, JobRowsIn(jb, s))
        /\ se[s].count = Tally(tk, JobRowsIn(jb, s))

(* A task row exists exactly with its job row, a job row with its session. *)
Linked(tk, jb, se) ==
    /\ \A t \in Task : tk[t].status = Absent <=> jb[JobOf[t]].status = Absent
    /\ \A j \in Job : jb[j].status # Absent => se[SessionOf[j]].status # Absent

(* Counts depend on the statuses of the counted tasks only.                *)
LEMMA SameTally ==
    ASSUME NEW tk, NEW tk2, NEW J,
           \A t \in TasksOf(J) : tk2[t].status = tk[t].status
    PROVE  Tally(tk2, J) = Tally(tk, J) /\ CountRows(tk2, J) = CountRows(tk, J)
<1>1. \A s : InStatus(tk2, J, s) = InStatus(tk, J, s)
  BY DEF InStatus
<1>2. {t \in TasksOf(J) : tk2[t].status # Absent} = {t \in TasksOf(J) : tk[t].status # Absent}
  OBVIOUS
<1> QED
  BY <1>1, <1>2 DEF Tally, CountRows

(* Recounting neither creates nor removes rows.                            *)
LEMMA RecalcKeepsJobs ==
    ASSUME NEW tk, NEW jb \in [Job -> JobRow], NEW J, NEW j \in Job
    PROVE  RecalcJobs(tk, jb, J)[j].status = Absent <=> jb[j].status = Absent
<1>1. ASSUME jb[j].status # Absent
      PROVE  NextJobStatus(jb[j].status, CountRows(tk, {j}), Tally(tk, {j})) # Absent
  BY <1>1, TallyType, LadderType
  DEF NextJobStatus, JobRow, JobStatus, TaskStatus, Live, Settled, Absent
<1> QED
  BY <1>1 DEF RecalcJobs, RecalcJob

LEMMA RecalcKeepsSessions ==
    ASSUME NEW tk, NEW jb, NEW se, NEW S, NEW s \in Session
    PROVE  RecalcSessions(tk, jb, se, S)[s].status = Absent <=> se[s].status = Absent
<1>1. \A b : NextSessionStatus(CountRows(tk, JobRowsIn(jb, s)), Tally(tk, JobRowsIn(jb, s)), b)
             # Absent
  BY TallyType, LadderType
  DEF NextSessionStatus, JobStatus, TaskStatus, Live, Settled, Absent
<1> QED
  BY <1>1 DEF RecalcSessions, RecalcSession

(* The slow path: whatever changes in the tasks and job rows of J, the     *)
(* recount makes every counter of a job exact again.                       *)
LEMMA JobsRecounted ==
    ASSUME NEW tk0, NEW tk, NEW jb0, NEW jb, NEW J, JobExact(tk0, jb0),
           \A t \in Task : JobOf[t] \notin J => tk[t].status = tk0[t].status,
           \A j \in Job : j \notin J => jb[j] = jb0[j]
    PROVE  JobExact(tk, RecalcJobs(tk, jb, J))
<1> DEFINE jb2 == RecalcJobs(tk, jb, J)
<1>1. ASSUME NEW j \in Job, jb2[j].status # Absent
      PROVE  /\ jb2[j].total = CountRows(tk, {j})
             /\ jb2[j].count = Stored(Tally(tk, {j}))
  <2>1. CASE j \in J /\ jb[j].status # Absent
    BY <2>1 DEF RecalcJobs, RecalcJob
  <2>2. CASE j \in J /\ jb[j].status = Absent
    BY <1>1, <2>2 DEF RecalcJobs
  <2>3. CASE j \notin J
    <3>1. jb2[j] = jb0[j]
      BY <2>3 DEF RecalcJobs
    <3>2. Tally(tk, {j}) = Tally(tk0, {j}) /\ CountRows(tk, {j}) = CountRows(tk0, {j})
      BY <2>3, SameTally DEF TasksOf
    <3> QED
      BY <1>1, <3>1, <3>2 DEF JobExact
  <2> QED
    BY <2>1, <2>2, <2>3
<1> QED
  BY <1>1 DEF JobExact

(* The same for the sessions in S, if all that changed is in them.         *)
LEMMA SessionsRecounted ==
    ASSUME NEW tk0, NEW tk, NEW jb0, NEW jb, NEW se0, NEW se, NEW S,
           SessionExact(tk0, jb0, se0),
           \A t \in Task : SessionOf[JobOf[t]] \notin S => tk[t].status = tk0[t].status,
           \A j \in Job : SessionOf[j] \notin S =>
               (jb[j].status = Absent <=> jb0[j].status = Absent),
           \A s \in Session : s \notin S => se[s] = se0[s]
    PROVE  SessionExact(tk, jb, RecalcSessions(tk, jb, se, S))
<1> DEFINE se2 == RecalcSessions(tk, jb, se, S)
<1>1. ASSUME NEW s \in Session, se2[s].status # Absent
      PROVE  /\ se2[s].jobs = Cardinality(JobRowsIn(jb, s))
             /\ se2[s].total = CountRows(tk, JobRowsIn(jb, s))
             /\ se2[s].count = Tally(tk, JobRowsIn(jb, s))
  <2>1. CASE s \in S /\ se[s].status # Absent
    BY <2>1 DEF RecalcSessions, RecalcSession
  <2>2. CASE s \in S /\ se[s].status = Absent
    BY <1>1, <2>2 DEF RecalcSessions
  <2>3. CASE s \notin S
    <3>1. se2[s] = se0[s]
      BY <2>3 DEF RecalcSessions
    <3>2. JobRowsIn(jb, s) = JobRowsIn(jb0, s)
      BY <2>3 DEF JobRowsIn
    <3>3. \A t \in TasksOf(JobRowsIn(jb0, s)) : tk[t].status = tk0[t].status
      BY <2>3 DEF JobRowsIn, TasksOf
    <3>4. /\ Tally(tk, JobRowsIn(jb0, s)) = Tally(tk0, JobRowsIn(jb0, s))
          /\ CountRows(tk, JobRowsIn(jb0, s)) = CountRows(tk0, JobRowsIn(jb0, s))
      BY <3>3, SameTally
    <3> QED
      BY <1>1, <3>1, <3>2, <3>4 DEF SessionExact
  <2> QED
    BY <2>1, <2>2, <2>3
<1> QED
  BY <1>1 DEF SessionExact

(* Both together, as every slow path of the code runs them.                *)
LEMMA RecalcExact ==
    ASSUME NEW tk0, NEW tk, NEW jb0, NEW jb \in [Job -> JobRow],
           NEW se \in [Session -> SessionRow], NEW J \in SUBSET Job,
           JobExact(tk0, jb0), SessionExact(tk0, jb0, se), Linked(tk0, jb0, se),
           \A t \in Task : JobOf[t] \notin J => tk[t].status = tk0[t].status,
           \A t \in Task : tk[t].status = Absent <=> tk0[t].status = Absent,
           \A j \in Job : j \notin J => jb[j] = jb0[j],
           \A j \in Job : jb[j].status = Absent <=> jb0[j].status = Absent
    PROVE  LET jb2 == RecalcJobs(tk, jb, J)
               se2 == RecalcSessions(tk, jb2, se, SessionsOf(J))
           IN  JobExact(tk, jb2) /\ SessionExact(tk, jb2, se2) /\ Linked(tk, jb2, se2)
<1> DEFINE S == SessionsOf(J)
           jb2 == RecalcJobs(tk, jb, J)
           se2 == RecalcSessions(tk, jb2, se, S)
<1>1. JobExact(tk, jb2)
  BY JobsRecounted
<1>2. /\ \A j \in Job : jb2[j].status = Absent <=> jb0[j].status = Absent
      /\ \A s \in Session : se2[s].status = Absent <=> se[s].status = Absent
  BY RecalcKeepsJobs, RecalcKeepsSessions
<1>3. \A t \in Task : SessionOf[JobOf[t]] \notin S => tk[t].status = tk0[t].status
  BY RowsAssumption DEF SessionsOf
<1> HIDE DEF S, jb2
<1>4. SessionExact(tk, jb2, se2)
  BY <1>2, <1>3, SessionsRecounted
<1> HIDE DEF se2
<1>5. Linked(tk, jb2, se2)
  BY <1>2, RowsAssumption DEF Linked
<1> QED
  BY <1>1, <1>4, <1>5 DEF S, jb2, se2

(* Steps that change neither a status nor a counter keep both exact.       *)
LEMMA UntouchedExact ==
    ASSUME NEW tk, NEW tk2, NEW jb, NEW jb2, NEW se, NEW se2,
           JobExact(tk, jb), SessionExact(tk, jb, se), Linked(tk, jb, se),
           \A t \in Task : tk2[t].status = tk[t].status,
           \A j \in Job : /\ jb2[j].status = jb[j].status
                          /\ jb2[j].total = jb[j].total
                          /\ jb2[j].count = jb[j].count,
           \A s \in Session : /\ se2[s].status = se[s].status
                              /\ se2[s].jobs = se[s].jobs
                              /\ se2[s].total = se[s].total
                              /\ se2[s].count = se[s].count
    PROVE  JobExact(tk2, jb2) /\ SessionExact(tk2, jb2, se2) /\ Linked(tk2, jb2, se2)
<1>1. \A J : Tally(tk2, J) = Tally(tk, J) /\ CountRows(tk2, J) = CountRows(tk, J)
  BY SameTally DEF TasksOf
<1>2. \A s \in Session : JobRowsIn(jb2, s) = JobRowsIn(jb, s)
  BY DEF JobRowsIn
<1>3. JobExact(tk2, jb2)
  BY <1>1 DEF JobExact
<1>4. SessionExact(tk2, jb2, se2)
  BY <1>1, <1>2 DEF SessionExact
<1>5. Linked(tk2, jb2, se2)
  BY RowsAssumption DEF Linked
<1> QED
  BY <1>3, <1>4, <1>5

(* Taking k tasks of a finite set out of it.                               *)
LEMMA CardinalityMinus ==
    ASSUME NEW A, IsFiniteSet(A), NEW B \in SUBSET A
    PROVE  /\ Cardinality(A \ B) = Cardinality(A) - Cardinality(B)
           /\ Cardinality(B) <= Cardinality(A)
           /\ Cardinality(A) \in Nat /\ Cardinality(B) \in Nat
<1>1. IsFiniteSet(B) /\ IsFiniteSet(A \ B) /\ Cardinality(B) <= Cardinality(A)
  BY FS_Subset
<1>2. (A \ B) \cup B = A /\ (A \ B) \cap B = {}
  OBVIOUS
<1>3. Cardinality(A) = Cardinality(A \ B) + Cardinality(B) - Cardinality({})
  BY <1>1, <1>2, FS_Union
<1>4. /\ Cardinality(A) \in Nat /\ Cardinality(B) \in Nat
      /\ Cardinality(A \ B) \in Nat /\ Cardinality({}) = 0
  BY <1>1, FS_CardinalityType, FS_EmptySet
<1> QED
  BY <1>1, <1>3, <1>4

(* Moving tasks between two disjoint sets.                                 *)
LEMMA CardinalityMove ==
    ASSUME NEW A \in SUBSET Task, NEW B \in SUBSET Task, NEW M \in SUBSET Task,
           M \subseteq A, A \cap B = {}
    PROVE  /\ Cardinality(A \ M) = Minus(Cardinality(A), Cardinality(M))
           /\ Cardinality(B \cup M) = Cardinality(B) + Cardinality(M)
<1>1. IsFiniteSet(A) /\ IsFiniteSet(B) /\ IsFiniteSet(M)
  BY TaskSubsetFinite
<1>2. Cardinality(A \ M) = Minus(Cardinality(A), Cardinality(M))
  BY <1>1, CardinalityMinus DEF Minus
<1>3. B \cap M = {}
  OBVIOUS
<1>4. Cardinality(B \cup M) = Cardinality(B) + Cardinality(M) - Cardinality(B \cap M)
  BY <1>1, FS_Union
<1>5. /\ Cardinality(B) \in Nat /\ Cardinality(M) \in Nat
      /\ Cardinality(B \cap M) = 0
  BY <1>1, <1>3, FS_CardinalityType, FS_EmptySet
<1>6. Cardinality(B \cup M) = Cardinality(B) + Cardinality(M)
  BY <1>4, <1>5
<1> QED
  BY <1>2, <1>6

(* The lease path: patching the counters is as good as recounting.         *)
LEMMA StartedTally ==
    ASSUME NEW tk, NEW tk2, NEW J, NEW M \in SUBSET Task,
           M \subseteq InStatus(tk, J, "queued"),
           \A t \in TasksOf(J) :
               tk2[t].status = IF t \in M THEN "running" ELSE tk[t].status
    PROVE  /\ Tally(tk2, J) = Started(Tally(tk, J), Cardinality(M))
           /\ CountRows(tk2, J) = CountRows(tk, J)
<1> DEFINE Q == InStatus(tk, J, "queued")
           R == InStatus(tk, J, "running")
<1>1. /\ InStatus(tk2, J, "queued") = Q \ M
      /\ InStatus(tk2, J, "running") = R \cup M
      /\ \A s \in Settled : InStatus(tk2, J, s) = InStatus(tk, J, s)
  BY DEF InStatus, TasksOf, Settled
<1>0. Q \cap R = {} /\ Q \in SUBSET Task /\ R \in SUBSET Task
  BY DEF InStatus, TasksOf
<1>2. {t \in TasksOf(J) : tk2[t].status # Absent} = {t \in TasksOf(J) : tk[t].status # Absent}
  BY DEF InStatus, Absent
<1>3. M \subseteq Q
  OBVIOUS
<1>4. Tally(tk, J) = [queued |-> Cardinality(Q),
                      running |-> Cardinality(R),
                      succeeded |-> Cardinality(InStatus(tk, J, "succeeded")),
                      failed |-> Cardinality(InStatus(tk, J, "failed")),
                      cancelled |-> Cardinality(InStatus(tk, J, "cancelled"))]
  BY DEF Tally
<1>5. Tally(tk2, J) = [queued |-> Cardinality(Q \ M),
                       running |-> Cardinality(R \cup M),
                       succeeded |-> Cardinality(InStatus(tk, J, "succeeded")),
                       failed |-> Cardinality(InStatus(tk, J, "failed")),
                       cancelled |-> Cardinality(InStatus(tk, J, "cancelled"))]
  BY <1>1 DEF Tally, Settled
<1> HIDE DEF Q, R
<1>6. /\ Cardinality(Q \ M) = Minus(Cardinality(Q), Cardinality(M))
      /\ Cardinality(R \cup M) = Cardinality(R) + Cardinality(M)
  BY <1>0, <1>3, CardinalityMove
<1>7. Tally(tk2, J) = Started(Tally(tk, J), Cardinality(M))
  BY <1>4, <1>5, <1>6 DEF Started
<1> QED
  BY <1>2, <1>7 DEF CountRows

LEMMA StartedExact ==
    ASSUME NEW tk, NEW tk2, NEW jb \in [Job -> JobRow], NEW se \in [Session -> SessionRow],
           NEW T \in SUBSET Task,
           JobExact(tk, jb), SessionExact(tk, jb, se), Linked(tk, jb, se),
           \A t \in T : tk[t].status = "queued",
           \A t \in Task : tk2[t].status = IF t \in T THEN "running" ELSE tk[t].status
    PROVE  LET jb2 == MarkStartedJobs(jb, T)
               se2 == MarkStartedSessions(se, T)
           IN  JobExact(tk2, jb2) /\ SessionExact(tk2, jb2, se2) /\ Linked(tk2, jb2, se2)
<1> DEFINE jb2 == MarkStartedJobs(jb, T)
           se2 == MarkStartedSessions(se, T)
<1>1. /\ \A j \in Job : /\ jb2[j].total = jb[j].total /\ jb2[j].count = jb[j].count
                        /\ jb2[j].status = Absent <=> jb[j].status = Absent
      /\ \A s \in Session : JobRowsIn(jb2, s) = JobRowsIn(jb, s)
  BY DEF MarkStartedJobs, JobRow, JobRowsIn, Absent
<1>2. \A s \in Session : se2[s].status = Absent <=> se[s].status = Absent
  BY DEF MarkStartedSessions, MarkStartedSession, SessionRow, Absent
<1>3. Linked(tk2, jb2, se2)
  BY <1>1, <1>2, RowsAssumption DEF Linked, Absent
<1>4. ASSUME NEW j \in Job, jb2[j].status # Absent
      PROVE  jb2[j].total = CountRows(tk2, {j}) /\ jb2[j].count = Stored(Tally(tk2, {j}))
  <2> DEFINE M == {t \in T : JobOf[t] = j}
  <2>1. M \in SUBSET Task /\ M \subseteq InStatus(tk, {j}, "queued")
    BY DEF InStatus, TasksOf
  <2>2. \A t \in TasksOf({j}) : tk2[t].status = IF t \in M THEN "running" ELSE tk[t].status
    BY DEF TasksOf
  <2> HIDE DEF M
  <2>3. /\ Tally(tk2, {j}) = Started(Tally(tk, {j}), Cardinality(M))
        /\ CountRows(tk2, {j}) = CountRows(tk, {j})
    BY <2>1, <2>2, StartedTally
  <2>4. Stored(Tally(tk2, {j})) = Stored(Tally(tk, {j}))
    BY <2>3 DEF Stored, Started, Tally
  <2> QED
    BY <1>1, <1>4, <2>3, <2>4 DEF JobExact
<1>5. ASSUME NEW s \in Session, se2[s].status # Absent
      PROVE  /\ se2[s].jobs = Cardinality(JobRowsIn(jb2, s))
             /\ se2[s].total = CountRows(tk2, JobRowsIn(jb2, s))
             /\ se2[s].count = Tally(tk2, JobRowsIn(jb2, s))
  <2> DEFINE J == JobRowsIn(jb, s)
             M == {t \in T : SessionOf[JobOf[t]] = s}
  <2>1. M \in SUBSET Task /\ M \subseteq InStatus(tk, J, "queued")
    BY RowsAssumption DEF InStatus, TasksOf, JobRowsIn, Linked, Absent
  <2>2. \A t \in TasksOf(J) : tk2[t].status = IF t \in M THEN "running" ELSE tk[t].status
    BY DEF TasksOf, JobRowsIn
  <2>3. /\ se2[s].jobs = se[s].jobs
        /\ se2[s].total = se[s].total
        /\ M # {} => se2[s].count = Started(se[s].count, Cardinality(M))
        /\ M = {} => se2[s].count = se[s].count
    BY <1>2, <1>5 DEF MarkStartedSessions, MarkStartedSession, SessionRow
  <2>4. /\ Tally(tk2, J) = Started(Tally(tk, J), Cardinality(M))
        /\ CountRows(tk2, J) = CountRows(tk, J)
    BY <2>1, <2>2, StartedTally
  <2>5. /\ se[s].jobs = Cardinality(J)
        /\ se[s].total = CountRows(tk, J)
        /\ se[s].count = Tally(tk, J)
    BY <1>2, <1>5 DEF SessionExact
  <2>6. M = {} => Tally(tk2, J) = Tally(tk, J)
    BY <2>2, SameTally
  <2> HIDE DEF M, J, se2
  <2>7. se2[s].count = Tally(tk2, J)
    BY <2>3, <2>4, <2>5, <2>6
  <2>8. JobRowsIn(jb2, s) = J
    BY <1>1 DEF J
  <2> QED
    BY <2>3, <2>4, <2>5, <2>7, <2>8
<1> QED
  BY <1>3, <1>4, <1>5 DEF JobExact, SessionExact
(* The completion path, for one task.                                      *)
LEMMA CompletedTally ==
    ASSUME NEW tk, NEW tk2, NEW J, NEW t \in Task,
           t \in InStatus(tk, J, "running"),
           \A u \in TasksOf(J) :
               tk2[u].status = IF u = t THEN "succeeded" ELSE tk[u].status
    PROVE  /\ Tally(tk2, J) = Completed(Tally(tk, J))
           /\ CountRows(tk2, J) = CountRows(tk, J)
<1> DEFINE R == InStatus(tk, J, "running")
           D == InStatus(tk, J, "succeeded")
           M == {t}
<1>1. /\ InStatus(tk2, J, "running") = R \ {t}
      /\ InStatus(tk2, J, "succeeded") = D \cup {t}
      /\ \A s \in {"queued", "failed", "cancelled"} : InStatus(tk2, J, s) = InStatus(tk, J, s)
  BY DEF InStatus, TasksOf
<1>2. R \cap D = {} /\ R \in SUBSET Task /\ D \in SUBSET Task
  BY DEF InStatus, TasksOf
<1>3. {u \in TasksOf(J) : tk2[u].status # Absent} = {u \in TasksOf(J) : tk[u].status # Absent}
  BY DEF InStatus, Absent
<1>4. M \in SUBSET Task /\ M \subseteq R /\ Cardinality(M) = 1
  BY FS_Singleton
<1>5. Tally(tk, J) = [queued |-> Cardinality(InStatus(tk, J, "queued")),
                      running |-> Cardinality(R),
                      succeeded |-> Cardinality(D),
                      failed |-> Cardinality(InStatus(tk, J, "failed")),
                      cancelled |-> Cardinality(InStatus(tk, J, "cancelled"))]
  BY DEF Tally
<1>6. Tally(tk2, J) = [queued |-> Cardinality(InStatus(tk, J, "queued")),
                       running |-> Cardinality(R \ M),
                       succeeded |-> Cardinality(D \cup M),
                       failed |-> Cardinality(InStatus(tk, J, "failed")),
                       cancelled |-> Cardinality(InStatus(tk, J, "cancelled"))]
  BY <1>1 DEF Tally
<1> HIDE DEF R, D, M
<1>7. /\ Cardinality(R \ M) = Minus(Cardinality(R), 1)
      /\ Cardinality(D \cup M) = Cardinality(D) + 1
  BY <1>2, <1>4, CardinalityMove
<1>8. Tally(tk2, J) = Completed(Tally(tk, J))
  BY <1>5, <1>6, <1>7 DEF Completed
<1> QED
  BY <1>3, <1>8 DEF CountRows

LEMMA CompletedExact ==
    ASSUME NEW tk, NEW tk2, NEW jb \in [Job -> JobRow], NEW se \in [Session -> SessionRow],
           NEW t \in Task,
           JobExact(tk, jb), SessionExact(tk, jb, se), Linked(tk, jb, se),
           tk[t].status = "running",
           \A u \in Task : tk2[u].status = IF u = t THEN "succeeded" ELSE tk[u].status
    PROVE  LET j0 == JobOf[t]
               jb2 == [jb EXCEPT ![j0] = MarkCompletedJob(@)]
               se2 == [se EXCEPT ![SessionOf[j0]] = MarkCompletedSession(@)]
           IN  JobExact(tk2, jb2) /\ SessionExact(tk2, jb2, se2) /\ Linked(tk2, jb2, se2)
<1> DEFINE j0 == JobOf[t]
           s0 == SessionOf[j0]
           jb2 == [jb EXCEPT ![j0] = MarkCompletedJob(@)]
           se2 == [se EXCEPT ![s0] = MarkCompletedSession(@)]
<1>0. j0 \in Job /\ s0 \in Session
  BY RowsAssumption
<1>1. /\ jb[j0].status # Absent /\ se[s0].status # Absent
      /\ jb[j0] \in JobRow /\ se[s0] \in SessionRow
  BY <1>0 DEF Linked, Absent
<1>2. /\ MarkCompletedJob(jb[j0]).status # Absent
      /\ MarkCompletedJob(jb[j0]).total = jb[j0].total
      /\ MarkCompletedJob(jb[j0]).count
            = [jb[j0].count EXCEPT !.succeeded = jb[j0].count.succeeded + 1]
  BY <1>1 DEF MarkCompletedJob, Absent
<1>3. /\ MarkCompletedSession(se[s0]).status # Absent
      /\ MarkCompletedSession(se[s0]).total = se[s0].total
      /\ MarkCompletedSession(se[s0]).jobs = se[s0].jobs
      /\ MarkCompletedSession(se[s0]).count = Completed(se[s0].count)
  <2>1. se[s0].total \in Nat /\ Completed(se[s0].count) \in FullTally
    BY <1>1, CompletedType DEF SessionRow
  <2>2. NextSessionStatus(se[s0].total, Completed(se[s0].count), FALSE) # Absent
    BY <2>1, LadderType
    DEF NextSessionStatus, JobStatus, TaskStatus, Live, Settled, Absent
  <2> QED
    BY <2>2 DEF MarkCompletedSession
<1>4. /\ \A j \in Job : jb2[j].status = Absent <=> jb[j].status = Absent
      /\ \A s \in Session : JobRowsIn(jb2, s) = JobRowsIn(jb, s)
  BY <1>0, <1>1, <1>2 DEF JobRowsIn
<1>5. \A s \in Session : se2[s].status = Absent <=> se[s].status = Absent
  BY <1>0, <1>1, <1>3
<1>6. Linked(tk2, jb2, se2)
  BY <1>4, <1>5, RowsAssumption DEF Linked, Absent
<1>7. ASSUME NEW j \in Job, jb2[j].status # Absent
      PROVE  jb2[j].total = CountRows(tk2, {j}) /\ jb2[j].count = Stored(Tally(tk2, {j}))
  <2>1. jb[j].total = CountRows(tk, {j}) /\ jb[j].count = Stored(Tally(tk, {j}))
    BY <1>4, <1>7 DEF JobExact
  <2>2. CASE j = j0
    <3>1. t \in InStatus(tk, {j}, "running")
      BY <2>2 DEF InStatus, TasksOf
    <3>2. \A u \in TasksOf({j}) : tk2[u].status = IF u = t THEN "succeeded" ELSE tk[u].status
      BY DEF TasksOf
    <3>3. /\ Tally(tk2, {j}) = Completed(Tally(tk, {j}))
          /\ CountRows(tk2, {j}) = CountRows(tk, {j})
      BY <3>1, <3>2, CompletedTally
    <3>4. jb2[j].total = jb[j].total
          /\ jb2[j].count = [jb[j].count EXCEPT !.succeeded = jb[j].count.succeeded + 1]
      BY <1>0, <1>2, <2>2
    <3>5. Stored(Completed(Tally(tk, {j})))
             = [Stored(Tally(tk, {j})) EXCEPT !.succeeded = Stored(Tally(tk, {j})).succeeded + 1]
      BY DEF Stored, Completed
    <3> QED
      BY <2>1, <3>3, <3>4, <3>5
  <2>3. CASE j # j0
    <3>1. jb2[j] = jb[j]
      BY <2>3
    <3>2. \A u \in TasksOf({j}) : tk2[u].status = tk[u].status
      BY <2>3 DEF TasksOf
    <3>3. Tally(tk2, {j}) = Tally(tk, {j}) /\ CountRows(tk2, {j}) = CountRows(tk, {j})
      BY <3>2, SameTally
    <3> QED
      BY <2>1, <3>1, <3>3
  <2> QED
    BY <2>2, <2>3
<1>8. ASSUME NEW s \in Session, se2[s].status # Absent
      PROVE  /\ se2[s].jobs = Cardinality(JobRowsIn(jb2, s))
             /\ se2[s].total = CountRows(tk2, JobRowsIn(jb2, s))
             /\ se2[s].count = Tally(tk2, JobRowsIn(jb2, s))
  <2> DEFINE J == JobRowsIn(jb, s)
  <2>1. JobRowsIn(jb2, s) = J
    BY <1>4
  <2>2. /\ se[s].jobs = Cardinality(J)
        /\ se[s].total = CountRows(tk, J)
        /\ se[s].count = Tally(tk, J)
    BY <1>5, <1>8 DEF SessionExact
  <2>3. CASE s = s0
    <3>1. t \in InStatus(tk, J, "running")
      BY <1>0, <1>1, <2>3 DEF InStatus, TasksOf, JobRowsIn
    <3>2. \A u \in TasksOf(J) : tk2[u].status = IF u = t THEN "succeeded" ELSE tk[u].status
      BY DEF TasksOf
    <3> HIDE DEF J
    <3>3. Tally(tk2, J) = Completed(Tally(tk, J)) /\ CountRows(tk2, J) = CountRows(tk, J)
      BY <3>1, <3>2, CompletedTally
    <3>4. /\ se2[s].jobs = se[s].jobs /\ se2[s].total = se[s].total
          /\ se2[s].count = Completed(se[s].count)
      BY <1>0, <1>3, <2>3
    <3> QED
      BY <2>1, <2>2, <3>3, <3>4
  <2>4. CASE s # s0
    <3>1. se2[s] = se[s]
      BY <2>4
    <3>2. \A u \in TasksOf(J) : tk2[u].status = tk[u].status
      BY <2>4 DEF TasksOf, JobRowsIn
    <3>3. Tally(tk2, J) = Tally(tk, J) /\ CountRows(tk2, J) = CountRows(tk, J)
      BY <3>2, SameTally
    <3> HIDE DEF J
    <3> QED
      BY <2>1, <2>2, <3>1, <3>3
  <2> QED
    BY <2>3, <2>4
<1> HIDE DEF jb2, se2
<1>9. JobExact(tk2, jb2) /\ SessionExact(tk2, jb2, se2)
  BY <1>7, <1>8 DEF JobExact, SessionExact
<1> QED
  BY <1>6, <1>9 DEF jb2, se2
=============================================================================
