------------------------- MODULE ResultStreamProofs -------------------------
(***************************************************************************)
(* What a stream sends, it sends once, and what it misses was committed    *)
(* behind its cursor: for any number of tasks, page sizes, clocks and      *)
(* retries.  The argument is about the order of the keys of settled rows:  *)
(* a page is an initial part of what lies after the cursor, and ends at    *)
(* its greatest key.                                                       *)
(***************************************************************************)
EXTENDS ResultStream, FiniteSetTheorems, WellFoundedInduction, TLAPS

KeySet == [at : Nat, id : Nat]

StreamSet == [phase : {"closed", "poll", "read", "done"}, limit : Nat \ {0},
              cursor : KeySet, over : BOOLEAN]

Typed ==
    /\ clock \in Nat \ {0}
    /\ row \in [Task -> [settled : BOOLEAN, at : Nat \ {0}, turn : Nat]]
    /\ stamp \in [Task -> Nat \ {0}]
    /\ over \in BOOLEAN
    /\ stream \in StreamSet

(* The turns in sent are past or present, and the cursor has passed those  *)
(* that are present.                                                       *)
SentIsBehind ==
    /\ \A t \in Task, n \in Nat : <<t, n>> \in sent => n <= row[t].turn
    /\ \A t \in Settled : Turn(t) \in sent => ~After(Key(t), stream.cursor)

(* A settled row is before the open stream, or accounted for.              *)
Covered ==
    stream.phase # "closed" =>
        \A t \in Settled : Turn(t) \in sent \cup late \cup old \/ After(Key(t), stream.cursor)

Inv == Typed /\ SentIsBehind /\ Covered /\ SentOnce

-----------------------------------------------------------------------------
(* The order of keys.                                                      *)

LEMMA KeysAreOrdered ==
    /\ \A x, y, z \in KeySet : After(x, y) /\ After(y, z) => After(x, z)
    /\ \A x \in KeySet : ~After(x, x)
    /\ \A x, y \in KeySet : x.id # y.id => After(x, y) \/ After(y, x)
<1>1. \A x, y, z \in KeySet : After(x, y) /\ After(y, z) => After(x, z)
  BY DEF After, KeySet
<1>2. \A x \in KeySet : ~After(x, x)
  BY DEF After, KeySet
<1>3. ASSUME NEW x \in KeySet, NEW y \in KeySet, x.id # y.id
      PROVE  After(x, y) \/ After(y, x)
  <2>1. x.at \in Nat /\ y.at \in Nat /\ x.id \in Nat /\ y.id \in Nat
    BY DEF KeySet
  <2>2. x.id > y.id \/ y.id > x.id
    BY <1>3, <2>1
  <2>3. x.at > y.at \/ y.at > x.at \/ x.at = y.at
    BY <2>1
  <2> QED
    BY <2>2, <2>3 DEF After
<1> QED
  BY <1>1, <1>2, <1>3

LEMMA TasksHaveKeys ==
    ASSUME Typed
    PROVE  /\ \A t \in Task : Key(t) \in KeySet /\ Key(t).id = t /\ After(Key(t), Start)
           /\ Start \in KeySet
<1>1. ASSUME NEW t \in Task PROVE Key(t) \in KeySet /\ Key(t).id = t /\ After(Key(t), Start)
  <2>1. t \in Nat /\ row[t].at \in Nat \ {0}
    BY StreamAssumption DEF Typed
  <2>2. row[t].at > 0
    BY <2>1
  <2> QED
    BY <2>1, <2>2 DEF Key, KeySet, After, Start
<1> QED
  BY <1>1 DEF Start, KeySet

Later(t, u) == After(Key(t), Key(u))
LEMMA TasksAreOrdered ==
    ASSUME Typed
    PROVE  /\ \A t, u, v \in Task : Later(t, u) /\ Later(u, v) => Later(t, v)
           /\ \A t \in Task : ~Later(t, t)
           /\ \A t, u \in Task : t # u => Later(t, u) \/ Later(u, t)
<1>1. ASSUME NEW t \in Task, NEW u \in Task, t # u PROVE Later(t, u) \/ Later(u, t)
  <2>1. Key(t) \in KeySet /\ Key(u) \in KeySet /\ Key(t).id # Key(u).id
    BY <1>1, TasksHaveKeys
  <2> QED
    BY <2>1, KeysAreOrdered DEF Later
<1>2. \A t \in Task : Key(t) \in KeySet
  BY TasksHaveKeys
<1>3. \A t, u, v \in Task : Later(t, u) /\ Later(u, v) => Later(t, v)
  BY <1>2, KeysAreOrdered DEF Later
<1>4. \A t \in Task : ~Later(t, t)
  BY <1>2, KeysAreOrdered DEF Later
<1> QED
  BY <1>1, <1>3, <1>4

(* Of the subsets of a finite set that are in T one is minimal.            *)
LEMMA SmallestSubset ==
    ASSUME NEW S, IsFiniteSet(S), NEW T \in SUBSET (SUBSET S), T # {}
    PROVE  \E x \in T : \A y \in T : y \subseteq x => y = x
<1>1. FiniteSubsetsOf(S) = SUBSET S
  BY FS_FiniteSubsetsOfFinite
<1>2. IsWellFoundedOn(StrictSubsetOrdering(S), SUBSET S)
  BY <1>1, FS_StrictSubsetOrderingWellFounded
<1>3. \E x \in T : \A y \in T : ~(<<y, x>> \in StrictSubsetOrdering(S))
  BY <1>2, WFMin
<1>4. PICK x \in T : \A y \in T : ~(<<y, x>> \in StrictSubsetOrdering(S))
  BY <1>3
<1>5. ASSUME NEW y \in T, y \subseteq x, y # x PROVE FALSE
  <2>1. <<y, x>> \in (SUBSET S) \X (SUBSET S)
    OBVIOUS
  <2>2. <<y, x>> \in StrictSubsetOrdering(S)
    BY <1>5, <2>1 DEF StrictSubsetOrdering
  <2> QED
    BY <1>4, <2>2
<1> QED
  BY <1>5

(* The first of a set of tasks, and the last of one.                       *)
LEMMA FirstExists ==
    ASSUME Typed, NEW T \in SUBSET Task, T # {}
    PROVE  \E t \in T : \A u \in T : u = t \/ Later(u, t)
<1> DEFINE below(t) == {u \in T : Later(t, u)}
           sets == {below(t) : t \in T}
<1>1. IsFiniteSet(T)
  BY StreamAssumption, FS_Subset
<1>2. sets \in SUBSET (SUBSET T) /\ sets # {}
  OBVIOUS
<1> HIDE DEF sets
<1>3. \E x \in sets : \A y \in sets : y \subseteq x => y = x
  BY <1>1, <1>2, SmallestSubset
<1>4. PICK t \in T : \A y \in sets : y \subseteq below(t) => y = below(t)
  BY <1>3 DEF sets
<1>5. ASSUME NEW u \in T, u # t, ~Later(u, t) PROVE FALSE
  <2>1. Later(t, u)
    BY <1>5, TasksAreOrdered
  <2>2. below(u) \subseteq below(t) /\ u \in below(t) /\ u \notin below(u)
    BY <2>1, TasksAreOrdered
  <2>3. below(u) \in sets
    BY DEF sets
  <2> QED
    BY <1>4, <2>2, <2>3
<1> QED
  BY <1>5

LEMMA LastExists ==
    ASSUME Typed, NEW T \in SUBSET Task, T # {}
    PROVE  \E t \in T : \A u \in T : u = t \/ Later(t, u)
<1> DEFINE above(t) == {u \in T : Later(u, t)}
           sets == {above(t) : t \in T}
<1>1. IsFiniteSet(T)
  BY StreamAssumption, FS_Subset
<1>2. sets \in SUBSET (SUBSET T) /\ sets # {}
  OBVIOUS
<1> HIDE DEF sets
<1>3. \E x \in sets : \A y \in sets : y \subseteq x => y = x
  BY <1>1, <1>2, SmallestSubset
<1>4. PICK t \in T : \A y \in sets : y \subseteq above(t) => y = above(t)
  BY <1>3 DEF sets
<1>5. ASSUME NEW u \in T, u # t, ~Later(t, u) PROVE FALSE
  <2>1. Later(u, t)
    BY <1>5, TasksAreOrdered
  <2>2. above(u) \subseteq above(t) /\ u \in above(t) /\ u \notin above(u)
    BY <2>1, TasksAreOrdered
  <2>3. above(u) \in sets
    BY DEF sets
  <2> QED
    BY <1>4, <2>2, <2>3
<1> QED
  BY <1>5

-----------------------------------------------------------------------------
(* A page is an initial part of what is after the cursor.                  *)

new == {t \in Settled : After(Key(t), stream.cursor)}

LEMMA PageIsInitial ==
    ASSUME Typed, NEW t \in new \ Page, NEW u \in Page
    PROVE  Later(t, u)
<1> DEFINE below(v) == {w \in new : After(Key(v), Key(w))}
<1>1. Page = {v \in new : Cardinality(below(v)) < stream.limit}
  BY DEF Page, new
<1>2. t \in Task /\ u \in Task /\ new \subseteq Task /\ t # u
  BY <1>1 DEF new, Settled
<1>3. SUFFICES ASSUME ~Later(t, u) PROVE FALSE
  OBVIOUS
<1>4. Later(u, t)
  BY <1>2, <1>3, TasksAreOrdered
<1>5. below(t) \subseteq below(u)
  BY <1>2, <1>4, TasksAreOrdered DEF Later
<1>6. IsFiniteSet(new)
  BY <1>2, StreamAssumption, FS_Subset
<1> HIDE DEF below
<1>7. below(u) \subseteq new /\ IsFiniteSet(below(u))
  <2>1. below(u) \subseteq new
    BY DEF below
  <2> QED
    BY <1>6, <2>1, FS_Subset
<1>8. IsFiniteSet(below(t)) /\ Cardinality(below(t)) <= Cardinality(below(u))
  BY <1>5, <1>7, FS_Subset
<1>9. Cardinality(below(t)) \in Nat /\ Cardinality(below(u)) \in Nat
  BY <1>7, <1>8, FS_CardinalityType
<1>10. Cardinality(below(u)) < stream.limit /\ ~(Cardinality(below(t)) < stream.limit)
  BY <1>1
<1> QED
  BY <1>8, <1>9, <1>10 DEF Typed, StreamSet

(* A page that is not full holds everything after the cursor.              *)
LEMMA ShortPageIsAll ==
    ASSUME Typed, Cardinality(Page) < stream.limit
    PROVE  new \subseteq Page
<1>1. SUFFICES ASSUME new \ Page # {} PROVE FALSE
  OBVIOUS
<1>2. new \subseteq Task /\ Page \subseteq new /\ new \ Page \subseteq Task
  BY DEF new, Page, Settled
<1>3. PICK t \in new \ Page : \A u \in new \ Page : u = t \/ Later(u, t)
  BY <1>1, <1>2, FirstExists
<1> DEFINE below == {w \in new : After(Key(t), Key(w))}
<1>4. ~(Cardinality(below) < stream.limit)
  BY <1>3 DEF Page, new
<1>5. below \subseteq Page
  <2>1. SUFFICES ASSUME NEW w \in new \ Page, Later(t, w) PROVE FALSE
    BY DEF Later
  <2>2. w \in Task /\ t \in Task
    BY <1>2, <1>3
  <2>3. w = t \/ Later(w, t)
    BY <1>3
  <2> QED
    BY <2>1, <2>2, <2>3, TasksAreOrdered
<1> HIDE DEF below
<1>6. IsFiniteSet(Page)
  BY <1>2, StreamAssumption, FS_Subset
<1>7. IsFiniteSet(below) /\ Cardinality(below) <= Cardinality(Page)
  BY <1>5, <1>6, FS_Subset
<1>8. Cardinality(below) \in Nat /\ Cardinality(Page) \in Nat
  BY <1>6, <1>7, FS_CardinalityType
<1> QED
  BY <1>4, <1>7, <1>8 DEF Typed, StreamSet

(* The cursor moves to the last of the page and never back.                *)
LEMMA CursorMovesOn ==
    ASSUME Typed
    PROVE  /\ NextCursor(Page) \in KeySet
           /\ \A t \in Page : ~After(Key(t), NextCursor(Page))
           /\ \A t \in Settled : After(Key(t), NextCursor(Page)) => After(Key(t), stream.cursor)
           /\ \A t \in new \ Page : After(Key(t), NextCursor(Page))
<1>1. Page \subseteq new /\ new \subseteq Task /\ Page \subseteq Task
  BY DEF new, Page, Settled
<1>2. stream.cursor \in KeySet
  BY DEF Typed, StreamSet
<1>3. CASE Page = {}
  BY <1>1, <1>2, <1>3 DEF NextCursor, new
<1>4. CASE Page # {}
  <2> DEFINE IsLast(t) == \A u \in Page : u = t \/ After(Key(t), Key(u))
             last == CHOOSE t \in Page : IsLast(t)
  <2>1. \E t \in Page : IsLast(t)
    BY <1>1, <1>4, LastExists DEF Later
  <2>2. last \in Page /\ IsLast(last)
    BY <2>1
  <2>3. NextCursor(Page) = Key(last)
    BY <1>4 DEF NextCursor
  <2> HIDE DEF last
  <2>4. Key(last) \in KeySet /\ After(Key(last), stream.cursor) /\ last \in Task
    BY <1>1, <2>2, TasksHaveKeys DEF new
  <2>5. ASSUME NEW t \in Page PROVE ~After(Key(t), Key(last))
    BY <1>1, <2>2, <2>4, <2>5, TasksAreOrdered DEF Later
  <2>6. ASSUME NEW t \in Settled, After(Key(t), Key(last)) PROVE After(Key(t), stream.cursor)
    <3>1. Key(t) \in KeySet
      BY TasksHaveKeys DEF Settled
    <3> QED
      BY <1>2, <2>4, <2>6, <3>1, KeysAreOrdered
  <2>7. ASSUME NEW t \in new \ Page PROVE After(Key(t), Key(last))
    BY <2>2, PageIsInitial DEF Later
  <2> QED
    BY <2>3, <2>4, <2>5, <2>6, <2>7
<1> QED
  BY <1>3, <1>4

-----------------------------------------------------------------------------
(* The invariant.                                                          *)

LEMMA InitInv == Init => Inv
<1> SUFFICES ASSUME Init PROVE Inv
  OBVIOUS
<1>1. Typed
  <2>1. /\ clock = 1 /\ over = FALSE
        /\ row = [t \in Task |-> [settled |-> FALSE, at |-> 1, turn |-> 0]]
        /\ stamp = [t \in Task |-> NoStamp]
        /\ stream = [phase |-> "closed", limit |-> 1, cursor |-> Start, over |-> FALSE]
    BY DEF Init
  <2>2. NoStamp \in Nat \ {0}
    BY StreamAssumption DEF NoStamp
  <2>3. row \in [Task -> [settled : BOOLEAN, at : Nat \ {0}, turn : Nat]]
    BY <2>1
  <2>4. Start \in KeySet
    BY DEF Start, KeySet
  <2>5. stream \in StreamSet
    <3>1. ASSUME NEW c \in KeySet
          PROVE  [phase |-> "closed", limit |-> 1, cursor |-> c, over |-> FALSE] \in StreamSet
      BY DEF StreamSet
    <3> QED
      BY <2>1, <2>4, <3>1
  <2>6. clock \in Nat \ {0} /\ over \in BOOLEAN
    <3>1. clock \in Nat \ {0}
      BY <2>1
    <3>2. over \in BOOLEAN
      BY <2>1, Zenon
    <3> QED
      BY <3>1, <3>2
  <2>7. stamp \in [Task -> Nat \ {0}]
    BY <2>1, <2>2
  <2> QED
    BY <2>3, <2>5, <2>6, <2>7 DEF Typed
<1>2. SentIsBehind /\ Covered /\ SentOnce
  BY DEF Init, SentIsBehind, Covered, SentOnce, Settled
<1> QED
  BY <1>1, <1>2 DEF Inv

(* Actions that change neither the settled rows nor the stream.            *)
LEMMA RowsStand ==
    ASSUME Inv, UNCHANGED <<row, stream, history>>
    PROVE  SentIsBehind' /\ Covered' /\ SentOnce'
<1>1. Settled' = Settled /\ (\A t : Turn(t)' = Turn(t)) /\ (\A t : Key(t)' = Key(t))
  BY DEF Settled, Turn, Key
<1>2. SentIsBehind'
  BY <1>1 DEF Inv, SentIsBehind, history
<1>3. Covered'
  BY <1>1 DEF Inv, Covered, history
<1> QED
  BY <1>2, <1>3 DEF Inv, SentOnce, history

LEMMA TickInv == Inv /\ Tick => Inv'
<1> SUFFICES ASSUME Inv, Tick PROVE Inv'
  OBVIOUS
<1>1. Typed'
  BY DEF Inv, Typed, Tick
<1>2. UNCHANGED <<row, stream, history>>
  BY DEF Tick
<1> QED
  BY <1>1, <1>2, RowsStand DEF Inv

LEMMA RecountInv == Inv /\ Recount => Inv'
<1> SUFFICES ASSUME Inv, Recount PROVE Inv'
  OBVIOUS
<1>1. Typed'
  BY DEF Inv, Typed, Recount
<1>2. UNCHANGED <<row, stream, history>>
  BY DEF Recount
<1> QED
  BY <1>1, <1>2, RowsStand DEF Inv

LEMMA TakeStampInv == ASSUME NEW t \in Task PROVE Inv /\ TakeStamp(t) => Inv'
<1> SUFFICES ASSUME Inv, TakeStamp(t) PROVE Inv'
  OBVIOUS
<1>1. Typed'
  BY DEF Inv, Typed, TakeStamp
<1>2. UNCHANGED <<row, stream, history>>
  BY DEF TakeStamp
<1> QED
  BY <1>1, <1>2, RowsStand DEF Inv

(* A task settles with a turn not sent before, before or after the cursor. *)
LEMMA CommitInv == ASSUME NEW t \in Task PROVE Inv /\ Commit(t) => Inv'
<1> SUFFICES ASSUME Inv, Commit(t) PROVE Inv'
  OBVIOUS
<1>1. stamp[t] \in Nat \ {0} /\ stamp' = [stamp EXCEPT ![t] = NoStamp] /\ NoStamp \in Nat \ {0}
  BY StreamAssumption DEF Inv, Typed, Commit, NoStamp
<1>2. clock' = clock /\ stream' = stream /\ sent' = sent /\ again' = again /\ old' = old
  BY DEF Commit
<1>T. over' \in BOOLEAN /\ stamp' \in [Task -> Nat \ {0}]
  <2>1. over' = TRUE \/ over' = over
    BY DEF Commit
  <2>2. stamp' \in [Task -> Nat \ {0}]
    BY <1>1 DEF Inv, Typed
  <2> QED
    BY <2>1, <2>2 DEF Inv, Typed
<1>3. CASE row' = row /\ late' = late
  <2>1. Typed'
    BY <1>2, <1>3, <1>T DEF Inv, Typed
  <2>2. UNCHANGED <<row, stream, history>>
    BY <1>2, <1>3 DEF history
  <2> QED
    BY <2>1, <2>2, RowsStand DEF Inv
<1>4. CASE /\ row' = [row EXCEPT ![t] = [settled |-> TRUE, at |-> stamp[t], turn |-> @.turn + 1]]
           /\ late' = IF stream.phase = "closed" \/ After([at |-> stamp[t], id |-> t], stream.cursor)
                      THEN late ELSE late \cup {<<t, row[t].turn + 1>>}
  <2>0. row \in [Task -> [settled : BOOLEAN, at : Nat \ {0}, turn : Nat]]
    BY DEF Inv, Typed
  <2>1. Typed'
    <3>1. row' \in [Task -> [settled : BOOLEAN, at : Nat \ {0}, turn : Nat]]
      BY <1>1, <1>4, <2>0
    <3> QED
      BY <1>2, <1>T, <3>1 DEF Inv, Typed
  <2>2. /\ row'[t] = [settled |-> TRUE, at |-> stamp[t], turn |-> row[t].turn + 1]
        /\ \A u \in Task : u # t => row'[u] = row[u]
        /\ row[t].turn \in Nat
    BY <1>4, <2>0
  <2>3. /\ Turn(t)' = <<t, row[t].turn + 1>>
        /\ Key(t)' = [at |-> stamp[t], id |-> t]
    BY <2>2 DEF Turn, Key
  <2>4. <<t, row[t].turn + 1>> \notin sent
    <3>1. ~(row[t].turn + 1 <= row[t].turn) /\ row[t].turn + 1 \in Nat
      BY <2>2
    <3> QED
      BY <3>1 DEF Inv, SentIsBehind
  <2>5. SentIsBehind'
    <3>1. ASSUME NEW u \in Task, NEW n \in Nat, <<u, n>> \in sent PROVE n <= row'[u].turn
      <4>1. n <= row[u].turn
        BY <3>1 DEF Inv, SentIsBehind
      <4> QED
        BY <4>1, <2>2
    <3>2. ASSUME NEW u \in Settled', Turn(u)' \in sent' PROVE ~After(Key(u), stream.cursor)'
      <4>1. u \in Task /\ u # t
        BY <1>2, <2>3, <2>4, <3>2 DEF Settled
      <4>2. u \in Settled /\ Turn(u)' = Turn(u) /\ Key(u)' = Key(u)
        BY <2>2, <4>1 DEF Settled, Turn, Key
      <4>3. ~After(Key(u), stream.cursor)
        BY <1>2, <3>2, <4>2 DEF Inv, SentIsBehind
      <4> QED
        BY <1>2, <4>2, <4>3 DEF After
    <3> QED
      BY <1>2, <3>1, <3>2 DEF SentIsBehind
  <2>6. Covered'
    <3>1. SUFFICES ASSUME stream.phase # "closed", NEW u \in Settled'
                   PROVE  Turn(u)' \in (sent \cup late \cup old)' \/ After(Key(u), stream.cursor)'
      BY <1>2 DEF Covered
    <3>2. CASE u = t
      BY <1>2, <1>4, <2>3, <3>1, <3>2 DEF After
    <3>3. CASE u # t
      <4>1. u \in Settled /\ Turn(u)' = Turn(u) /\ Key(u)' = Key(u)
        BY <2>2, <3>3 DEF Settled, Turn, Key
      <4>2. Turn(u) \in sent \cup late \cup old \/ After(Key(u), stream.cursor)
        BY <3>1, <4>1 DEF Inv, Covered
      <4>3. late \subseteq late'
        BY <1>4
      <4> QED
        BY <1>2, <4>1, <4>2, <4>3 DEF After
    <3> QED
      BY <3>2, <3>3
  <2> QED
    BY <1>2, <2>1, <2>5, <2>6 DEF Inv, SentOnce
<1> QED
  BY <1>3, <1>4 DEF Commit

LEMMA RetryInv == ASSUME NEW t \in Task PROVE Inv /\ Retry(t) => Inv'
<1> SUFFICES ASSUME Inv, Retry(t) PROVE Inv'
  OBVIOUS
<1>0. row \in [Task -> [settled : BOOLEAN, at : Nat \ {0}, turn : Nat]]
  BY DEF Inv, Typed
<1>1. stream' = stream /\ stamp' = stamp /\ clock' = clock /\ history' = history
  BY DEF Retry
<1>2. row' \in [Task -> [settled : BOOLEAN, at : Nat \ {0}, turn : Nat]]
  BY <1>0 DEF Retry
<1>3. \A u \in Task : row'[u].at = row[u].at /\ row'[u].turn = row[u].turn
                     /\ (row'[u].settled => row[u].settled)
  BY <1>0 DEF Retry
<1>4. ASSUME NEW u \in Settled'
      PROVE  u \in Settled /\ Turn(u)' = Turn(u) /\ Key(u)' = Key(u)
  BY <1>3 DEF Settled, Turn, Key
<1>5. Typed'
  <2>1. over' \in BOOLEAN
    BY DEF Retry
  <2> QED
    BY <1>1, <1>2, <2>1 DEF Inv, Typed
<1>6. SentIsBehind'
  <2>1. ASSUME NEW u \in Task, NEW n \in Nat, <<u, n>> \in sent' PROVE n <= row'[u].turn
    BY <1>1, <1>3, <2>1 DEF Inv, SentIsBehind, history
  <2>2. ASSUME NEW u \in Settled', Turn(u)' \in sent' PROVE ~After(Key(u), stream.cursor)'
    <3>1. u \in Settled /\ Turn(u)' = Turn(u) /\ Key(u)' = Key(u)
      BY <1>4
    <3>2. ~After(Key(u), stream.cursor)
      BY <1>1, <2>2, <3>1 DEF Inv, SentIsBehind, history
    <3> QED
      BY <1>1, <3>1, <3>2 DEF After
  <2> QED
    BY <2>1, <2>2 DEF SentIsBehind
<1>7. Covered'
  <2>1. SUFFICES ASSUME stream.phase # "closed", NEW u \in Settled'
                 PROVE  Turn(u)' \in (sent \cup late \cup old)' \/ After(Key(u), stream.cursor)'
    BY <1>1 DEF Covered
  <2>2. u \in Settled /\ Turn(u)' = Turn(u) /\ Key(u)' = Key(u)
    BY <1>4
  <2>3. Turn(u) \in sent \cup late \cup old \/ After(Key(u), stream.cursor)
    BY <2>1, <2>2 DEF Inv, Covered
  <2> QED
    BY <1>1, <2>2, <2>3 DEF After, history
<1> QED
  BY <1>1, <1>5, <1>6, <1>7 DEF Inv, SentOnce, history

LEMMA LatestIsKey == ASSUME Typed PROVE Latest \in KeySet
<1>1. CASE Settled = {}
  BY <1>1, TasksHaveKeys DEF Latest
<1>2. CASE Settled # {}
  <2> DEFINE IsLast(t) == \A u \in Settled : u = t \/ After(Key(t), Key(u))
             last == CHOOSE t \in Settled : IsLast(t)
  <2>1. Settled \in SUBSET Task
    BY DEF Settled
  <2>2. \E t \in Settled : IsLast(t)
    BY <1>2, <2>1, LastExists DEF Later
  <2>3. last \in Settled
    BY <2>2
  <2>4. Latest = Key(last)
    BY <1>2 DEF Latest
  <2> HIDE DEF last
  <2> QED
    BY <2>1, <2>3, <2>4, TasksHaveKeys
<1> QED
  BY <1>1, <1>2

LEMMA OpenInv == ASSUME NEW limit \in Limits, NEW replay \in BOOLEAN
                 PROVE  Inv /\ Open(limit, replay) => Inv'
<1> SUFFICES ASSUME Inv, Open(limit, replay) PROVE Inv'
  OBVIOUS
<1>1. clock' = clock /\ row' = row /\ stamp' = stamp /\ over' = over
  BY DEF Open, rows
<1>2. Settled' = Settled /\ (\A t : Turn(t)' = Turn(t)) /\ (\A t : Key(t)' = Key(t))
  BY <1>1 DEF Settled, Turn, Key
<1>3. /\ stream'.cursor = IF replay THEN Start ELSE Latest
      /\ stream'.limit = limit
      /\ sent' = {} /\ again' = {} /\ late' = {}
      /\ old' = IF replay THEN {} ELSE {Turn(t) : t \in Settled}
  BY DEF Open
<1>4. Typed'
  <2>1. stream'.cursor \in KeySet
    BY <1>3, LatestIsKey, TasksHaveKeys DEF Inv
  <2>2. limit \in Nat \ {0}
    BY StreamAssumption
  <2>3. stream' \in StreamSet
    BY <1>3, <2>1, <2>2 DEF Open, StreamSet
  <2> QED
    BY <1>1, <2>3 DEF Inv, Typed
<1>5. SentIsBehind'
  BY <1>3 DEF SentIsBehind
<1>6. Covered'
  <2>1. SUFFICES ASSUME NEW t \in Settled
                 PROVE  Turn(t) \in old' \/ After(Key(t), stream'.cursor)
    BY <1>2 DEF Covered, After
  <2>2. CASE replay
    BY <1>3, <2>2, TasksHaveKeys DEF Inv, Settled
  <2>3. CASE ~replay
    BY <1>3, <2>3
  <2> QED
    BY <2>2, <2>3
<1> QED
  BY <1>3, <1>4, <1>5, <1>6 DEF Inv, SentOnce

LEMMA ReadJobInv == Inv /\ ReadJob => Inv'
<1> SUFFICES ASSUME Inv, ReadJob PROVE Inv'
  OBVIOUS
<1>1. /\ rows' = rows /\ history' = history
      /\ stream'.cursor = stream.cursor /\ stream.phase # "closed"
  BY DEF ReadJob
<1>2. Settled' = Settled /\ (\A t : Turn(t)' = Turn(t)) /\ (\A t : Key(t)' = Key(t))
  BY <1>1 DEF Settled, Turn, Key, rows
<1>3. Typed'
  <2>1. stream' \in StreamSet
    BY DEF Inv, Typed, ReadJob, StreamSet
  <2> QED
    BY <1>1, <2>1 DEF Inv, Typed, rows
<1>4. SentIsBehind'
  BY <1>1, <1>2 DEF Inv, SentIsBehind, After, rows, history
<1>5. Covered'
  BY <1>1, <1>2 DEF Inv, Covered, After, history
<1> QED
  BY <1>1, <1>3, <1>4, <1>5 DEF Inv, SentOnce, history

LEMMA CloseInv == Inv /\ Close => Inv'
<1> SUFFICES ASSUME Inv, Close PROVE Inv'
  OBVIOUS
<1>1. rows' = rows /\ history' = history
  BY DEF Close
<1>2. stream' \in StreamSet /\ stream'.cursor = stream.cursor
  BY DEF Inv, Typed, Close, StreamSet
<1>3. Settled' = Settled /\ (\A t : Turn(t)' = Turn(t)) /\ (\A t : Key(t)' = Key(t))
  BY <1>1 DEF Settled, Turn, Key, rows
<1>4. Typed'
  BY <1>1, <1>2 DEF Inv, Typed, rows
<1>5. SentIsBehind'
  BY <1>1, <1>2, <1>3 DEF Inv, SentIsBehind, After, rows, history
<1>6. Covered'
  BY <1>1, <1>2, <1>3 DEF Inv, Covered, Close, After, history
<1> QED
  BY <1>1, <1>4, <1>5, <1>6 DEF Inv, SentOnce, history

(* A page is new, its turns are now sent, and the cursor is at its end.    *)
LEMMA ReadTasksInv == Inv /\ ReadTasks => Inv'
<1> SUFFICES ASSUME Inv, ReadTasks PROVE Inv'
  OBVIOUS
<1> DEFINE sending == {Turn(t) : t \in Page}
           next == NextCursor(Page)
<1>0. Typed
  BY DEF Inv
<1>1. /\ rows' = rows /\ late' = late /\ old' = old /\ stream.phase # "closed"
      /\ stream'.cursor = next
      /\ sent' = sent \cup sending
      /\ again' = again \cup (sent \cap sending)
  BY DEF ReadTasks
<1>2. Settled' = Settled /\ (\A t : Turn(t)' = Turn(t)) /\ (\A t : Key(t)' = Key(t))
  BY <1>1 DEF Settled, Turn, Key, rows
<1>3. /\ next \in KeySet
      /\ \A t \in Page : ~After(Key(t), next)
      /\ \A t \in Settled : After(Key(t), next) => After(Key(t), stream.cursor)
      /\ \A t \in new \ Page : After(Key(t), next)
  BY <1>0, CursorMovesOn
<1>4. Page \subseteq new /\ new \subseteq Settled /\ Settled \subseteq Task
  BY DEF Page, new, Settled
<1>5. \A t \in Page : Turn(t) \notin sent
  BY <1>4 DEF Inv, SentIsBehind, new
<1>6. Typed'
  <2>1. stream.limit \in Nat \ {0} /\ stream.over \in BOOLEAN
    BY <1>0 DEF Typed, StreamSet
  <2>2. \E phase \in {"done", "poll"} :
          stream' = [phase |-> phase, limit |-> stream.limit, cursor |-> next, over |-> stream.over]
    BY DEF ReadTasks
  <2> HIDE DEF next
  <2>3. stream' \in StreamSet
    BY <1>3, <2>1, <2>2 DEF StreamSet
  <2> QED
    BY <1>0, <1>1, <2>3 DEF Typed, rows
<1>7. SentIsBehind'
  <2>1. ASSUME NEW t \in Task, NEW n \in Nat, <<t, n>> \in sent' PROVE n <= row[t].turn
    <3>1. CASE <<t, n>> \in sent
      BY <3>1 DEF Inv, SentIsBehind
    <3>2. CASE <<t, n>> \in sending
      <4>1. n = row[t].turn
        BY <3>2 DEF Turn
      <4> QED
        BY <4>1
    <3> QED
      BY <1>1, <2>1, <3>1, <3>2
  <2>2. ASSUME NEW t \in Settled, Turn(t) \in sent' PROVE ~After(Key(t), next)
    <3>1. CASE Turn(t) \in sent
      BY <1>3, <3>1 DEF Inv, SentIsBehind
    <3>2. CASE Turn(t) \in sending
      <4>1. t \in Page
        BY <3>2 DEF Turn
      <4> QED
        BY <1>3, <4>1
    <3> QED
      BY <1>1, <2>2, <3>1, <3>2
  <2> HIDE DEF next, sending
  <2>3. \A t \in Settled' : Turn(t)' \in sent' => ~After(Key(t), stream.cursor)'
    BY <1>1, <1>2, <2>2 DEF After
  <2> QED
    BY <1>1, <2>1, <2>3 DEF SentIsBehind, rows
<1>8. Covered'
  <2>1. ASSUME NEW t \in Settled
        PROVE  Turn(t) \in sent' \cup late \cup old \/ After(Key(t), next)
    <3>1. CASE t \in Page
      BY <1>1, <3>1
    <3>2. CASE t \in new \ Page
      BY <1>3, <3>2
    <3>3. CASE t \notin new
      BY <1>1, <3>3 DEF Inv, Covered, new
    <3> QED
      BY <3>1, <3>2, <3>3
  <2> HIDE DEF next, sending
  <2> QED
    BY <1>1, <1>2, <2>1 DEF Covered, After
<1>9. SentOnce'
  <2>1. sent \cap sending = {}
    BY <1>5
  <2> QED
    BY <1>1, <2>1 DEF Inv, SentOnce
<1> QED
  BY <1>6, <1>7, <1>8, <1>9 DEF Inv

LEMMA StutterInv == Inv /\ UNCHANGED vars => Inv'
<1> SUFFICES ASSUME Inv, UNCHANGED vars PROVE Inv'
  OBVIOUS
<1>1. UNCHANGED <<row, stream, history>>
  BY DEF vars, rows
<1>2. Typed'
  BY DEF Inv, Typed, vars, rows
<1> QED
  BY <1>1, <1>2, RowsStand DEF Inv

LEMMA NextInv == Inv /\ [Next]_vars => Inv'
<1> SUFFICES ASSUME Inv, [Next]_vars PROVE Inv'
  OBVIOUS
<1>1. ASSUME NEW t \in Task, TakeStamp(t) \/ Commit(t) \/ Retry(t) PROVE Inv'
  BY <1>1, TakeStampInv, CommitInv, RetryInv
<1>2. ASSUME NEW limit \in Limits, NEW replay \in BOOLEAN, Open(limit, replay) PROVE Inv'
  BY <1>2, OpenInv
<1>3. CASE Tick \/ Recount \/ ReadJob \/ ReadTasks \/ Close
  BY <1>3, TickInv, RecountInv, ReadJobInv, ReadTasksInv, CloseInv
<1>4. CASE UNCHANGED vars
  BY <1>4, StutterInv
<1> QED
  BY <1>1, <1>2, <1>3, <1>4 DEF Next

LEMMA AlwaysInv == Spec => []Inv
<1>1. Init => Inv
  BY InitInv
<1>2. Inv /\ [Next]_vars => Inv'
  BY NextInv
<1> QED
  BY <1>1, <1>2, PTL DEF Spec

-----------------------------------------------------------------------------
(* No settlement of a task is sent twice on one connection: the reads of   *)
(* _result_stream and the cursor they pass on, whatever is committed       *)
(* between them.                                                           *)
THEOREM SendsOnce == Spec => []SentOnce
<1>1. Inv => SentOnce
  BY DEF Inv
<1> QED
  BY <1>1, AlwaysInv, PTL

(* A stream that says done has sent every settled task, but for those that *)
(* were committed behind its cursor and those it was not asked for.        *)
THEOREM MissesOnlyTheLate == Spec => MissedOnlyIfLate
<1> DEFINE Step == stream.phase # "done" /\ stream'.phase = "done"
                   => \A t \in Settled : Turn(t) \in sent' \cup late \cup old
<1>1. ASSUME Inv, Next, stream.phase # "done", stream'.phase = "done", NEW t \in Settled
      PROVE  Turn(t) \in sent' \cup late \cup old
  <2>1. ReadTasks
    <3>1. ASSUME NEW u \in Task, TakeStamp(u) \/ Commit(u) \/ Retry(u) PROVE stream' = stream
      BY <3>1 DEF TakeStamp, Commit, Retry
    <3>2. ASSUME NEW limit \in Limits, NEW replay \in BOOLEAN, Open(limit, replay)
          PROVE  stream'.phase = "poll"
      BY <3>2 DEF Open
    <3>3. CASE Tick \/ Recount
      BY <1>1, <3>3 DEF Tick, Recount
    <3>4. CASE ReadJob
      BY <1>1, <3>4 DEF ReadJob
    <3>5. CASE Close
      BY <1>1, <3>5 DEF Close, Inv, Typed, StreamSet
    <3> QED
      BY <1>1, <3>1, <3>2, <3>3, <3>4, <3>5 DEF Next
  <2>2. Done(Page) /\ stream.phase # "closed" /\ sent' = sent \cup {Turn(u) : u \in Page}
    BY <1>1, <2>1 DEF ReadTasks
  <2>3. new \subseteq Page
    BY <1>1, <2>2, ShortPageIsAll DEF Inv, Done
  <2>4. CASE t \in new
    BY <2>2, <2>3, <2>4
  <2>5. CASE t \notin new
    BY <1>1, <2>2, <2>5 DEF Inv, Covered, new
  <2> QED
    BY <2>4, <2>5
<1>2. Inv /\ [Next]_vars => [Step]_vars
  BY <1>1
<1> QED
  BY <1>2, AlwaysInv, PTL DEF Spec, MissedOnlyIfLate
=============================================================================
