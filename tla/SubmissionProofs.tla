-------------------------- MODULE SubmissionProofs --------------------------
(***************************************************************************)
(* However often a submission is tried it makes one job, and once it has   *)
(* it no attempt is refused; and a patient client keeps its sessions.      *)
(***************************************************************************)
EXTENDS Submission, FiniteSetTheorems, TLAPS

Credentials == [client : Nat, token : Nat]
JobRows == [id : Nat \ {None}, client : Nat \ {None}, key : Nat, session : Nat, call : Call]
SessionRows == [id : Nat, client : Nat, token : Nat]
Replied == [job : Nat, session : Nat, client : Nat, token : Nat]
Statuses == {"idle", "waiting", "handled", "failed", "answered", "refused"}

Typed ==
    /\ job \subseteq JobRows /\ session \subseteq SessionRows /\ made \in Nat
    /\ sdk \in [Client -> Credentials]
    /\ args \in Args
    /\ status \in [Call -> Statuses]
    /\ sent \in [Call -> Seq(Credentials)]
    /\ reply \in [Call -> Replied]
Asked == \A r \in open : r \in Call \X Nat /\ r[2] \in 1 .. Tries(r[1])

(* A job has the key of its call and the client id of one of its attempts, *)
(* or one that was made up for an attempt without.                         *)
FromAttempt(j) ==
    /\ j.key = args[j.call].key
    /\ \E n \in 1 .. Tries(j.call) : sent[j.call][n].client \in {None, j.client}
(* No two jobs have the same client id and key.                            *)
Unique ==
    \A i, j \in job : i.key # None /\ i.key = j.key /\ i.client = j.client => i = j

Inv == Typed /\ Asked /\ (\A j \in job : FromAttempt(j)) /\ Unique

-----------------------------------------------------------------------------
LEMMA Constants ==
    /\ None \in Nat /\ NewId \in Nat \ {None} /\ Ids \subseteq Nat
    /\ \A a \in Args, k \in Call :
          a[k].key \in Nat /\ a[k].named \in Nat /\ a[k].target \in Nat
<1>1. None = 0 /\ NewId \in Nat \ {0}
  BY SubmissionAssumption DEF None
<1>2. Ids \subseteq Nat
  BY <1>1 DEF Ids
<1>3. ASSUME NEW a \in Args, NEW k \in Call
      PROVE  a[k].key \in Nat /\ a[k].named \in Nat /\ a[k].target \in Nat
  <2>1. a[k] \in [key : Ids, named : Ids, target : Ids, picky : BOOLEAN]
    BY SubmissionAssumption
  <2> QED
    BY <1>2, <2>1
<1> QED
  BY <1>1, <1>2, <1>3

LEMMA OrIsANumber == ASSUME NEW x \in Nat, NEW y \in Nat PROVE Or(x, y) \in Nat
BY DEF Or

LEMMA InvStarts == Init => Inv
<1> SUFFICES ASSUME Init PROVE Inv
  OBVIOUS
<1>1. sdk \in [Client -> Credentials]
  BY Constants, SubmissionAssumption DEF Init, Credentials
<1>2. sent \in [Call -> Seq(Credentials)]
  BY DEF Init
<1>3. Nothing \in Replied
  BY Constants DEF Nothing, Answer, Replied
<1>4. Typed
  <2>1. job \subseteq JobRows /\ session \subseteq SessionRows /\ made \in Nat
    BY DEF Init
  <2>2. args \in Args /\ status \in [Call -> Statuses] /\ reply \in [Call -> Replied]
    BY <1>3 DEF Init, Statuses
  <2> QED
    BY <1>1, <1>2, <2>1, <2>2 DEF Typed
<1>5. Asked
  BY DEF Asked, Init
<1>6. (\A j \in job : FromAttempt(j)) /\ Unique
  BY DEF Unique, Init
<1> QED
  BY <1>4, <1>5, <1>6 DEF Inv

-----------------------------------------------------------------------------
(* Steps that only make a request or deal with an answer.                  *)

(* More attempts take nothing away.                                        *)
LEMMA JobsKeepTheirAttempt ==
    ASSUME Inv, NEW j \in job, args' = args,
           \A k \in Call : /\ Tries(k)' \in Nat /\ Tries(k) <= Tries(k)'
                           /\ \A n \in 1 .. Tries(k) : sent'[k][n] = sent[k][n]
    PROVE  FromAttempt(j)'
<1>1. j.call \in Call
  BY DEF Inv, Typed, JobRows
<1>2. Tries(j.call) \in Nat
  BY <1>1 DEF Inv, Typed, Tries
<1>3. PICK n \in 1 .. Tries(j.call) : sent[j.call][n].client \in {None, j.client}
  BY DEF Inv, FromAttempt
<1>4. n \in 1 .. Tries(j.call)' /\ sent'[j.call][n].client \in {None, j.client}
  BY <1>1, <1>2, <1>3
<1>5. j.key = args'[j.call].key
  BY DEF Inv, FromAttempt
<1> QED
  BY <1>4, <1>5 DEF FromAttempt

(* A submission adds one request, with the credentials of the client object *)
(* unless the call names a client id of its own, and changes no other.      *)
LEMMA SubmitAppends ==
    ASSUME Inv, NEW k \in Call, Submit(k)
    PROVE  /\ sent' \in [Call -> Seq(Credentials)]
           /\ Tries(k) \in Nat /\ Tries(k)' = Tries(k) + 1
           /\ sent'[k][Tries(k) + 1].client = Or(args[k].named, sdk[By[k]].client)
           /\ sent'[k][Tries(k) + 1].token = sdk[By[k]].token
           /\ \A l \in Call : l # k => sent'[l] = sent[l]
           /\ \A l \in Call : /\ Tries(l)' \in Nat /\ Tries(l) <= Tries(l)'
                              /\ \A n \in 1 .. Tries(l) : sent'[l][n] = sent[l][n]
<1> DEFINE entry == [client |-> Or(args[k].named, sdk[By[k]].client), token |-> sdk[By[k]].token]
<1>1. sdk[By[k]] \in Credentials
  BY SubmissionAssumption DEF Inv, Typed
<1>2. Or(args[k].named, sdk[By[k]].client) \in Nat
  <2>1. args[k].named \in Nat /\ sdk[By[k]].client \in Nat
    BY <1>1, Constants DEF Inv, Typed, Credentials
  <2> QED
    BY <2>1, OrIsANumber
<1>3. entry \in Credentials
  BY <1>1, <1>2 DEF Credentials
<1>4. sent' = [sent EXCEPT ![k] = Append(@, entry)]
  BY DEF Submit
<1>5. entry.client = Or(args[k].named, sdk[By[k]].client) /\ entry.token = sdk[By[k]].token
  OBVIOUS
<1> HIDE DEF entry
<1>6. sent[k] \in Seq(Credentials)
  BY DEF Inv, Typed
<1>7. /\ sent' \in [Call -> Seq(Credentials)]
      /\ Tries(k) \in Nat /\ Tries(k)' = Tries(k) + 1
      /\ sent'[k][Tries(k) + 1] = entry
      /\ \A n \in 1 .. Tries(k) : sent'[k][n] = sent[k][n]
  BY <1>3, <1>4, <1>6 DEF Inv, Typed, Tries
<1>8. \A l \in Call : l # k => sent'[l] = sent[l]
  BY <1>4 DEF Inv, Typed
<1>9. \A l \in Call : /\ Tries(l)' \in Nat /\ Tries(l) <= Tries(l)'
                      /\ \A n \in 1 .. Tries(l) : sent'[l][n] = sent[l][n]
  <2> SUFFICES ASSUME NEW l \in Call, l # k
               PROVE  /\ Tries(l)' \in Nat /\ Tries(l) <= Tries(l)'
                      /\ \A n \in 1 .. Tries(l) : sent'[l][n] = sent[l][n]
    BY <1>7
  <2>1. Tries(l) \in Nat /\ Tries(l)' = Tries(l)
    BY <1>8 DEF Inv, Typed, Tries
  <2> QED
    BY <1>8, <2>1
<1> QED
  BY <1>7, <1>8, <1>9, <1>5

LEMMA SubmitKeepsInv == ASSUME Inv, NEW k \in Call, Submit(k) PROVE Inv'
<1>1. /\ open' = open \cup {<<k, Tries(k) + 1>>}
      /\ status' = [status EXCEPT ![k] = "waiting"]
      /\ UNCHANGED <<store, capable, sdk, args, reply>>
  BY DEF Submit
<1>2. sent' \in [Call -> Seq(Credentials)] /\ Tries(k) \in Nat /\ Tries(k)' = Tries(k) + 1
  BY SubmitAppends
<1>3. \A l \in Call : /\ Tries(l)' \in Nat /\ Tries(l) <= Tries(l)'
                      /\ \A n \in 1 .. Tries(l) : sent'[l][n] = sent[l][n]
  BY SubmitAppends
<1>4. Typed'
  <2>1. status' \in [Call -> Statuses]
    BY <1>1 DEF Inv, Typed, Statuses
  <2>2. job' \subseteq JobRows /\ session' \subseteq SessionRows /\ made' \in Nat
    BY <1>1 DEF Inv, Typed, store
  <2>3. sdk' \in [Client -> Credentials] /\ args' \in Args /\ reply' \in [Call -> Replied]
    BY <1>1 DEF Inv, Typed
  <2> QED
    BY <1>2, <2>1, <2>2, <2>3 DEF Typed
<1>5. Asked'
  <2> SUFFICES ASSUME NEW r \in open' PROVE r \in Call \X Nat /\ r[2] \in 1 .. Tries(r[1])'
    BY DEF Asked
  <2>1. CASE r \in open
    <3>1. r \in Call \X Nat /\ r[2] \in 1 .. Tries(r[1])
      BY <2>1 DEF Inv, Asked
    <3>2. r[1] \in Call /\ Tries(r[1]) \in Nat
      BY <3>1 DEF Inv, Typed, Tries
    <3>3. r[2] \in Nat /\ Tries(r[1])' \in Nat /\ Tries(r[1]) <= Tries(r[1])'
      BY <1>3, <3>1, <3>2
    <3>4. r[2] \in 1 .. Tries(r[1])'
      BY <3>1, <3>2, <3>3
    <3> QED
      BY <3>1, <3>4
  <2>2. CASE r = <<k, Tries(k) + 1>>
    <3>1. r[1] = k /\ r[2] = Tries(k) + 1 /\ r \in Call \X Nat
      BY <1>2, <2>2
    <3>2. r[2] \in 1 .. Tries(k)'
      BY <1>2, <3>1
    <3> QED
      BY <3>1, <3>2
  <2> QED
    BY <1>1, <2>1, <2>2
<1>6. \A j \in job' : FromAttempt(j)'
  BY <1>1, <1>3, JobsKeepTheirAttempt DEF store
<1>7. Unique'
  BY <1>1 DEF Inv, Unique, store
<1> QED
  BY <1>4, <1>5, <1>6, <1>7 DEF Inv

(* Whatever leaves the jobs, the attempts and their arguments alone.       *)
LEMMA OthersKeepInv ==
    ASSUME Inv, Typed', job' \subseteq job, open' \subseteq open, UNCHANGED <<args, sent>>
    PROVE  Inv'
<1>1. \A k : Tries(k)' = Tries(k)
  BY DEF Tries
<1>2. Asked'
  BY <1>1 DEF Inv, Asked
<1>3. ASSUME NEW j \in job' PROVE FromAttempt(j)'
  <2>1. FromAttempt(j)
    BY DEF Inv
  <2> QED
    BY <1>1, <2>1 DEF FromAttempt
<1>4. Unique'
  BY DEF Inv, Unique
<1> QED
  BY <1>2, <1>3, <1>4 DEF Inv

LEMMA FailsKeepsInv == ASSUME Inv, NEW k \in Call, Fails(k) PROVE Inv'
<1>1. /\ status' = [status EXCEPT ![k] = "failed"] /\ reply' = [reply EXCEPT ![k] = Nothing]
      /\ open' \subseteq open /\ UNCHANGED <<store, capable, sdk, args, sent, mixed>>
  BY DEF Fails
<1>2. Nothing \in Replied
  BY Constants DEF Nothing, Answer, Replied
<1>3. status' \in [Call -> Statuses] /\ reply' \in [Call -> Replied]
  BY <1>1, <1>2 DEF Inv, Typed, Statuses
<1>4. Typed'
  BY <1>1, <1>3 DEF Inv, Typed, store
<1> QED
  BY <1>1, <1>4, OthersKeepInv DEF store

LEMMA AnsweredKeepsInv == ASSUME Inv, NEW k \in Call, Answered(k) PROVE Inv'
<1>1. UNCHANGED <<store, capable, args, sent, open, reply, mixed>>
  BY DEF Answered
<1>2. status' \in [Call -> Statuses]
  <2>1. status' \in {[status EXCEPT ![k] = "answered"], [status EXCEPT ![k] = "refused"]}
    BY DEF Answered
  <2> QED
    BY <2>1 DEF Inv, Typed, Statuses
<1>3. sdk' \in [Client -> Credentials]
  <2> DEFINE c == By[k]
             entry == [client |-> Or(reply[k].client, sdk[c].client),
                       token |-> Or(reply[k].token, sdk[c].token)]
  <2>1. reply[k] \in Replied /\ sdk[c] \in Credentials
    BY SubmissionAssumption DEF Inv, Typed
  <2>2. Or(reply[k].client, sdk[c].client) \in Nat /\ Or(reply[k].token, sdk[c].token) \in Nat
    BY <2>1, OrIsANumber DEF Replied, Credentials
  <2>3. entry \in Credentials
    BY <2>2 DEF Credentials
  <2>4. sdk' \in {sdk, [sdk EXCEPT ![c] = entry]}
    BY DEF Answered
  <2> HIDE DEF entry
  <2> QED
    BY <2>3, <2>4 DEF Inv, Typed
<1>4. Typed'
  BY <1>1, <1>2, <1>3 DEF Inv, Typed, store
<1> QED
  BY <1>1, <1>4, OthersKeepInv DEF store

LEMMA CleanupKeepsInv == ASSUME Inv, NEW s \in session, RetentionCleanup(s) PROVE Inv'
<1>1. /\ session' \subseteq session /\ job' \subseteq job
      /\ UNCHANGED <<made, capable, sdk, args, status, sent, open, reply, mixed>>
  BY DEF RetentionCleanup
<1>2. Typed'
  BY <1>1 DEF Inv, Typed
<1> QED
  BY <1>1, <1>2, OthersKeepInv

-----------------------------------------------------------------------------
(* The manager handles a request.                                          *)

TokenOf(k, n) == sent[k][n].token
ClientOf(k, n) == Or(sent[k][n].client, NewId + made)

(* Every request is handled under some client id.                          *)
LEMMA RequestHasClient ==
    ASSUME Inv, NEW k \in Call, NEW n \in Nat, <<k, n>> \in open
    PROVE  /\ n \in 1 .. Tries(k)
           /\ ClientOf(k, n) \in Nat \ {None} /\ TokenOf(k, n) \in Nat
           /\ sent[k][n].client \in {None, ClientOf(k, n)}
<1>1. n \in 1 .. Tries(k)
  BY DEF Inv, Asked
<1>2. sent[k] \in Seq(Credentials) /\ n \in 1 .. Len(sent[k])
  BY <1>1 DEF Inv, Typed, Tries
<1>3. sent[k][n] \in Credentials
  BY <1>2
<1>4. sent[k][n].client \in Nat /\ sent[k][n].token \in Nat
  BY <1>3 DEF Credentials
<1>5. NewId + made \in Nat \ {0}
  BY SubmissionAssumption DEF Inv, Typed
<1> QED
  BY <1>1, <1>4, <1>5 DEF ClientOf, TokenOf, Or, None

LEMMA RepliesAreTyped ==
    ASSUME Typed, NEW k \in Call, NEW n, NEW answer \in Replied, Replies(k, n, answer)
    PROVE  status' \in [Call -> Statuses] /\ reply' \in [Call -> Replied]
<1>1. status' \in {status, [status EXCEPT ![k] = "handled"]}
  BY DEF Replies
<1>2. reply' \in {reply, [reply EXCEPT ![k] = answer]}
  BY DEF Replies
<1> QED
  BY <1>1, <1>2 DEF Typed, Statuses

LEMMA AnswersAreTyped ==
    /\ Nothing \in Replied
    /\ \A j \in Nat, s \in SessionRows : Answer(j, s) \in Replied
BY Constants DEF Nothing, Answer, Replied, SessionRows

LEMMA SessionsAreTyped ==
    ASSUME Typed, NEW k \in Call, NEW client \in Nat, NEW token \in Nat,
           NEW s \in SessionFor(k, client, token)
    PROVE  s \in SessionRows
<1> DEFINE new == NewSession(k, client, token)
<1>1. args[k].target \in Nat /\ NewId + made \in Nat
  BY Constants DEF Typed
<1>2. Or(args[k].target, NewId + made) \in Nat /\ Or(token, NewId + made) \in Nat
  BY <1>1, OrIsANumber
<1>3. new \in SessionRows
  BY <1>2 DEF NewSession, SessionRows
<1>4. s \in session \cup {new}
  BY DEF SessionFor
<1> HIDE DEF new
<1> QED
  BY <1>3, <1>4 DEF Typed

LEMMA CreateKeepsInv ==
    ASSUME Inv, NEW k \in Call, NEW n \in Nat, <<k, n>> \in open,
           Stored(k, ClientOf(k, n)) = {}, Create(k, n, ClientOf(k, n), TokenOf(k, n)),
           open' = open \ {<<k, n>>}, UNCHANGED <<capable, sdk, args, sent, mixed>>
    PROVE  Inv'
<1> DEFINE client == ClientOf(k, n)
           token == TokenOf(k, n)
<1>1. client \in Nat \ {None} /\ token \in Nat /\ n \in 1 .. Tries(k)
      /\ sent[k][n].client \in {None, client}
  BY RequestHasClient
<1>2. PICK s \in SessionFor(k, client, token) :
        /\ job' = job \cup {JobRow(k, client, s)}
        /\ session' = session \cup {s}
        /\ made' = made + 1
        /\ Replies(k, n, Answer(NewId + made, s))
  BY DEF Create
<1> HIDE DEF client, token
<1> DEFINE row == JobRow(k, client, s)
<1>3. s \in SessionRows
  BY <1>1, SessionsAreTyped DEF Inv
<1>4. NewId + made \in Nat \ {None} /\ args[k].key \in Nat /\ s.id \in Nat
  <2>1. made \in Nat /\ args \in Args
    BY DEF Inv, Typed
  <2> QED
    BY <1>3, <2>1, Constants DEF SessionRows, None
<1>5. row.call = k /\ row.key = args[k].key /\ row.client = client
  BY DEF JobRow
<1>6. row \in JobRows
  BY <1>1, <1>4 DEF JobRow, JobRows
<1> HIDE DEF row
<1>7. Typed'
  <2>1. Answer(NewId + made, s) \in Replied
    BY <1>3, <1>4, AnswersAreTyped
  <2>2. status' \in [Call -> Statuses] /\ reply' \in [Call -> Replied]
    BY <1>2, <2>1, RepliesAreTyped DEF Inv
  <2>3. job' \subseteq JobRows /\ session' \subseteq SessionRows /\ made' \in Nat
    BY <1>2, <1>3, <1>6 DEF Inv, Typed, row
  <2> QED
    BY <2>2, <2>3 DEF Inv, Typed
<1>8. \A l : Tries(l)' = Tries(l)
  BY DEF Tries
<1>9. Asked'
  BY <1>8 DEF Inv, Asked
<1>10. job' = job \cup {row}
  BY <1>2 DEF row
<1>11. ASSUME NEW j \in job' PROVE FromAttempt(j)'
  <2>1. CASE j \in job
    <3>1. FromAttempt(j)
      BY <2>1 DEF Inv
    <3> QED
      BY <1>8, <3>1 DEF FromAttempt
  <2>2. CASE j = row
    <3>1. FromAttempt(row)
      BY <1>1, <1>5 DEF FromAttempt
    <3> QED
      BY <1>8, <2>2, <3>1 DEF FromAttempt
  <2> QED
    BY <1>10, <2>1, <2>2
<1>12. ASSUME NEW j \in job, row.key # None, row.key = j.key, row.client = j.client
       PROVE  FALSE
  <2>1. j \in Stored(k, client)
    BY <1>5, <1>12 DEF Stored
  <2> QED
    BY <2>1 DEF client
<1>13. Unique'
  <2> SUFFICES ASSUME NEW i \in job', NEW j \in job',
                      i.key # None, i.key = j.key, i.client = j.client
               PROVE  i = j
    BY DEF Unique
  <2>1. CASE i \in job /\ j \in job
    BY <2>1 DEF Inv, Unique
  <2>2. CASE i = row /\ j \in job
    BY <1>12, <2>2
  <2>3. CASE i \in job /\ j = row
    BY <1>12, <2>3
  <2>4. CASE i = row /\ j = row
    BY <2>4
  <2> QED
    BY <1>10, <2>1, <2>2, <2>3, <2>4
<1> QED
  BY <1>7, <1>9, <1>11, <1>13 DEF Inv

LEMMA CreateJobKeepsInv ==
    ASSUME Inv, NEW k \in Call, NEW n \in Nat, CreateJob(k, n)
    PROVE  Inv'
<1> DEFINE client == ClientOf(k, n)
           token == TokenOf(k, n)
<1>1. /\ <<k, n>> \in open /\ open' = open \ {<<k, n>>}
      /\ UNCHANGED <<capable, sdk, args, sent, mixed>>
  BY DEF CreateJob
<1>2. CASE Refused(k, client, token)
  <2>1. Replies(k, n, Nothing) /\ UNCHANGED store
    BY <1>2 DEF CreateJob, ClientOf, TokenOf
  <2>2. status' \in [Call -> Statuses] /\ reply' \in [Call -> Replied]
    BY <2>1, AnswersAreTyped, RepliesAreTyped DEF Inv
  <2>3. Typed'
    BY <1>1, <2>1, <2>2 DEF Inv, Typed, store
  <2> QED
    BY <1>1, <2>1, <2>3, OthersKeepInv DEF store
<1>3. CASE ~Refused(k, client, token) /\ Stored(k, client) # {}
  <2>1. Replay(k, n, client)
    BY <1>3 DEF CreateJob, ClientOf, TokenOf
  <2>2. PICK j \in job, s \in session : Replies(k, n, Answer(j.id, s)) /\ UNCHANGED store
    BY <2>1 DEF Replay, Stored
  <2>3. Answer(j.id, s) \in Replied
    BY AnswersAreTyped DEF Inv, Typed, JobRows
  <2>4. status' \in [Call -> Statuses] /\ reply' \in [Call -> Replied]
    BY <2>2, <2>3, RepliesAreTyped DEF Inv
  <2>5. Typed'
    BY <1>1, <2>2, <2>4 DEF Inv, Typed, store
  <2> QED
    BY <1>1, <2>2, <2>5, OthersKeepInv DEF store
<1>4. CASE ~Refused(k, client, token) /\ Stored(k, client) = {}
  <2>1. Create(k, n, client, token)
    BY <1>4 DEF CreateJob, ClientOf, TokenOf
  <2> QED
    BY <1>1, <1>4, <2>1, CreateKeepsInv
<1> QED
  BY <1>2, <1>3, <1>4

LEMMA StepKeepsInv == Inv /\ [Next]_vars => Inv'
<1> SUFFICES ASSUME Inv, [Next]_vars PROVE Inv'
  OBVIOUS
<1>1. CASE \E k \in Call : Submit(k) \/ Fails(k) \/ Answered(k)
  BY <1>1, SubmitKeepsInv, FailsKeepsInv, AnsweredKeepsInv
<1>2. ASSUME NEW r \in open, CreateJob(r[1], r[2]) PROVE Inv'
  <2>1. r[1] \in Call /\ r[2] \in Nat
    BY DEF Inv, Asked
  <2> QED
    BY <1>2, <2>1, CreateJobKeepsInv
<1>3. CASE CapabilityTurns
  <2>1. UNCHANGED <<store, sdk, args, status, sent, open, reply, mixed>>
    BY <1>3 DEF CapabilityTurns
  <2>2. Typed'
    BY <2>1 DEF Inv, Typed, store
  <2> QED
    BY <2>1, <2>2, OthersKeepInv DEF store
<1>4. CASE \E s \in session : RetentionCleanup(s)
  BY <1>4, CleanupKeepsInv
<1>5. CASE UNCHANGED vars
  <2>1. Typed'
    BY <1>5 DEF Inv, Typed, vars, store
  <2> QED
    BY <1>5, <2>1, OthersKeepInv DEF vars, store
<1> QED
  BY <1>1, <1>2, <1>3, <1>4, <1>5 DEF Next

-----------------------------------------------------------------------------
(* However often a submission with a key is tried under one client id, and *)
(* whatever requests and replies are lost or late, it makes one job.       *)
THEOREM SubmitsOnce == Spec => []OneJobPerCall
<1>1. Inv => OneJobPerCall
  <2> SUFFICES ASSUME Inv, NEW k \in Call, args[k].key # None, SameId(k)
               PROVE  Cardinality({j \in job : j.call = k}) <= 1
    BY DEF OneJobPerCall
  <2> DEFINE mine == {j \in job : j.call = k}
  <2>1. ASSUME NEW j \in mine PROVE j.key = args[k].key /\ j.client = sent[k][1].client
    <3>1. FromAttempt(j) /\ j.call = k
      BY DEF Inv
    <3>2. PICK n \in 1 .. Tries(k) : sent[k][n].client \in {None, j.client}
      BY <3>1 DEF FromAttempt
    <3>3. sent[k][n].client = sent[k][1].client /\ sent[k][n].client # None
      BY DEF SameId
    <3> QED
      BY <3>1, <3>2, <3>3 DEF FromAttempt
  <2>2. \A i, j \in mine : i = j
    BY <2>1 DEF Inv, Unique
  <2>3. CASE mine = {}
    BY <2>3, FS_EmptySet
  <2>4. CASE \E j : mine = {j}
    BY <2>4, FS_Singleton
  <2> QED
    BY <2>2, <2>3, <2>4
<1> QED
  BY <1>1, InvStarts, StepKeepsInv, PTL DEF Spec

(* A submission that has its job is never refused when it is tried again   *)
(* under the client id of that job, whatever has become of the workers and *)
(* of the credentials of the client object.                                *)
THEOREM RetriesAreAnswered == Spec => RetryIsNotRefused
<1>1. Inv /\ [Next]_vars =>
        [\A k \in Call : status[k] = "waiting" /\ status'[k] = "handled" /\ reply'[k] = Nothing
            => \A j \in job : j.call = k /\ j.key # None => j.client # sent[k][Tries(k)].client]_vars
  <2> SUFFICES ASSUME Inv, Next, NEW k \in Call,
                      status[k] = "waiting", status'[k] = "handled", reply'[k] = Nothing,
                      NEW j \in job, j.call = k, j.key # None
               PROVE  j.client # sent[k][Tries(k)].client
    OBVIOUS
  <2>1. PICK r \in open : CreateJob(r[1], r[2])
    <3>1. ASSUME NEW l \in Call, Submit(l) \/ Fails(l) \/ Answered(l) PROVE FALSE
      BY <3>1 DEF Submit, Fails, Answered, Inv, Typed
    <3>2. ~CapabilityTurns /\ \A s \in session : ~RetentionCleanup(s)
      BY DEF CapabilityTurns, RetentionCleanup
    <3> QED
      BY <3>1, <3>2 DEF Next
  <2>2. r[1] \in Call /\ r[2] \in Nat /\ <<r[1], r[2]>> \in open
    BY DEF Inv, Asked
  <2> DEFINE n == r[2]
             client == ClientOf(k, n)
             token == TokenOf(k, n)
             handled(answer) == Replies(r[1], n, answer)
  <2>3. ASSUME NEW answer, handled(answer)
        PROVE  r[1] = k /\ n = Tries(k) /\ answer = Nothing
    <3>1. r[1] = k /\ n = Tries(k) /\ reply' = [reply EXCEPT ![k] = answer]
      BY <2>2, <2>3 DEF Replies, Inv, Typed
    <3> QED
      BY <3>1 DEF Inv, Typed
  <2>4. PICK answer : handled(answer)
    <3> DEFINE c == ClientOf(r[1], n)
    <3>1. handled(Nothing) \/ Replay(r[1], n, c) \/ Create(r[1], n, c, TokenOf(r[1], n))
      BY <2>1 DEF CreateJob, ClientOf, TokenOf
    <3>2. Replay(r[1], n, c) => \E answer : handled(answer)
      BY DEF Replay
    <3>3. Create(r[1], n, c, TokenOf(r[1], n)) => \E answer : handled(answer)
      BY DEF Create
    <3> QED
      BY <3>1, <3>2, <3>3
  <2>5. r[1] = k /\ n = Tries(k)
    BY <2>3, <2>4
  <2>6. client \in Nat \ {None} /\ sent[k][n].client \in {None, client}
    BY <2>2, <2>5, RequestHasClient
  <2>7. Stored(k, client) = {}
    <3> SUFFICES ASSUME Stored(k, client) # {} PROVE FALSE
      OBVIOUS
    <3>1. Replay(k, n, client)
      BY <2>1, <2>5 DEF CreateJob, Refused, ClientOf
    <3>2. PICK i \in job, s \in session : Replies(k, n, Answer(i.id, s))
      BY <3>1 DEF Replay, Stored
    <3>3. Answer(i.id, s).job # Nothing.job
      BY DEF Answer, Nothing, Inv, Typed, JobRows
    <3> QED
      BY <2>3, <2>5, <3>2, <3>3
  <2>8. j.key = args[k].key
    BY DEF Inv, FromAttempt
  <2>9. j.client # client
    BY <2>7, <2>8 DEF Stored
  <2>10. j.client # None
    BY DEF Inv, Typed, JobRows
  <2> QED
    BY <2>5, <2>6, <2>9, <2>10
<1> QED
  BY <1>1, InvStarts, StepKeepsInv, PTL DEF Spec, RetryIsNotRefused


-----------------------------------------------------------------------------
(* A patient client object.  Ids the manager makes up are never ids that an *)
(* application chose or that it has made up before, so a session that was  *)
(* made for a call is that call's for as long as it exists.                *)
MadeUp(id) == id \in Nat /\ NewId <= id /\ id < NewId + made
SoundRow(s) == s.id # None /\ s.id < NewId + made /\ s.client # None /\ s.token # None
OneRowEach == \A r, s \in session : r.id = s.id => r = s
Rows == (\A s \in session : SoundRow(s)) /\ OneRowEach

(* The session of a job whose call named none has the client id of the job, *)
(* and the token of one of the call's attempts if that carried one.        *)
OwnSession(j) ==
    args[j.call].target = None =>
        /\ MadeUp(j.session)
        /\ \A s \in session : s.id = j.session =>
              /\ s.client = j.client
              /\ \E n \in 1 .. Tries(j.call) : sent[j.call][n].token \in {None, s.token}

Owned == Inv /\ Rows /\ (\A j \in job : OwnSession(j))

LEMMA AppsChooseLowIds ==
    /\ None = 0 /\ NewId \in Nat \ {0}
    /\ \A a \in Args, k \in Call : a[k].target \in Nat /\ a[k].target < NewId
<1>1. None = 0 /\ NewId \in Nat \ {0}
  BY SubmissionAssumption DEF None
<1>2. ASSUME NEW a \in Args, NEW k \in Call
      PROVE  a[k].target \in Nat /\ a[k].target < NewId
  <2>1. a[k] \in [key : Ids, named : Ids, target : Ids, picky : BOOLEAN]
    BY SubmissionAssumption
  <2>2. a[k].target \in Ids
    BY <2>1
  <2> QED
    BY <1>1, <2>2 DEF Ids
<1> QED
  BY <1>1, <1>2

(* What create_job stores a job in: a session that is there already under   *)
(* an id the application chose, or a new one under a new id.               *)
LEMMA SessionForARequest ==
    ASSUME Inv, Rows, NEW k \in Call, NEW client \in Nat \ {None}, NEW token \in Nat,
           NEW s \in SessionFor(k, client, token)
    PROVE  /\ s \in SessionRows /\ s.id # None /\ s.client # None /\ s.token # None
           /\ s.id < NewId + made + 1 /\ ~MadeUp(s.id)
           /\ s \in session \/ \A r \in session : r.id # s.id
           /\ args[k].target = None =>
                 s.id = NewId + made /\ s.client = client /\ token \in {None, s.token}
<1> DEFINE target == args[k].target
           old == {r \in session : r.id = target}
           new == NewSession(k, client, token)
<1>1. s \in SessionRows
  BY SessionsAreTyped DEF Inv
<1>2. /\ None = 0 /\ NewId \in Nat \ {0} /\ made \in Nat
      /\ target \in Nat /\ target < NewId /\ args \in Args
  BY AppsChooseLowIds DEF Inv, Typed
<1>3. CASE old # {}
  <2>1. s \in session /\ s.id = target
    BY <1>3 DEF SessionFor
  <2>2. SoundRow(s)
    BY <2>1 DEF Rows
  <2> HIDE DEF target, old, new
  <2>3. target # None /\ s.id < NewId /\ s.id \in Nat
    BY <1>2, <2>1, <2>2 DEF SoundRow
  <2> QED
    BY <1>1, <1>2, <2>1, <2>2, <2>3 DEF SoundRow, MadeUp, target
<1>4. CASE old = {}
  <2>1. s = new /\ \A r \in session : r.id # target
    BY <1>4 DEF SessionFor
  <2>2. /\ s.id = Or(target, NewId + made) /\ s.client = client
        /\ s.token = Or(token, NewId + made)
    BY <2>1 DEF NewSession
  <2> HIDE DEF target, old, new
  <2>3. s.token # None /\ token \in {None, s.token} /\ s.client # None
    BY <1>2, <2>2 DEF Or
  <2>4. CASE target # None
    <3>1. s.id = target
      BY <2>2, <2>4 DEF Or
    <3> QED
      BY <1>1, <1>2, <2>1, <2>3, <2>4, <3>1 DEF MadeUp, target
  <2>5. CASE target = None
    <3>1. s.id = NewId + made
      BY <2>2, <2>5 DEF Or
    <3>2. \A r \in session : r.id # s.id
      <4>1. \A r \in session : r.id < NewId + made /\ r.id \in Nat
        BY DEF Rows, SoundRow, Inv, Typed, SessionRows
      <4> QED
        BY <1>2, <3>1, <4>1
    <3> QED
      BY <1>1, <1>2, <2>2, <2>3, <2>5, <3>1, <3>2 DEF MadeUp, target
  <2> QED
    BY <2>4, <2>5
<1> QED
  BY <1>3, <1>4

(* What a request comes to.                                                 *)
LEMMA RequestOutcome ==
    ASSUME NEW k \in Call, NEW n \in Nat, CreateJob(k, n)
    PROVE  /\ <<k, n>> \in open /\ UNCHANGED <<capable, sdk, args, sent, mixed>>
           /\ \/ Replies(k, n, Nothing) /\ UNCHANGED store
              \/ Replay(k, n, ClientOf(k, n))
              \/ Create(k, n, ClientOf(k, n), TokenOf(k, n))
BY DEF CreateJob, ClientOf, TokenOf

(* A session that is made, found or removed leaves those of other jobs      *)
(* alone.                                                                  *)
LEMMA OwnSessionStays ==
    ASSUME Inv, NEW j \in job, OwnSession(j), args' = args, made' \in {made, made + 1},
           \A r \in session' : r \in session \/ ~MadeUp(r.id),
           \A k \in Call : /\ Tries(k)' \in Nat /\ Tries(k) <= Tries(k)'
                           /\ \A n \in 1 .. Tries(k) : sent'[k][n] = sent[k][n]
    PROVE  OwnSession(j)'
<1> SUFFICES ASSUME args[j.call].target = None
             PROVE  /\ MadeUp(j.session)'
                    /\ \A s \in session' : s.id = j.session =>
                          /\ s.client = j.client
                          /\ \E n \in 1 .. Tries(j.call)' : sent'[j.call][n].token \in {None, s.token}
  BY DEF OwnSession
<1>1. MadeUp(j.session) /\ j.call \in Call
  BY DEF OwnSession, Inv, Typed, JobRows
<1>2. MadeUp(j.session)'
  BY <1>1, AppsChooseLowIds DEF MadeUp, Inv, Typed
<1>3. ASSUME NEW s \in session', s.id = j.session
      PROVE  /\ s.client = j.client
             /\ \E n \in 1 .. Tries(j.call)' : sent'[j.call][n].token \in {None, s.token}
  <2>1. s \in session
    BY <1>1, <1>3
  <2>2. PICK n \in 1 .. Tries(j.call) : sent[j.call][n].token \in {None, s.token}
    BY <1>3, <2>1 DEF OwnSession
  <2>3. Tries(j.call) \in Nat
    BY <1>1 DEF Inv, Typed, Tries
  <2>4. n \in 1 .. Tries(j.call)' /\ sent'[j.call][n].token \in {None, s.token}
    BY <1>1, <2>2, <2>3
  <2> QED
    BY <1>3, <2>1, <2>4 DEF OwnSession
<1> QED
  BY <1>2, <1>3

LEMMA OwnedInductive == Owned /\ [Next]_vars => Owned'
<1> SUFFICES ASSUME Owned, [Next]_vars PROVE Owned'
  OBVIOUS
<1>1. Inv /\ Inv' /\ Rows
  BY StepKeepsInv DEF Owned
\* A step of the application, or one that removes sessions and their jobs.
<1>2. ASSUME made' = made, session' \subseteq session, job' \subseteq job, args' = args,
             \A k \in Call : /\ Tries(k)' \in Nat /\ Tries(k) <= Tries(k)'
                             /\ \A n \in 1 .. Tries(k) : sent'[k][n] = sent[k][n]
      PROVE  Owned'
  <2>1. Rows'
    BY <1>1, <1>2 DEF Rows, SoundRow, OneRowEach
  <2>2. \A j \in job' : OwnSession(j)'
    BY <1>1, <1>2, OwnSessionStays DEF Owned
  <2> QED
    BY <1>1, <2>1, <2>2 DEF Owned
<1>3. \A k \in Call : Tries(k) \in Nat
  BY <1>1 DEF Inv, Typed, Tries
<1>4. ASSUME UNCHANGED sent
      PROVE  \A k \in Call : /\ Tries(k)' \in Nat /\ Tries(k) <= Tries(k)'
                             /\ \A n \in 1 .. Tries(k) : sent'[k][n] = sent[k][n]
  BY <1>3, <1>4 DEF Tries
<1>5. CASE \E k \in Call : Submit(k)
  <2>1. \A k \in Call : /\ Tries(k)' \in Nat /\ Tries(k) <= Tries(k)'
                        /\ \A n \in 1 .. Tries(k) : sent'[k][n] = sent[k][n]
    BY <1>1, <1>5, SubmitAppends
  <2> QED
    BY <1>2, <1>5, <2>1 DEF Submit, store
<1>6. CASE (\E k \in Call : Fails(k) \/ Answered(k)) \/ CapabilityTurns \/ UNCHANGED vars
  <2>1. UNCHANGED <<store, args, sent>>
    BY <1>6 DEF Fails, Answered, CapabilityTurns, vars
  <2> QED
    BY <1>2, <1>4, <2>1 DEF store
<1>7. CASE \E s \in session : RetentionCleanup(s)
  BY <1>2, <1>4, <1>7 DEF RetentionCleanup
<1>8. ASSUME NEW k \in Call, NEW n \in Nat, CreateJob(k, n)
      PROVE  Owned'
  <2> DEFINE client == ClientOf(k, n)
             token == TokenOf(k, n)
  <2>1. /\ <<k, n>> \in open /\ UNCHANGED <<args, sent>>
        /\ \/ UNCHANGED store
           \/ Create(k, n, client, token)
    BY <1>8, RequestOutcome DEF Replay
  <2>2. CASE UNCHANGED store
    BY <1>2, <1>4, <2>1, <2>2 DEF store
  <2>3. CASE Create(k, n, client, token)
    <3>1. /\ client \in Nat \ {None} /\ token \in Nat /\ n \in 1 .. Tries(k)
          /\ token = sent[k][n].token
      BY <1>1, <2>1, RequestHasClient DEF TokenOf
    <3>2. PICK s \in SessionFor(k, client, token) :
              /\ job' = job \cup {JobRow(k, client, s)}
              /\ session' = session \cup {s} /\ made' = made + 1
      BY <2>3 DEF Create
    <3> HIDE DEF client, token
    <3>3. /\ s \in SessionRows /\ s.id # None /\ s.client # None /\ s.token # None
          /\ s.id < NewId + made + 1 /\ ~MadeUp(s.id)
          /\ s \in session \/ \A r \in session : r.id # s.id
          /\ args[k].target = None =>
                s.id = NewId + made /\ s.client = client /\ token \in {None, s.token}
      BY <1>1, <3>1, SessionForARequest
    <3>4. made \in Nat /\ NewId \in Nat \ {0} /\ \A r \in session : r.id \in Nat
      BY <1>1, AppsChooseLowIds DEF Inv, Typed, SessionRows
    <3>5. Rows'
      <4>1. \A r \in session : SoundRow(r)'
        BY <1>1, <3>2, <3>4 DEF Rows, SoundRow
      <4>2. SoundRow(s)'
        <5>1. NewId + made' = NewId + made + 1
          BY <3>2, <3>4
        <5> QED
          BY <3>3, <5>1 DEF SoundRow
      <4>3. OneRowEach'
        BY <1>1, <3>2, <3>3 DEF Rows, OneRowEach
      <4> QED
        BY <3>2, <4>1, <4>2, <4>3 DEF Rows
    <3>6. ASSUME NEW j \in job PROVE OwnSession(j)'
      <4>1. \A r \in session' : r \in session \/ ~MadeUp(r.id)
        BY <3>2, <3>3
      <4>2. OwnSession(j) /\ made' \in {made, made + 1}
        BY <3>2 DEF Owned
      <4> QED
        BY <1>1, <1>4, <2>1, <4>1, <4>2, OwnSessionStays
    <3>7. PICK row : row = JobRow(k, client, s)
      OBVIOUS
    <3>8. row.call = k /\ row.client = client /\ row.session = s.id
      BY <3>7 DEF JobRow
    <3>9. OwnSession(row)'
      <4> SUFFICES ASSUME args[k].target = None
                   PROVE  /\ MadeUp(s.id)'
                          /\ \A r \in session' : r.id = s.id =>
                                /\ r.client = client
                                /\ \E m \in 1 .. Tries(k)' : sent'[k][m].token \in {None, r.token}
        BY <2>1, <3>8 DEF OwnSession
      <4>1. MadeUp(s.id)'
        BY <3>2, <3>3, <3>4 DEF MadeUp
      <4>2. \A r \in session' : r.id = s.id => r = s
        BY <3>2, <3>5 DEF Rows, OneRowEach
      <4>3. n \in 1 .. Tries(k)' /\ sent'[k][n].token \in {None, s.token}
        BY <2>1, <3>1, <3>3 DEF Tries
      <4> QED
        BY <3>3, <4>1, <4>2, <4>3
    <3> QED
      BY <1>1, <3>2, <3>5, <3>6, <3>7, <3>9 DEF Owned
  <2> QED
    BY <2>1, <2>2, <2>3
<1>9. CASE \E r \in open : CreateJob(r[1], r[2])
  <2>1. PICK r \in open : CreateJob(r[1], r[2])
    BY <1>9
  <2>2. r[1] \in Call /\ r[2] \in Nat
    BY <1>1 DEF Inv, Asked
  <2> QED
    BY <1>8, <2>1, <2>2
<1> QED
  BY <1>5, <1>6, <1>7, <1>9 DEF Next

(* The client object has one call under way at most, and every attempt of   *)
(* that carries the credentials that the object still has.                 *)
Fresh == \A k \in Call : status[k] = "idle" => Tries(k) = 0
Alone(c) ==
    \A k, l \in Call : By[k] = c /\ By[l] = c /\ ~SeenThrough(k) /\ ~SeenThrough(l) => k = l
Carries(k) ==
    ~SeenThrough(k) => \A n \in 1 .. Tries(k) :
        sent[k][n].client = sdk[By[k]].client /\ sent[k][n].token = sdk[By[k]].token
InTurn ==
    /\ Fresh
    /\ \A c \in Client : Plain(c) => Alone(c)
    /\ \A k \in Call : Plain(By[k]) => Carries(k)

(* An answer names a session the manager made up, with its credentials as   *)
(* long as it exists; the object has not seen others before it takes them  *)
(* over, and has these ever after.                                         *)
Told(k) ==
    /\ MadeUp(reply[k].session) /\ reply[k].client # None /\ reply[k].token # None
    /\ \A s \in session : s.id = reply[k].session =>
          s.client = reply[k].client /\ s.token = reply[k].token
Settled(k) ==
    /\ status[k] = "handled" /\ reply[k] # Nothing =>
          /\ Told(k)
          /\ sdk[By[k]].client \in {None, reply[k].client}
          /\ sdk[By[k]].token \in {None, reply[k].token}
    /\ status[k] = "answered" =>
          Told(k) /\ sdk[By[k]].client = reply[k].client /\ sdk[By[k]].token = reply[k].token
AllSettled == \A k \in Call : Plain(By[k]) => Settled(k)

(* Arguments stay, and an object that has mixed its calls stays mixed.      *)
LEMMA PlainWasPlain == [Next]_vars => \A c : Plain(c)' => Plain(c)
<1> SUFFICES ASSUME [Next]_vars PROVE \A c : Plain(c)' => Plain(c)
  OBVIOUS
<1>1. args' = args /\ mixed \subseteq mixed'
  BY DEF Next, Submit, Fails, Answered, CreateJob, CapabilityTurns, RetentionCleanup, vars
<1> QED
  BY <1>1 DEF Plain

LEMMA InTurnInductive == Inv /\ InTurn /\ [Next]_vars => InTurn'
<1> SUFFICES ASSUME Inv, InTurn, [Next]_vars PROVE InTurn'
  OBVIOUS
<1>1. \A c : Plain(c)' => Plain(c)
  BY PlainWasPlain
<1>2. status \in [Call -> Statuses] /\ sdk \in [Client -> Credentials] /\ By \in [Call -> Client]
  BY SubmissionAssumption DEF Inv, Typed
\* A step that makes no request and begins or ends no call.
<1>3. ASSUME UNCHANGED <<sdk, sent>>,
             \A k \in Call : (SeenThrough(k)' <=> SeenThrough(k)) /\ (status'[k] = "idle" => status[k] = "idle")
      PROVE  InTurn'
  <2>1. \A k : Tries(k)' = Tries(k)
    BY <1>3 DEF Tries
  <2>2. Fresh'
    BY <1>3, <2>1 DEF InTurn, Fresh
  <2>3. \A c \in Client : Plain(c)' => Alone(c)'
    BY <1>1, <1>3 DEF InTurn, Alone
  <2>4. \A k \in Call : Plain(By[k])' => Carries(k)'
    BY <1>1, <1>3, <2>1 DEF InTurn, Carries
  <2> QED
    BY <2>2, <2>3, <2>4 DEF InTurn
<1>4. ASSUME NEW k \in Call, Submit(k)
      PROVE  InTurn'
  <2> DEFINE c == By[k]
  <2>1. /\ status[k] \in {"idle", "failed"} /\ status' = [status EXCEPT ![k] = "waiting"]
        /\ UNCHANGED <<sdk, args>>
        /\ c \notin mixed' => \A l \in Call : By[l] = c /\ l # k => SeenThrough(l)
    BY <1>4 DEF Submit
  <2>2. /\ Tries(k) \in Nat /\ Tries(k)' = Tries(k) + 1
        /\ sent'[k][Tries(k) + 1].client = Or(args[k].named, sdk[c].client)
        /\ sent'[k][Tries(k) + 1].token = sdk[c].token
        /\ \A l \in Call : l # k => sent'[l] = sent[l]
        /\ \A n \in 1 .. Tries(k) : sent'[k][n] = sent[k][n]
    BY <1>4, SubmitAppends
  <2>3. \A l \in Call : l # k => Tries(l)' = Tries(l) /\ (SeenThrough(l)' <=> SeenThrough(l))
    BY <1>2, <2>1, <2>2 DEF Tries, SeenThrough
  <2>4. status'[k] = "waiting" /\ \A l \in Call : l # k => status'[l] = status[l]
    BY <1>2, <2>1
  <2>5. Fresh'
    BY <2>3, <2>4 DEF InTurn, Fresh
  <2>6. ASSUME NEW d \in Client, Plain(d)'
        PROVE  Alone(d)'
    <3>1. Alone(d)
      BY <1>1, <2>6 DEF InTurn
    <3>2. CASE d = c
      <4>1. c \notin mixed'
        BY <2>6, <3>2 DEF Plain
      <4>2. \A l \in Call : By[l] = c /\ ~SeenThrough(l)' => l = k
        BY <2>1, <2>3, <4>1
      <4> QED
        BY <3>2, <4>2 DEF Alone
    <3>3. CASE d # c
      BY <2>3, <3>1, <3>3 DEF Alone
    <3> QED
      BY <3>2, <3>3
  <2>7. ASSUME NEW l \in Call, Plain(By[l])'
        PROVE  Carries(l)'
    <3>1. Carries(l) /\ Plain(By[l])
      BY <1>1, <2>7 DEF InTurn
    <3>2. CASE l = k
      <4>1. args[k].named = None
        BY <3>1, <3>2 DEF Plain
      <4>2. Or(args[k].named, sdk[c].client) = sdk[c].client
        BY <4>1 DEF Or
      <4>3. \A n \in 1 .. Tries(k) : sent[k][n].client = sdk[c].client /\ sent[k][n].token = sdk[c].token
        BY <2>1, <2>2, <3>1, <3>2 DEF Carries, SeenThrough, InTurn, Fresh
      <4>4. \A n \in 1 .. Tries(k) + 1 : n \in 1 .. Tries(k) \/ n = Tries(k) + 1
        BY <2>2
      <4> QED
        BY <2>1, <2>2, <3>2, <4>2, <4>3, <4>4 DEF Carries
    <3>3. CASE l # k
      BY <2>1, <2>2, <2>3, <3>1, <3>3 DEF Carries
    <3> QED
      BY <3>2, <3>3
  <2> QED
    BY <2>5, <2>6, <2>7 DEF InTurn
<1>5. ASSUME NEW k \in Call, Fails(k)
      PROVE  InTurn'
  BY <1>2, <1>3, <1>5 DEF Fails, SeenThrough
<1>6. ASSUME NEW k \in Call, Answered(k)
      PROVE  InTurn'
  <2>1. status[k] = "handled" /\ UNCHANGED <<sent, args, mixed>>
    BY <1>6 DEF Answered
  <2>2. /\ status'[k] \in {"answered", "refused"}
        /\ \A l \in Call : l # k => status'[l] = status[l]
    BY <1>2, <1>6 DEF Answered
  <2>3. \A c \in Client : c # By[k] => sdk'[c] = sdk[c]
    BY <1>2, <1>6 DEF Answered
  <2>4. \A l : Tries(l)' = Tries(l)
    BY <2>1 DEF Tries
  <2>5. Fresh'
    BY <2>2, <2>4 DEF InTurn, Fresh
  <2>6. \A l \in Call : ~SeenThrough(l)' => l # k /\ ~SeenThrough(l)
    BY <2>2 DEF SeenThrough
  <2>7. \A c \in Client : Plain(c)' => Alone(c)'
    BY <1>1, <2>6 DEF InTurn, Alone
  <2>8. ASSUME NEW l \in Call, Plain(By[l])', ~SeenThrough(l)'
        PROVE  Carries(l) /\ By[l] # By[k]
    <3>1. Plain(By[l]) /\ By[l] \in Client
      BY <1>1, <1>2, <2>8
    <3>2. Alone(By[l]) /\ Carries(l)
      BY <3>1 DEF InTurn
    <3>3. ~SeenThrough(k) /\ ~SeenThrough(l) /\ l # k
      BY <2>1, <2>6, <2>8 DEF SeenThrough
    <3> QED
      BY <3>2, <3>3 DEF Alone
  <2>9. \A l \in Call : Plain(By[l])' => Carries(l)'
    BY <1>2, <2>1, <2>3, <2>4, <2>6, <2>8 DEF Carries
  <2> QED
    BY <2>5, <2>7, <2>9 DEF InTurn
<1>7. ASSUME NEW k \in Call, NEW n \in Nat, CreateJob(k, n)
      PROVE  InTurn'
  <2>1. UNCHANGED <<sdk, sent>>
    BY <1>7, RequestOutcome
  <2>2. \/ status' = status
        \/ status[k] = "waiting" /\ status' = [status EXCEPT ![k] = "handled"]
    <3>1. \A answer : Replies(k, n, answer) =>
              \/ status' = status
              \/ status[k] = "waiting" /\ status' = [status EXCEPT ![k] = "handled"]
      BY DEF Replies
    <3>2. \E answer : Replies(k, n, answer)
      BY <1>7, RequestOutcome DEF Replay, Create
    <3> QED
      BY <3>1, <3>2
  <2> QED
    BY <1>2, <1>3, <2>1, <2>2 DEF SeenThrough
<1>8. CASE \E r \in open : CreateJob(r[1], r[2])
  <2>1. PICK r \in open : CreateJob(r[1], r[2])
    BY <1>8
  <2>2. r[1] \in Call /\ r[2] \in Nat
    BY DEF Inv, Asked
  <2> QED
    BY <1>7, <2>1, <2>2
<1>9. CASE CapabilityTurns \/ (\E s \in session : RetentionCleanup(s)) \/ UNCHANGED vars
  <2>1. UNCHANGED <<sdk, sent, status>>
    BY <1>9 DEF CapabilityTurns, RetentionCleanup, vars
  <2> QED
    BY <1>3, <2>1 DEF SeenThrough
<1> QED
  BY <1>4, <1>5, <1>6, <1>8, <1>9 DEF Next

(* An answer once given stays true of its session, whatever sessions are    *)
(* made or removed.                                                        *)
LEMMA ToldStays ==
    ASSUME Inv, NEW k \in Call, Told(k), reply'[k] = reply[k], made' \in {made, made + 1},
           \A r \in session' : r \in session \/ ~MadeUp(r.id)
    PROVE  Told(k)'
<1>1. MadeUp(reply[k].session)'
  BY AppsChooseLowIds DEF Told, MadeUp, Inv, Typed
<1>2. \A s \in session' : s.id = reply'[k].session =>
          s.client = reply'[k].client /\ s.token = reply'[k].token
  BY DEF Told
<1> QED
  BY <1>1, <1>2 DEF Told

(* Session rows that a request adds or leaves are never under an id made up *)
(* before.                                                                 *)
LEMMA RequestAddsNew ==
    ASSUME Inv, Rows, NEW k \in Call, NEW n \in Nat, CreateJob(k, n)
    PROVE  made' \in {made, made + 1} /\ \A r \in session' : r \in session \/ ~MadeUp(r.id)
<1> DEFINE client == ClientOf(k, n)
           token == TokenOf(k, n)
<1>1. <<k, n>> \in open /\ (UNCHANGED store \/ Create(k, n, client, token))
  BY RequestOutcome DEF Replay
<1>2. client \in Nat \ {None} /\ token \in Nat
  BY <1>1, RequestHasClient
<1> HIDE DEF client, token
<1>3. CASE Create(k, n, client, token)
  <2>1. PICK s \in SessionFor(k, client, token) : session' = session \cup {s} /\ made' = made + 1
    BY <1>3 DEF Create
  <2>2. ~MadeUp(s.id)
    BY <1>2, SessionForARequest
  <2> QED
    BY <2>1, <2>2
<1> QED
  BY <1>1, <1>3 DEF store

(* The answer to the last attempt of a call of a patient object: a new      *)
(* session with the credentials of the attempt, or, when an earlier attempt*)
(* got through, the session that one was given, and the attempts had the   *)
(* same credentials.                                                       *)
LEMMA AnswerSettles ==
    ASSUME Owned, InTurn, NEW k \in Call, NEW n \in Nat, CreateJob(k, n), Plain(By[k]),
           n = Tries(k), status[k] = "waiting"
    PROVE  Settled(k)'
<1> DEFINE client == ClientOf(k, n)
           token == TokenOf(k, n)
           c == By[k]
<1>1. /\ <<k, n>> \in open /\ UNCHANGED <<sdk, args, sent>>
      /\ \/ Replies(k, n, Nothing)
         \/ Replay(k, n, client)
         \/ Create(k, n, client, token)
  BY RequestOutcome
<1>2. /\ client \in Nat \ {None} /\ token \in Nat /\ n \in 1 .. Tries(k)
      /\ sent[k][n].client \in {None, client} /\ token = sent[k][n].token
  BY <1>1, RequestHasClient DEF Owned, TokenOf
<1>3. Carries(k) /\ ~SeenThrough(k) /\ args[k].target = None
  BY DEF InTurn, SeenThrough, Plain
<1>4. \A m \in 1 .. Tries(k) : sent[k][m].client = sdk[c].client /\ sent[k][m].token = sdk[c].token
  BY <1>3 DEF Carries
<1>5. sdk[c].client \in {None, client} /\ sdk[c].token = token
  BY <1>2, <1>4
<1>6. \A answer : Replies(k, n, answer) => reply'[k] = answer /\ status'[k] = "handled"
  BY DEF Replies, Owned, Inv, Typed
<1> HIDE DEF client, token
\* A session that is there under the id the answer names is the one it describes.
<1>7. ASSUME NEW x, NEW s, Replies(k, n, Answer(x, s)), MadeUp(s.id)', s.client # None, s.token # None,
             \A r \in session' : r.id = s.id => r = s,
             sdk[c].client \in {None, s.client}, sdk[c].token \in {None, s.token}
      PROVE  Settled(k)'
  <2>1. reply'[k] = Answer(x, s) /\ status'[k] = "handled"
    BY <1>6, <1>7
  <2>2. reply'[k].session = s.id /\ reply'[k].client = s.client /\ reply'[k].token = s.token
    BY <2>1 DEF Answer
  <2>3. Told(k)'
    BY <1>7, <2>2 DEF Told
  <2> QED
    BY <1>1, <1>7, <2>1, <2>2, <2>3 DEF Settled
<1>8. CASE Replies(k, n, Nothing)
  <2>1. reply'[k] = Nothing /\ status'[k] = "handled"
    BY <1>6, <1>8
  <2>2. Nothing' = Nothing
    BY DEF Nothing, Answer
  <2> QED
    BY <2>1, <2>2 DEF Settled
<1>9. CASE Replay(k, n, client)
  <2>1. PICK j \in Stored(k, client), s \in session :
            s.id = j.session /\ Replies(k, n, Answer(j.id, s)) /\ UNCHANGED store
    BY <1>9 DEF Replay
  <2>2. j \in job /\ j.client = client /\ j.key = args[k].key /\ args[k].key # None
    BY <2>1 DEF Stored
  <2>3. FromAttempt(j) /\ OwnSession(j) /\ j.call \in Call
    BY <2>2 DEF Owned, Inv, Typed, JobRows
  <2>4. j.call = k
    BY <2>2, <2>3 DEF Plain, FromAttempt
  <2>5. MadeUp(s.id) /\ s.client = client /\ \E m \in 1 .. Tries(k) : sent[k][m].token \in {None, s.token}
    BY <1>3, <2>1, <2>2, <2>3, <2>4 DEF OwnSession
  <2>6. sdk[c].token \in {None, s.token}
    BY <1>4, <2>5
  <2>7. SoundRow(s) /\ \A r \in session' : r.id = s.id => r = s
    BY <2>1 DEF Owned, Rows, OneRowEach, store
  <2>8. MadeUp(s.id)'
    BY <2>1, <2>5 DEF MadeUp, store
  <2> QED
    BY <1>5, <1>7, <2>1, <2>5, <2>6, <2>7, <2>8 DEF SoundRow
<1>10. CASE Create(k, n, client, token)
  <2>1. PICK s \in SessionFor(k, client, token) :
            session' = session \cup {s} /\ made' = made + 1 /\ Replies(k, n, Answer(NewId + made, s))
    BY <1>10 DEF Create
  <2>2. /\ s.id # None /\ s.client # None /\ s.token # None
        /\ s.id = NewId + made /\ s.client = client /\ token \in {None, s.token}
        /\ s \in session \/ \A r \in session : r.id # s.id
    BY <1>2, <1>3, SessionForARequest DEF Owned
  <2>3. MadeUp(s.id)'
    BY <2>1, <2>2, AppsChooseLowIds DEF MadeUp, Owned, Inv, Typed
  <2>4. \A r \in session' : r.id = s.id => r = s
    BY <2>1, <2>2 DEF Owned, Rows, OneRowEach
  <2> QED
    BY <1>5, <1>7, <2>1, <2>2, <2>3, <2>4
<1> QED
  BY <1>1, <1>8, <1>9, <1>10

LEMMA SettledInductive == Owned /\ InTurn /\ AllSettled /\ [Next]_vars => AllSettled'
<1> SUFFICES ASSUME Owned, InTurn, AllSettled, [Next]_vars,
                    NEW l \in Call, Plain(By[l])'
             PROVE  Settled(l)'
  BY DEF AllSettled
<1>1. Plain(By[l]) /\ Settled(l) /\ Inv /\ Rows
  BY PlainWasPlain DEF AllSettled, Owned
<1>2. /\ status \in [Call -> Statuses] /\ reply \in [Call -> Replied]
      /\ sdk \in [Client -> Credentials] /\ By \in [Call -> Client] /\ made \in Nat
  BY <1>1, SubmissionAssumption DEF Inv, Typed
<1>3. Nothing' = Nothing
  BY DEF Nothing, Answer
\* A step that does not deal with the call.
<1>4. ASSUME status'[l] = status[l], reply'[l] = reply[l], sdk'[By[l]] = sdk[By[l]],
             made' \in {made, made + 1}, \A r \in session' : r \in session \/ ~MadeUp(r.id)
      PROVE  Settled(l)'
  <2>1. Told(l) => Told(l)'
    BY <1>1, <1>4, ToldStays
  <2> QED
    BY <1>1, <1>3, <1>4, <2>1 DEF Settled
<1>5. ASSUME NEW k \in Call, Submit(k) \/ Fails(k)
      PROVE  Settled(l)'
  <2>1. /\ status' \in {[status EXCEPT ![k] = "waiting"], [status EXCEPT ![k] = "failed"]}
        /\ reply' \in {reply, [reply EXCEPT ![k] = Nothing]}
        /\ UNCHANGED <<store, sdk>>
    BY <1>5 DEF Submit, Fails
  <2>2. CASE l = k
    <3>1. status'[k] \in {"waiting", "failed"}
      BY <1>2, <2>1
    <3> QED
      BY <2>2, <3>1 DEF Settled
  <2>3. CASE l # k
    BY <1>2, <1>4, <2>1, <2>3 DEF store
  <2> QED
    BY <2>2, <2>3
<1>6. ASSUME NEW k \in Call, Answered(k)
      PROVE  Settled(l)'
  <2> DEFINE c == By[k]
  <2>1. status[k] = "handled" /\ UNCHANGED <<store, args, reply>> /\ c \in Client
    BY <1>2, <1>6 DEF Answered
  <2>2. CASE reply[k] = Nothing
    <3>1. sdk' = sdk /\ status' = [status EXCEPT ![k] = "refused"]
      BY <1>6, <2>2 DEF Answered
    <3>2. CASE l = k
      BY <1>2, <3>1, <3>2 DEF Settled
    <3>3. CASE l # k
      BY <1>2, <1>4, <2>1, <3>1, <3>3 DEF store
    <3> QED
      BY <3>2, <3>3
  <2>3. CASE reply[k] # Nothing
    <3>1. /\ status' = [status EXCEPT ![k] = "answered"]
          /\ sdk' = [sdk EXCEPT ![c] = [client |-> Or(reply[k].client, sdk[c].client),
                                       token |-> Or(reply[k].token, sdk[c].token)]]
      BY <1>6, <2>3 DEF Answered
    <3>2. CASE By[l] # c
      <4>1. l # k
        BY <3>2
      <4> QED
        BY <1>2, <1>4, <2>1, <3>1, <3>2, <4>1 DEF store
    <3>3. CASE By[l] = c
      <4>1. Settled(k) /\ Plain(c)
        BY <1>1, <3>3 DEF AllSettled
      <4>2. /\ Told(k) /\ reply[k].client # None /\ reply[k].token # None
            /\ sdk[c].client \in {None, reply[k].client} /\ sdk[c].token \in {None, reply[k].token}
        BY <2>1, <2>3, <4>1 DEF Settled, Told
      <4>3. sdk'[c].client = reply[k].client /\ sdk'[c].token = reply[k].token
        BY <1>2, <2>1, <3>1, <4>2 DEF Or
      <4>4. Told(k) => Told(k)'
        BY <1>1, <2>1, ToldStays DEF store
      <4>5. CASE l = k
        <5>1. status'[k] = "answered"
          BY <1>2, <3>1
        <5> QED
          BY <2>1, <4>2, <4>3, <4>4, <4>5, <5>1 DEF Settled
      <4>6. CASE l # k
        <5>1. status'[l] = status[l]
          BY <1>2, <3>1, <4>6
        <5>2. status[l] # "handled"
          <6>1. Alone(c) /\ ~SeenThrough(k)
            BY <2>1, <4>1 DEF InTurn, SeenThrough
          <6>2. SeenThrough(l)
            BY <3>3, <4>6, <6>1 DEF Alone
          <6> QED
            BY <6>2 DEF SeenThrough
        <5>3. ASSUME status[l] = "answered"
              PROVE  /\ Told(l)' /\ sdk'[c].client = reply'[l].client
                     /\ sdk'[c].token = reply'[l].token
          <6>1. Told(l) /\ sdk[c].client = reply[l].client /\ sdk[c].token = reply[l].token
            BY <1>1, <3>3, <5>3 DEF Settled
          <6>2. Told(l)'
            BY <1>1, <2>1, <6>1, ToldStays DEF store
          <6>3. sdk[c].client # None /\ sdk[c].token # None
            BY <6>1 DEF Told
          <6> QED
            BY <2>1, <4>2, <4>3, <6>1, <6>2, <6>3
        <5> QED
          BY <3>3, <5>1, <5>2, <5>3 DEF Settled
      <4> QED
        BY <4>5, <4>6
    <3> QED
      BY <3>2, <3>3
  <2> QED
    BY <2>2, <2>3
<1>7. ASSUME NEW k \in Call, NEW n \in Nat, CreateJob(k, n)
      PROVE  Settled(l)'
  <2>1. sdk' = sdk
    BY <1>7, RequestOutcome
  <2>2. made' \in {made, made + 1} /\ \A r \in session' : r \in session \/ ~MadeUp(r.id)
    BY <1>1, <1>7, RequestAddsNew
  <2>3. CASE l = k /\ n = Tries(k) /\ status[k] = "waiting"
    BY <1>1, <1>7, <2>3, AnswerSettles
  <2>4. CASE ~(l = k /\ n = Tries(k) /\ status[k] = "waiting")
    <3>1. PICK answer : Replies(k, n, answer)
      BY <1>7, RequestOutcome DEF Replay, Create
    <3>2. status'[l] = status[l] /\ reply'[l] = reply[l]
      BY <1>2, <2>4, <3>1 DEF Replies
    <3> QED
      BY <1>4, <2>1, <2>2, <3>2
  <2> QED
    BY <2>3, <2>4
<1>8. CASE \E r \in open : CreateJob(r[1], r[2])
  <2>1. PICK r \in open : CreateJob(r[1], r[2])
    BY <1>8
  <2>2. r[1] \in Call /\ r[2] \in Nat
    BY <1>1 DEF Inv, Asked
  <2> QED
    BY <1>7, <2>1, <2>2
<1>9. CASE CapabilityTurns \/ (\E s \in session : RetentionCleanup(s)) \/ UNCHANGED vars
  BY <1>4, <1>9 DEF CapabilityTurns, RetentionCleanup, vars, store
<1> QED
  BY <1>5, <1>6, <1>8, <1>9 DEF Next

(* A client object that sees each call through before the next, leaves ids  *)
(* and sessions to the manager and takes a new key for each call, finds    *)
(* the sessions of all its answered calls with the credentials it has, in  *)
(* spite of lost and late requests and replies and of other applications.  *)
THEOREM PatienceKeepsSessions == Spec => []PatientKeepsAll
<1> DEFINE Kept == Owned /\ InTurn /\ AllSettled
<1>1. Init => Kept
  <2> SUFFICES ASSUME Init PROVE Kept
    OBVIOUS
  <2>1. Owned
    BY InvStarts DEF Init, Owned, Rows, OneRowEach
  <2>2. InTurn
    <3>1. \A k \in Call : status[k] = "idle" /\ sent[k] = <<>>
      BY DEF Init
    <3>2. Len(<<>>) = 0
      OBVIOUS
    <3> QED
      BY <3>1, <3>2 DEF InTurn, Fresh, Alone, Carries, SeenThrough, Tries
  <2>3. AllSettled
    BY DEF Init, AllSettled, Settled
  <2> QED
    BY <2>1, <2>2, <2>3
<1>2. Kept /\ [Next]_vars => Kept'
  BY OwnedInductive, InTurnInductive, SettledInductive DEF Owned
<1>3. Kept => PatientKeepsAll
  <2> SUFFICES ASSUME Kept, NEW k \in Call, NEW s \in session,
                      Plain(By[k]), status[k] = "answered", s.id = reply[k].session
               PROVE  s \in MySessions(By[k])
    BY DEF PatientKeepsAll
  <2>1. Told(k) /\ sdk[By[k]].client = reply[k].client /\ sdk[By[k]].token = reply[k].token
    BY DEF AllSettled, Settled
  <2> QED
    BY <2>1 DEF Told, MySessions, Opens
<1> QED
  BY <1>1, <1>2, <1>3, PTL DEF Spec
=============================================================================
