----------------------------- MODULE Submission -----------------------------
(***************************************************************************)
(* Submitting jobs over a network that may delay or lose any request and   *)
(* any reply: the SDK's client object with the credentials it carries from *)
(* answer to answer, the application that calls it again when a call       *)
(* fails, and create_job with its idempotency keys, sessions and tokens.   *)
(*                                                                         *)
(* A call k is one submission as the application means it, tried once or   *)
(* several times.  Ids and tokens are numbers; those the manager makes up  *)
(* are counted on from NewId.                                              *)
(***************************************************************************)
EXTENDS Naturals, FiniteSets, Sequences

CONSTANTS Client,        \* SDK client objects
          OwnIds,        \* the client ids they are constructed with; None for none
          Call, By,      \* calls, and the client object each is made on
          Args,          \* the arguments applications may give the calls: for each
                         \* idempotency_key, client_id and session_id (or None),
                         \* and require_capable_worker
          MaxTries,      \* bound: attempts of each call
          NewId          \* above every id an application chooses
None == 0
Ids == 0 .. NewId - 1

ASSUME SubmissionAssumption ==
    /\ NewId \in Nat \ {0} /\ MaxTries \in [Call -> Nat]
    /\ OwnIds \subseteq Ids /\ By \in [Call -> Client]
    /\ Args \subseteq [Call -> [key : Ids, named : Ids, target : Ids, picky : BOOLEAN]]

VARIABLES
    job,       \* jobs: id, client_id, idempotency_key, session_id; call is history
    session,   \* service_sessions: id, client_id, resume_token
    made,      \* how many ids the manager has made up
    capable,   \* is there an active worker that can run the submitted tasks?
    sdk,       \* client_id and resume_token of each client object
    args,      \* the arguments the application gives each call
    status,    \* of each call: idle, waiting, handled (the reply is under way),
               \* failed, answered, refused
    sent,      \* the requests of each call so far, in order
    open,      \* those not handled, <<k, n>> for the n-th of call k
    reply,     \* the answer to the last request of each call
    mixed      \* history: clients that began a call before they had seen another through

store == <<job, session, made>>
vars == <<store, capable, sdk, args, status, sent, open, reply, mixed>>

Answer(j, s) == [job |-> j, session |-> s.id, client |-> s.client, token |-> s.token]
Nothing == Answer(None, [id |-> None, client |-> None, token |-> None])

Init ==
    /\ job = {} /\ session = {} /\ made = 0 /\ capable \in BOOLEAN
    /\ sdk \in [Client -> [client : OwnIds, token : {None}]]
    /\ args \in Args
    /\ status = [k \in Call |-> "idle"]
    /\ sent = [k \in Call |-> <<>>] /\ open = {}
    /\ reply = [k \in Call |-> Nothing]
    /\ mixed = {}

Or(x, y) == IF x # None THEN x ELSE y
Tries(k) == Len(sent[k])
SeenThrough(k) == status[k] \in {"idle", "answered", "refused"}

-----------------------------------------------------------------------------
(* The application and the SDK.                                            *)

(* TaskGridClient.submit up to the request.  A call that failed is made    *)
(* again with the same arguments.                                          *)
Submit(k) ==
    LET c == By[k]
    IN  /\ status[k] \in {"idle", "failed"}
        /\ Tries(k) < MaxTries[k]
        /\ sent' = [sent EXCEPT ![k] = Append(@, [client |-> Or(args[k].named, sdk[c].client),
                                                  token |-> sdk[c].token])]
        /\ open' = open \cup {<<k, Tries(k) + 1>>}
        /\ status' = [status EXCEPT ![k] = "waiting"]
        /\ mixed' = IF \A l \in Call : By[l] = c /\ l # k => SeenThrough(l)
                    THEN mixed ELSE mixed \cup {c}
        /\ UNCHANGED <<store, capable, sdk, args, reply>>

(* The request times out or the connection breaks; the request may be lost,*)
(* or still be on its way.                                                 *)
Fails(k) ==
    /\ status[k] \in {"waiting", "handled"}
    /\ status' = [status EXCEPT ![k] = "failed"]
    /\ reply' = [reply EXCEPT ![k] = Nothing]
    /\ \E lost \in SUBSET {<<k, Tries(k)>>} : open' = open \ lost
    /\ UNCHANGED <<store, capable, sdk, args, sent, mixed>>

(* The rest of submit: the client object takes over what the answer says.  *)
(* A refusal (HTTP 409) is raised to the application.                      *)
Answered(k) ==
    /\ status[k] = "handled"
    /\ IF reply[k] # Nothing
       THEN /\ sdk' = [sdk EXCEPT ![By[k]] = [client |-> Or(reply[k].client, @.client),
                                             token |-> Or(reply[k].token, @.token)]]
            /\ status' = [status EXCEPT ![k] = "answered"]
       ELSE /\ status' = [status EXCEPT ![k] = "refused"]
            /\ UNCHANGED sdk
    /\ UNCHANGED <<store, capable, args, sent, open, reply, mixed>>

(* list_client_sessions and get_client_session, as my_sessions and         *)
(* reconnect_session ask them.                                             *)
Opens(s, cred) == /\ cred.client # None /\ cred.token # None
                  /\ s.client = cred.client /\ s.token = cred.token
MySessions(c) == {s \in session : Opens(s, sdk[c])}

-----------------------------------------------------------------------------
(* The manager: create_job for the n-th request of call k, with the client *)
(* id and the token it carries.                                            *)

Replies(k, n, answer) ==
    LET awaited == n = Tries(k) /\ status[k] = "waiting"
    IN  /\ reply' = IF awaited THEN [reply EXCEPT ![k] = answer] ELSE reply
        /\ status' = IF awaited THEN [status EXCEPT ![k] = "handled"] ELSE status

(* The job stored under the request's client id and key.                   *)
Stored(k, client) ==
    IF args[k].key = None THEN {} ELSE {j \in job : j.client = client /\ j.key = args[k].key}

Replay(k, n, client) ==
    \E j \in Stored(k, client), s \in session :
        /\ s.id = j.session
        /\ Replies(k, n, Answer(j.id, s))
        /\ UNCHANGED store

(* Nobody can run it, or the token is not the session's.                   *)
(* Mutant: these checks come before the key is looked up.                  *)
MutChecksFirst(k, client, token) ==
    \/ args[k].picky /\ ~capable
    \/ \E s \in session : s.id = args[k].target /\ token # None /\ s.token # token
Refused(k, client, token) ==
    /\ Stored(k, client) = {}
    /\ \/ args[k].picky /\ ~capable
       \/ \E s \in session : s.id = args[k].target /\ token # None /\ s.token # token

(* The row keeps the client id of the request, also in another's session.  *)
(* Mutant: it takes the id of the session's owner.                         *)
MutOwners(k, client, s) ==
    [id |-> NewId + made, client |-> s.client, key |-> args[k].key, session |-> s.id, call |-> k]
JobRow(k, client, s) ==
    [id |-> NewId + made, client |-> client, key |-> args[k].key, session |-> s.id, call |-> k]

(* A new session has the client's id and token, or new ones.               *)
(* Mutant: always a new token.                                             *)
MutNewToken(k, client, token) ==
    [id |-> Or(args[k].target, NewId + made), client |-> client, token |-> NewId + made]
NewSession(k, client, token) ==
    [id |-> Or(args[k].target, NewId + made), client |-> client, token |-> Or(token, NewId + made)]
SessionFor(k, client, token) ==
    LET old == {s \in session : s.id = args[k].target}
    IN  IF old # {} THEN old ELSE {NewSession(k, client, token)}

Create(k, n, client, token) ==
    \E s \in SessionFor(k, client, token) :
        /\ job' = job \cup {JobRow(k, client, s)}
        /\ session' = session \cup {s}
        /\ made' = made + 1
        /\ Replies(k, n, Answer(NewId + made, s))

CreateJob(k, n) ==
    LET token == sent[k][n].token
        client == Or(sent[k][n].client, NewId + made)
    IN  /\ <<k, n>> \in open
        /\ open' = open \ {<<k, n>>}
        /\ IF Refused(k, client, token) THEN Replies(k, n, Nothing) /\ UNCHANGED store
           ELSE IF Stored(k, client) # {} THEN Replay(k, n, client)
           ELSE Create(k, n, client, token)
        /\ UNCHANGED <<capable, sdk, args, sent, mixed>>

(* Workers come and go; retention deletes a session with its jobs.         *)
CapabilityTurns ==
    /\ capable' = ~capable
    /\ UNCHANGED <<store, sdk, args, status, sent, open, reply, mixed>>
RetentionCleanup(s) ==
    /\ session' = session \ {s}
    /\ job' = {j \in job : j.session # s.id}
    /\ UNCHANGED <<made, capable, sdk, args, status, sent, open, reply, mixed>>

Next ==
    \/ \E k \in Call : Submit(k) \/ Fails(k) \/ Answered(k)
    \/ \E r \in open : CreateJob(r[1], r[2])
    \/ CapabilityTurns
    \/ \E s \in session : RetentionCleanup(s)

Spec == Init /\ [][Next]_vars

-----------------------------------------------------------------------------
(* However often a submission with a key is tried, and whatever becomes of *)
(* its requests and replies, there is one job of it, as long as every      *)
(* attempt was sent under the same client id (README.md:721).              *)
SameId(k) == \A n \in 1 .. Tries(k) : sent[k][n].client = sent[k][1].client /\ sent[k][n].client # None
OneJobPerCall ==
    \A k \in Call : args[k].key # None /\ SameId(k) => Cardinality({j \in job : j.call = k}) <= 1

(* Once a submission has its job, no later attempt of it under that client *)
(* id is refused, although the workers that could run it may have left and *)
(* the client object may carry another session's token by then.            *)
RetryIsNotRefused ==
    [][\A k \in Call : status[k] = "waiting" /\ status'[k] = "handled" /\ reply'[k] = Nothing
          => \A j \in job : j.call = k /\ j.key # None => j.client # sent[k][Tries(k)].client]_vars

(* A client object that sees each call through before the next, leaves ids *)
(* and sessions to the manager and takes a new key for each call, finds    *)
(* the sessions of all its answered calls with the credentials it has.     *)
Plain(c) ==
    /\ c \notin mixed
    /\ \A k \in Call : By[k] = c =>
          /\ args[k].named = None /\ args[k].target = None
          /\ args[k].key # None => \A l \in Call : args[l].key = args[k].key => l = k
PatientKeepsAll ==
    \A k \in Call, s \in session :
        Plain(By[k]) /\ status[k] = "answered" /\ s.id = reply[k].session => s \in MySessions(By[k])
=============================================================================
