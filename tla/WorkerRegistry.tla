--------------------------- MODULE WorkerRegistry ---------------------------
(***************************************************************************)
(* What the manager knows of its worker nodes: the tables workers,         *)
(* worker_configs and worker_instance_configs, and the calls that change   *)
(* them.  Nodes send heartbeats or fall silent, operators size, disable,   *)
(* drain and purge, in any order; a row may be missing in any table.       *)
(***************************************************************************)
EXTENDS Naturals, FiniteSets

CONSTANTS Worker,         \* worker_id values
          Executor,       \* the pairs <<node, instance>> that poll; a node of n
                          \* slots runs the instances 1 .. n
          Itself,         \* a lease without instance_id: the node as executor
          Extends,        \* Extends[v]: the w with id(v) = id(w) "-" something
          Type, Tag,      \* task types, worker tags
          AdvertOf,       \* metadata each node sends: types, tags, instance_count
          SizesOf,        \* desired instance counts operators ask for, by node
          MaxSize,        \* MAX_WORKER_CONCURRENCY
          Absent          \* no such row

Metadata == [types : SUBSET Type, tags : SUBSET Tag, slots : 0 .. MaxSize]
InstancesOf(w) == {i \in 1 .. MaxSize : <<w, i>> \in Executor}
NoMetadata == [types |-> {}, tags |-> {}, slots |-> 0]

ASSUME RegistryAssumption ==
    /\ MaxSize \in Nat \ {0}
    /\ Executor \subseteq Worker \X (1 .. MaxSize \cup {Itself})
    /\ Itself \notin 1 .. MaxSize
    /\ Extends \in [Worker -> SUBSET Worker]
    /\ AdvertOf \in [Worker -> SUBSET Metadata]
    /\ SizesOf \in [Worker -> SUBSET (1 .. MaxSize)]
    /\ \A r \in [advert : Metadata, beat : {"fresh", "silent", "stopped"}] : Absent # r
    /\ \A c \in [desired : 1 .. MaxSize, disabled : BOOLEAN, draining : BOOLEAN] : Absent # c

VARIABLES
    worker,     \* workers: the metadata and how old the last heartbeat is
    config,     \* worker_configs
    drained,    \* worker_instance_configs rows with draining = 1
    asked,      \* reads of a configuration that found none, not yet answered
    told        \* history since the node's row was purged: its operators' orders,
                \* and the metadata it sent last

registry == <<worker, config, drained, asked, told>>

WorkerRow == [advert : Metadata, beat : {"fresh", "silent", "stopped"}]
ConfigRow == [desired : 1 .. MaxSize, disabled : BOOLEAN, draining : BOOLEAN]
NewConfig(n) == [desired |-> n, disabled |-> FALSE, draining |-> FALSE]
Told(n, disabled, draining, ad) ==
    [size |-> n, disabled |-> disabled, draining |-> draining, advert |-> ad]
NothingTold == Told(0, FALSE, FALSE, NoMetadata)

RegistryInit ==
    /\ worker = [w \in Worker |-> Absent]
    /\ config = [w \in Worker |-> Absent]
    /\ drained = {}
    /\ asked = {}
    /\ told = [w \in Worker |-> NothingTold]

Known == {w \in Worker : worker[w] # Absent}

-----------------------------------------------------------------------------
(* Nodes.                                                                  *)

(* _metadata_concurrency: a count of 0 counts as not given.                 *)
(* Mutant: a node that has no instances yet is configured for none.        *)
MutZero(ad) == ad.slots
Configured(ad) == IF ad.slots = 0 THEN 1 ELSE ad.slots

(* Mutant: a heartbeat brings a configuration of its own.                   *)
MutFreshConfig(w, n) == [config EXCEPT ![w] = NewConfig(n)]
EnsureConfig(w, n) == IF config[w] = Absent THEN [config EXCEPT ![w] = NewConfig(n)] ELSE config

(* heartbeat_worker, which leaves metadata ad.  The configuration row is    *)
(* made once.                                                              *)
Heartbeat(w, ad, beat) ==
    /\ worker' = [worker EXCEPT ![w] = [advert |-> ad, beat |-> beat]]
    /\ config' = EnsureConfig(w, Configured(ad))
    /\ UNCHANGED <<drained, asked>>
Advertises(w, ad, beat) ==
    /\ Heartbeat(w, ad, beat)
    /\ told' = [told EXCEPT ![w] = Told(@.size, @.disabled, @.draining, ad)]

(* heartbeat_worker without metadata: a status report keeps what the row   *)
(* says of capabilities.                                                   *)
(* Mutant: it clears them.                                                 *)
MutErases(w) == NoMetadata
Advertised(w) == IF w \in Known THEN worker[w].advert ELSE NoMetadata
StatusHeartbeat(w) == Heartbeat(w, Advertised(w), "fresh") /\ UNCHANGED told

(* The last heartbeat of a node that is shut down: no instances are left.  *)
SaysStopped(w, ad) == Advertises(w, [types |-> ad.types, tags |-> ad.tags, slots |-> 0], "stopped")

(* The active window passes without a heartbeat.                           *)
GoesSilent(w) ==
    /\ w \in Known
    /\ worker[w].beat = "fresh"
    /\ worker' = [worker EXCEPT ![w] = [advert |-> @.advert, beat |-> "silent"]]
    /\ UNCHANGED <<config, drained, asked, told>>

(* The first lines of both lease calls: a node without a row gets an empty *)
(* one, and a configuration of n instances unless it has one.              *)
Registered(w) ==
    IF w \in Known THEN worker
    ELSE [worker EXCEPT ![w] = [advert |-> NoMetadata, beat |-> "fresh"]]
RegisterForLease(w, n) ==
    /\ worker' = Registered(w)
    /\ config' = IF w \in Known THEN config ELSE EnsureConfig(w, n)
    /\ UNCHANGED <<drained, asked, told>>

-----------------------------------------------------------------------------
(* Operators.  Each of these makes a configuration row for one instance if *)
(* there is none, also for a node that was never seen.                     *)

Ordered(w) == EnsureConfig(w, 1)[w]

Resized(w, n) ==
    /\ config' = [config EXCEPT ![w] = [desired |-> n, disabled |-> Ordered(w).disabled,
                                        draining |-> Ordered(w).draining]]
    /\ told' = [told EXCEPT ![w] = Told(n, @.disabled, @.draining, @.advert)]
    /\ UNCHANGED <<worker, drained>>
SetConfig(w, n) == Resized(w, n) /\ UNCHANGED asked

(* get_worker_config answers a read that finds no row by an order of its   *)
(* own, for one instance.  It comes in another transaction than the read,  *)
(* so that it also overrules a size that was ordered in between.           *)
FindsNoConfig(w) ==
    /\ config[w] = Absent
    /\ asked' = asked \cup {w}
    /\ UNCHANGED <<worker, config, drained, told>>
AnswersDefault(w) ==
    /\ Resized(w, 1)
    /\ asked' = asked \ {w}

(* set_worker_enabled; set_workers_enabled is one such call per node.       *)
SetDisabled(w, disabled) ==
    /\ config' = [config EXCEPT ![w] = [desired |-> Ordered(w).desired, disabled |-> disabled,
                                        draining |-> Ordered(w).draining]]
    /\ told' = [told EXCEPT ![w] = Told(@.size, disabled, @.draining, @.advert)]
    /\ UNCHANGED <<worker, drained, asked>>

SetDraining(w, draining) ==
    /\ config' = [config EXCEPT ![w] = [desired |-> Ordered(w).desired,
                                        disabled |-> Ordered(w).disabled, draining |-> draining]]
    /\ told' = [told EXCEPT ![w] = Told(@.size, @.disabled, draining, @.advert)]
    /\ UNCHANGED <<worker, drained, asked>>

SetInstanceDraining(w, i, draining) ==
    /\ config' = EnsureConfig(w, 1)
    /\ drained' = IF draining THEN drained \cup {<<w, i>>} ELSE drained \ {<<w, i>>}
    /\ UNCHANGED <<worker, asked, told>>

-----------------------------------------------------------------------------
(* _worker_is_active, for the default window: "silent" is silent for longer.*)
Beating(w) == worker[w].beat = "fresh"
Blocked(c) == c # Absent /\ (c.disabled \/ c.draining)
(* _worker_capability_row's "active".                                      *)
Active(w) == w \in Known /\ Beating(w) /\ ~Blocked(config[w])

(* purge_offline_workers, in a window that the nodes in stale have missed: *)
(* an operator may name a shorter or a longer one than the default, so     *)
(* that only stopped nodes are stale in any.  The call reads workers       *)
(* without their configurations, so that disabling and draining play no    *)
(* part; nodes in busy are skipped.  Rows of drained instances stay.       *)
StaleSets == {stale \in SUBSET Known : \A w \in Known : worker[w].beat = "stopped" => w \in stale}
Purge(stale, busy) ==
    LET gone == stale \ busy
    IN  /\ worker' = [w \in Worker |-> IF w \in gone THEN Absent ELSE worker[w]]
        /\ config' = [w \in Worker |-> IF w \in gone THEN Absent ELSE config[w]]
        /\ told' = [w \in Worker |-> IF w \in gone THEN NothingTold ELSE told[w]]
        /\ UNCHANGED <<drained, asked>>

-----------------------------------------------------------------------------
NodeStep ==
    \E w \in Worker :
        \/ \E ad \in AdvertOf[w] : Advertises(w, ad, "fresh") \/ SaysStopped(w, ad)
        \/ StatusHeartbeat(w) \/ GoesSilent(w)
AnswerStep == \E w \in asked : AnswersDefault(w)

OrderStep ==
    \E w \in Worker :
        \/ FindsNoConfig(w)
        \/ \E n \in SizesOf[w] : SetConfig(w, n)
        \/ \E b \in BOOLEAN : SetDisabled(w, b) \/ SetDraining(w, b)
        \/ \E i \in InstancesOf(w), b \in BOOLEAN : SetInstanceDraining(w, i, b)

-----------------------------------------------------------------------------
RegistryTypeOK ==
    /\ worker \in [Worker -> WorkerRow \cup {Absent}]
    /\ config \in [Worker -> ConfigRow \cup {Absent}]
    /\ drained \subseteq Executor
    /\ asked \subseteq Worker
    /\ told \in [Worker -> [size : 0 .. MaxSize, disabled : BOOLEAN, draining : BOOLEAN,
                            advert : Metadata]]

(* What was last said of a node's size, disabling and draining is what its *)
(* configuration says, and its capabilities are the last it sent, whatever *)
(* heartbeats, leases of unknown nodes and other orders came in between:   *)
(* only a purge forgets them.  A default answer counts as an order of size *)
(* here: this does not say that it leaves an operator's size alone.        *)
OrdersStand ==
    \A w \in Worker :
        /\ told[w].size # 0 => config[w] # Absent /\ config[w].desired = told[w].size
        /\ told[w].disabled <=> config[w] # Absent /\ config[w].disabled
        /\ told[w].draining <=> config[w] # Absent /\ config[w].draining
        /\ told[w].advert = Advertised(w)
=============================================================================
