--------------------------- MODULE DispatchProofs ---------------------------
(* Theorems about the registry of nodes and the leases that consult it, for *)
(* any number of nodes, instances, jobs and tasks.                          *)
EXTENDS Dispatch, FiniteSetTheorems, TLAPS

Registry == RegistryTypeOK /\ OrdersStand

-----------------------------------------------------------------------------
(* The registry: every call that writes it keeps it well typed and keeps   *)
(* what operators and nodes said.                                          *)

LEMMA ConfigRows ==
    ASSUME RegistryTypeOK, NEW w \in Worker, NEW n \in 1 .. MaxSize
    PROVE  /\ NewConfig(n) \in ConfigRow
           /\ NewConfig(n) # Absent
           /\ EnsureConfig(w, n) \in [Worker -> ConfigRow \cup {Absent}]
           /\ EnsureConfig(w, n)[w] \in ConfigRow
BY RegistryAssumption DEF RegistryTypeOK, NewConfig, ConfigRow, EnsureConfig

LEMMA Adverts ==
    ASSUME RegistryTypeOK, NEW w \in Worker
    PROVE  /\ NoMetadata \in Metadata
           /\ Advertised(w) \in Metadata
           /\ \A ad \in Metadata : Configured(ad) \in 1 .. MaxSize
<1>1. NoMetadata \in Metadata
  BY RegistryAssumption DEF NoMetadata, Metadata
<1>2. Advertised(w) \in Metadata
  BY <1>1 DEF RegistryTypeOK, Advertised, Known, WorkerRow
<1>3. \A ad \in Metadata : Configured(ad) \in 1 .. MaxSize
  BY RegistryAssumption DEF Metadata, Configured
<1> QED
  BY <1>1, <1>2, <1>3

LEMMA RegistryStarts == RegistryInit => Registry
<1> SUFFICES ASSUME RegistryInit PROVE Registry
  OBVIOUS
<1>1. NoMetadata \in Metadata
  BY RegistryAssumption DEF NoMetadata, Metadata
<1>2. RegistryTypeOK
  BY <1>1, RegistryAssumption DEF RegistryInit, RegistryTypeOK, NothingTold, Told
<1>3. OrdersStand
  BY DEF RegistryInit, OrdersStand, NothingTold, Told, Advertised, Known
<1> QED
  BY <1>2, <1>3 DEF Registry

(* A heartbeat of either kind, given what it makes of the history.         *)
LEMMA HeartbeatKeepsRegistry ==
    ASSUME Registry, NEW w \in Worker, NEW ad \in Metadata, NEW beat \in {"fresh", "silent", "stopped"},
           Heartbeat(w, ad, beat),
           \/ told' = [told EXCEPT ![w] = Told(@.size, @.disabled, @.draining, ad)]
           \/ ad = Advertised(w) /\ UNCHANGED told
    PROVE  Registry'
<1> DEFINE row == [advert |-> ad, beat |-> beat]
<1>1. row \in WorkerRow /\ row # Absent
  BY RegistryAssumption DEF WorkerRow
<1>2. Configured(ad) \in 1 .. MaxSize
  BY Adverts DEF Registry
<1>3. /\ worker' = [worker EXCEPT ![w] = row]
      /\ config' = IF config[w] = Absent THEN [config EXCEPT ![w] = NewConfig(Configured(ad))] ELSE config
      /\ drained' = drained /\ asked' = asked
  BY DEF Heartbeat, EnsureConfig
<1>4. NewConfig(Configured(ad)) \in ConfigRow /\ NewConfig(Configured(ad)) # Absent
  BY <1>2, ConfigRows DEF Registry
<1>5. RegistryTypeOK'
  <2>1. worker' \in [Worker -> WorkerRow \cup {Absent}]
    BY <1>1, <1>3 DEF Registry, RegistryTypeOK
  <2>2. config' \in [Worker -> ConfigRow \cup {Absent}]
    BY <1>3, <1>4 DEF Registry, RegistryTypeOK
  <2>3. told' \in [Worker -> [size : 0 .. MaxSize, disabled : BOOLEAN, draining : BOOLEAN, advert : Metadata]]
    BY DEF Registry, RegistryTypeOK, Told
  <2> QED
    BY <1>3, <2>1, <2>2, <2>3 DEF Registry, RegistryTypeOK
<1>6. OrdersStand'
  <2> SUFFICES ASSUME NEW v \in Worker
               PROVE  /\ told'[v].size # 0 => config'[v] # Absent /\ config'[v].desired = told'[v].size
                      /\ told'[v].disabled <=> config'[v] # Absent /\ config'[v].disabled
                      /\ told'[v].draining <=> config'[v] # Absent /\ config'[v].draining
                      /\ told'[v].advert = Advertised(v)'
    BY DEF OrdersStand
  <2>1. /\ told'[v].size = told[v].size /\ told'[v].disabled = told[v].disabled
        /\ told'[v].draining = told[v].draining
        /\ told'[v].advert = IF v = w THEN ad ELSE told[v].advert
    BY DEF Registry, RegistryTypeOK, OrdersStand, Told
  <2>2. Advertised(v)' = IF v = w THEN ad ELSE Advertised(v)
    BY <1>1, <1>3 DEF Registry, RegistryTypeOK, Advertised, Known
  <2>3. config'[v] = IF v = w /\ config[v] = Absent THEN NewConfig(Configured(ad)) ELSE config[v]
    BY <1>3 DEF Registry, RegistryTypeOK
  <2>4. ~NewConfig(Configured(ad)).disabled /\ ~NewConfig(Configured(ad)).draining
    BY DEF NewConfig
  <2> QED
    BY <1>4, <2>1, <2>2, <2>3, <2>4 DEF Registry, OrdersStand
<1> QED
  BY <1>5, <1>6 DEF Registry

LEMMA NodesKeepRegistry == ASSUME Registry, NodeStep PROVE Registry'
<1>1. CASE \E w \in Worker : \E ad \in AdvertOf[w] : Advertises(w, ad, "fresh")
  <2> PICK w \in Worker : \E ad \in AdvertOf[w] : Advertises(w, ad, "fresh")
    BY <1>1
  <2> PICK ad \in AdvertOf[w] : Advertises(w, ad, "fresh")
    OBVIOUS
  <2>1. ad \in Metadata
    BY RegistryAssumption
  <2> QED
    BY <2>1, HeartbeatKeepsRegistry DEF Advertises
<1>2. CASE \E w \in Worker : \E ad \in AdvertOf[w] : SaysStopped(w, ad)
  <2> PICK w \in Worker : \E ad \in AdvertOf[w] : SaysStopped(w, ad)
    BY <1>2
  <2> PICK ad \in AdvertOf[w] : SaysStopped(w, ad)
    OBVIOUS
  <2>1. [types |-> ad.types, tags |-> ad.tags, slots |-> 0] \in Metadata
    BY RegistryAssumption DEF Metadata
  <2> QED
    BY <2>1, HeartbeatKeepsRegistry DEF SaysStopped, Advertises
<1>3. CASE \E w \in Worker : StatusHeartbeat(w)
  <2> PICK w \in Worker : StatusHeartbeat(w)
    BY <1>3
  <2>1. Advertised(w) \in Metadata
    BY Adverts DEF Registry
  <2> QED
    BY <2>1, HeartbeatKeepsRegistry DEF StatusHeartbeat
<1>4. CASE \E w \in Worker : GoesSilent(w)
  <2> PICK w \in Worker : GoesSilent(w)
    BY <1>4
  <2> DEFINE row == [advert |-> worker[w].advert, beat |-> "silent"]
  <2>1. /\ row \in WorkerRow /\ row # Absent /\ row.advert = worker[w].advert
        /\ worker[w] # Absent /\ worker' = [worker EXCEPT ![w] = row]
    BY RegistryAssumption DEF GoesSilent, Known, Registry, RegistryTypeOK, WorkerRow
  <2>2. UNCHANGED <<config, drained, asked, told>>
    BY DEF GoesSilent
  <2> HIDE DEF row
  <2>3. RegistryTypeOK'
    BY <2>1, <2>2 DEF Registry, RegistryTypeOK
  <2>4. \A v \in Worker : Advertised(v)' = Advertised(v)
    BY <2>1 DEF Registry, RegistryTypeOK, Advertised, Known
  <2>5. OrdersStand'
    BY <2>2, <2>4 DEF Registry, OrdersStand
  <2> QED
    BY <2>3, <2>5 DEF Registry
<1> QED
  BY <1>1, <1>2, <1>3, <1>4 DEF NodeStep

(* An order writes one configuration row and what it says into the history.*)
LEMMA OrderKeepsRegistry ==
    ASSUME Registry, NEW w \in Worker,
           NEW new \in ConfigRow, NEW says \in [size : 0 .. MaxSize, disabled : BOOLEAN,
                                                draining : BOOLEAN, advert : Metadata],
           config' = [config EXCEPT ![w] = new], told' = [told EXCEPT ![w] = says],
           UNCHANGED worker, drained' \subseteq Executor, asked' \subseteq Worker,
           says.size # 0 => new.desired = says.size,
           says.disabled = new.disabled, says.draining = new.draining,
           says.advert = told[w].advert
    PROVE  Registry'
<1>1. new # Absent
  BY RegistryAssumption DEF ConfigRow
<1>2. RegistryTypeOK'
  BY DEF Registry, RegistryTypeOK
<1>3. \A v \in Worker : Advertised(v)' = Advertised(v)
  BY DEF Advertised, Known
<1>4. OrdersStand'
  <2> SUFFICES ASSUME NEW v \in Worker
               PROVE  /\ told'[v].size # 0 => config'[v] # Absent /\ config'[v].desired = told'[v].size
                      /\ told'[v].disabled <=> config'[v] # Absent /\ config'[v].disabled
                      /\ told'[v].draining <=> config'[v] # Absent /\ config'[v].draining
                      /\ told'[v].advert = Advertised(v)'
    BY DEF OrdersStand
  <2>1. CASE v = w
    <3>1. told'[v] = says /\ config'[v] = new
      BY <2>1 DEF Registry, RegistryTypeOK
    <3>2. says.advert = Advertised(v)'
      BY <1>3, <2>1 DEF Registry, OrdersStand
    <3> QED
      BY <1>1, <3>1, <3>2
  <2>2. CASE v # w
    <3>1. told'[v] = told[v] /\ config'[v] = config[v]
      BY <2>2 DEF Registry, RegistryTypeOK
    <3> QED
      BY <1>3, <3>1 DEF Registry, OrdersStand
  <2> QED
    BY <2>1, <2>2
<1> QED
  BY <1>2, <1>4 DEF Registry

LEMMA OrderedRow ==
    ASSUME Registry, NEW w \in Worker
    PROVE  /\ Ordered(w) \in ConfigRow
           /\ Ordered(w).disabled = told[w].disabled
           /\ Ordered(w).draining = told[w].draining
           /\ told[w].size # 0 => Ordered(w).desired = told[w].size
<1>1. 1 \in 1 .. MaxSize
  BY RegistryAssumption
<1>2. Ordered(w) \in ConfigRow
  BY <1>1, ConfigRows DEF Registry, Ordered
<1>3. Ordered(w) = IF config[w] = Absent THEN NewConfig(1) ELSE config[w]
  BY DEF Registry, RegistryTypeOK, Ordered, EnsureConfig
<1>4. told[w].disabled \in BOOLEAN /\ told[w].draining \in BOOLEAN
  BY DEF Registry, RegistryTypeOK
<1>5. Ordered(w).disabled \in BOOLEAN /\ Ordered(w).draining \in BOOLEAN
  BY <1>2 DEF ConfigRow
<1>6. CASE config[w] = Absent
  <2>1. Ordered(w) = NewConfig(1) /\ ~told[w].disabled /\ ~told[w].draining /\ told[w].size = 0
    BY <1>3, <1>6 DEF Registry, OrdersStand
  <2>2. Ordered(w).disabled = FALSE /\ Ordered(w).draining = FALSE
    BY <2>1 DEF NewConfig
  <2>3. told[w].disabled = FALSE /\ told[w].draining = FALSE
    BY <1>4, <2>1
  <2> QED
    BY <1>2, <2>1, <2>2, <2>3
<1>7. CASE config[w] # Absent
  BY <1>2, <1>3, <1>4, <1>5, <1>7 DEF Registry, OrdersStand
<1> QED
  BY <1>2, <1>6, <1>7

LEMMA ResizeKeepsRegistry ==
    ASSUME Registry, NEW w \in Worker, NEW n \in 1 .. MaxSize, Resized(w, n),
           asked' \subseteq Worker
    PROVE  Registry'
<1> DEFINE new == [desired |-> n, disabled |-> Ordered(w).disabled, draining |-> Ordered(w).draining]
           says == Told(n, told[w].disabled, told[w].draining, told[w].advert)
<1>1. new \in ConfigRow
  BY OrderedRow DEF ConfigRow
<1>2. says \in [size : 0 .. MaxSize, disabled : BOOLEAN, draining : BOOLEAN, advert : Metadata]
  BY DEF Registry, RegistryTypeOK, Told
<1>3. config' = [config EXCEPT ![w] = new] /\ told' = [told EXCEPT ![w] = says] /\ UNCHANGED worker
  BY DEF Resized, Registry, RegistryTypeOK
<1>4. drained' \subseteq Executor
  BY DEF Resized, Registry, RegistryTypeOK
<1>5. /\ says.size # 0 => new.desired = says.size
      /\ says.disabled = new.disabled /\ says.draining = new.draining
      /\ says.advert = told[w].advert
  BY OrderedRow DEF Told
<1> HIDE DEF new, says
<1> QED
  BY <1>1, <1>2, <1>3, <1>4, <1>5, OrderKeepsRegistry

LEMMA DisableKeepsRegistry ==
    ASSUME Registry, NEW w \in Worker, NEW b \in BOOLEAN, SetDisabled(w, b)
    PROVE  Registry'
<1> DEFINE new == [desired |-> Ordered(w).desired, disabled |-> b, draining |-> Ordered(w).draining]
           says == Told(told[w].size, b, told[w].draining, told[w].advert)
<1>1. new \in ConfigRow
  BY OrderedRow DEF ConfigRow
<1>2. says \in [size : 0 .. MaxSize, disabled : BOOLEAN, draining : BOOLEAN, advert : Metadata]
  BY DEF Registry, RegistryTypeOK, Told
<1>3. config' = [config EXCEPT ![w] = new] /\ told' = [told EXCEPT ![w] = says] /\ UNCHANGED worker
  BY DEF SetDisabled, Registry, RegistryTypeOK
<1>4. drained' \subseteq Executor /\ asked' \subseteq Worker
  BY DEF SetDisabled, Registry, RegistryTypeOK
<1>5. /\ says.size # 0 => new.desired = says.size
      /\ says.disabled = new.disabled /\ says.draining = new.draining
      /\ says.advert = told[w].advert
  BY OrderedRow DEF Told
<1> HIDE DEF new, says
<1> QED
  BY <1>1, <1>2, <1>3, <1>4, <1>5, OrderKeepsRegistry

LEMMA DrainKeepsRegistry ==
    ASSUME Registry, NEW w \in Worker, NEW b \in BOOLEAN, SetDraining(w, b)
    PROVE  Registry'
<1> DEFINE new == [desired |-> Ordered(w).desired, disabled |-> Ordered(w).disabled, draining |-> b]
           says == Told(told[w].size, told[w].disabled, b, told[w].advert)
<1>1. new \in ConfigRow
  BY OrderedRow DEF ConfigRow
<1>2. says \in [size : 0 .. MaxSize, disabled : BOOLEAN, draining : BOOLEAN, advert : Metadata]
  BY DEF Registry, RegistryTypeOK, Told
<1>3. config' = [config EXCEPT ![w] = new] /\ told' = [told EXCEPT ![w] = says] /\ UNCHANGED worker
  BY DEF SetDraining, Registry, RegistryTypeOK
<1>4. drained' \subseteq Executor /\ asked' \subseteq Worker
  BY DEF SetDraining, Registry, RegistryTypeOK
<1>5. /\ says.size # 0 => new.desired = says.size
      /\ says.disabled = new.disabled /\ says.draining = new.draining
      /\ says.advert = told[w].advert
  BY OrderedRow DEF Told
<1> HIDE DEF new, says
<1> QED
  BY <1>1, <1>2, <1>3, <1>4, <1>5, OrderKeepsRegistry

(* The insert that leaves an existing row alone says nothing of the node.  *)
LEMMA EnsureKeepsRegistry ==
    ASSUME Registry, NEW w \in Worker, NEW n \in 1 .. MaxSize,
           config' \in {config, EnsureConfig(w, n)}, UNCHANGED told,
           \A v \in Worker : Advertised(v)' = Advertised(v),
           worker' \in [Worker -> WorkerRow \cup {Absent}],
           drained' \subseteq Executor, asked' \subseteq Worker
    PROVE  Registry'
<1>1. NewConfig(n) # Absent /\ EnsureConfig(w, n) \in [Worker -> ConfigRow \cup {Absent}]
  BY ConfigRows DEF Registry
<1>2. RegistryTypeOK'
  BY <1>1 DEF Registry, RegistryTypeOK
<1>3. \A v \in Worker : \/ config'[v] = config[v]
                        \/ config[v] = Absent /\ config'[v] = NewConfig(n)
  BY DEF EnsureConfig, Registry, RegistryTypeOK
<1>4. ~NewConfig(n).disabled /\ ~NewConfig(n).draining
  BY DEF NewConfig
<1>5. OrdersStand'
  BY <1>1, <1>3, <1>4 DEF Registry, OrdersStand
<1> QED
  BY <1>2, <1>5 DEF Registry

LEMMA OrdersKeepRegistry == ASSUME Registry, OrderStep PROVE Registry'
<1> PICK w \in Worker :
       \/ FindsNoConfig(w)
       \/ \E n \in SizesOf[w] : SetConfig(w, n)
       \/ \E b \in BOOLEAN : SetDisabled(w, b) \/ SetDraining(w, b)
       \/ \E i \in InstancesOf(w), b \in BOOLEAN : SetInstanceDraining(w, i, b)
  BY DEF OrderStep
<1>1. CASE FindsNoConfig(w)
  <2>1. 1 \in 1 .. MaxSize /\ (\A v \in Worker : Advertised(v)' = Advertised(v))
    BY <1>1, RegistryAssumption DEF FindsNoConfig, Advertised, Known
  <2> QED
    BY <1>1, <2>1, EnsureKeepsRegistry DEF FindsNoConfig, Registry, RegistryTypeOK
<1>2. CASE \E n \in SizesOf[w] : SetConfig(w, n)
  <2> PICK n \in SizesOf[w] : SetConfig(w, n)
    BY <1>2
  <2>1. n \in 1 .. MaxSize
    BY RegistryAssumption
  <2>2. Resized(w, n) /\ asked' \subseteq Worker
    BY DEF SetConfig, Registry, RegistryTypeOK
  <2> QED
    BY <2>1, <2>2, ResizeKeepsRegistry
<1>3. CASE \E b \in BOOLEAN : SetDisabled(w, b) \/ SetDraining(w, b)
  BY <1>3, DisableKeepsRegistry, DrainKeepsRegistry
<1>4. CASE \E i \in InstancesOf(w), b \in BOOLEAN : SetInstanceDraining(w, i, b)
  <2> PICK i \in InstancesOf(w), b \in BOOLEAN : SetInstanceDraining(w, i, b)
    BY <1>4
  <2>1. 1 \in 1 .. MaxSize /\ (\A v \in Worker : Advertised(v)' = Advertised(v))
    BY RegistryAssumption DEF SetInstanceDraining, Advertised, Known
  <2>2. drained' \subseteq Executor /\ asked' \subseteq Worker
    BY DEF SetInstanceDraining, InstancesOf, Registry, RegistryTypeOK
  <2>3. config' = EnsureConfig(w, 1) /\ UNCHANGED told /\ worker' \in [Worker -> WorkerRow \cup {Absent}]
    BY DEF SetInstanceDraining, Registry, RegistryTypeOK
  <2> QED
    BY <2>1, <2>2, <2>3, EnsureKeepsRegistry
<1> QED
  BY <1>1, <1>2, <1>3, <1>4

LEMMA AnswersKeepRegistry == ASSUME Registry, AnswerStep PROVE Registry'
<1> PICK w \in asked : AnswersDefault(w)
  BY DEF AnswerStep
<1>1. w \in Worker /\ 1 \in 1 .. MaxSize
  BY RegistryAssumption DEF Registry, RegistryTypeOK
<1>2. Resized(w, 1) /\ asked' \subseteq Worker
  BY DEF AnswersDefault, Registry, RegistryTypeOK
<1> QED
  BY <1>1, <1>2, ResizeKeepsRegistry

(* The registration that a lease begins with, and what a lease then reads. *)
LEMMA RegistrationKeepsRegistry ==
    ASSUME Registry, NEW w \in Worker, NEW n \in 1 .. MaxSize, RegisterForLease(w, n)
    PROVE  Registry'
<1>1. [advert |-> NoMetadata, beat |-> "fresh"] \in WorkerRow
      /\ [advert |-> NoMetadata, beat |-> "fresh"] # Absent
  BY Adverts, RegistryAssumption DEF WorkerRow, Registry
<1>2. worker' \in [Worker -> WorkerRow \cup {Absent}]
  BY <1>1 DEF RegisterForLease, Registered, Registry, RegistryTypeOK
<1>3. \A v \in Worker : Advertised(v)' = Advertised(v)
  BY <1>1 DEF RegisterForLease, Registered, Registry, RegistryTypeOK, Advertised, Known
<1>4. config' \in {config, EnsureConfig(w, n)} /\ UNCHANGED told
  BY DEF RegisterForLease
<1>5. drained' \subseteq Executor /\ asked' \subseteq Worker
  BY DEF RegisterForLease, Registry, RegistryTypeOK
<1> QED
  BY <1>2, <1>3, <1>4, <1>5, EnsureKeepsRegistry

LEMMA LeaseReadsWhatWasTold ==
    ASSUME Registry, NEW w \in Worker
    PROVE  /\ Registered(w)[w].advert = told[w].advert
           /\ ~Blocked(config[w]) => ~told[w].disabled /\ ~told[w].draining
<1>1. Registered(w)[w].advert = Advertised(w)
  BY DEF Registered, Advertised, Known, Registry, RegistryTypeOK
<1> QED
  BY <1>1 DEF Registry, OrdersStand, Blocked

LEMMA PurgeKeepsRegistry ==
    ASSUME Registry, NEW stale, NEW busy, Purge(stale, busy)
    PROVE  Registry'
<1> DEFINE gone == stale \ busy
<1>1. /\ worker' = [w \in Worker |-> IF w \in gone THEN Absent ELSE worker[w]]
      /\ config' = [w \in Worker |-> IF w \in gone THEN Absent ELSE config[w]]
      /\ told' = [w \in Worker |-> IF w \in gone THEN NothingTold ELSE told[w]]
      /\ UNCHANGED <<drained, asked>>
  BY DEF Purge
<1> HIDE DEF gone
<1>2. NothingTold \in [size : 0 .. MaxSize, disabled : BOOLEAN, draining : BOOLEAN, advert : Metadata]
  <2>1. NoMetadata \in Metadata
    BY RegistryAssumption DEF NoMetadata, Metadata
  <2> QED
    BY <2>1, RegistryAssumption DEF NothingTold, Told
<1>3. RegistryTypeOK'
  BY <1>1, <1>2 DEF Registry, RegistryTypeOK
<1>4. OrdersStand'
  <2> SUFFICES ASSUME NEW v \in Worker
               PROVE  /\ told'[v].size # 0 => config'[v] # Absent /\ config'[v].desired = told'[v].size
                      /\ told'[v].disabled <=> config'[v] # Absent /\ config'[v].disabled
                      /\ told'[v].draining <=> config'[v] # Absent /\ config'[v].draining
                      /\ told'[v].advert = Advertised(v)'
    BY DEF OrdersStand
  <2>1. CASE v \in gone
    <3>1. config'[v] = Absent /\ worker'[v] = Absent /\ told'[v] = NothingTold
      BY <1>1, <2>1
    <3>2. Advertised(v)' = NoMetadata
      BY <3>1 DEF Advertised, Known
    <3> QED
      BY <3>1, <3>2 DEF NothingTold, Told
  <2>2. CASE v \notin gone
    <3>1. config'[v] = config[v] /\ worker'[v] = worker[v] /\ told'[v] = told[v]
      BY <1>1, <2>2
    <3>2. Advertised(v)' = Advertised(v)
      BY <3>1 DEF Advertised, Known
    <3> QED
      BY <3>1, <3>2 DEF Registry, OrdersStand
  <2> QED
    BY <2>1, <2>2
<1> QED
  BY <1>3, <1>4 DEF Registry

-----------------------------------------------------------------------------
(* What a lease does: it gives some of the tasks it takes to executors of  *)
(* one node.                                                               *)

TaskRow == [status : {"absent", "queued", "running"}, priority : Priority \cup {0},
            owner : Executor \cup {NoOwner}]
TasksTyped == /\ task \in [Task -> TaskRow]
              /\ \A t \in Task : task[t].status = "running" <=> task[t].owner # NoOwner

GivesOut(w, n, takes, give) ==
    /\ takes \in {{}, Taken(told[w].advert, n)}
    /\ give \in [takes -> Executor]
    /\ HandOut(give)
    /\ \A t \in takes : give[t][1] = w /\ give[t] \notin drained
    /\ takes # {} => ~told[w].disabled /\ ~told[w].draining

LEMMA TakenIsQueued == \A ad : \A n : Taken(ad, n) \subseteq Leaseable /\ Leaseable \subseteq Queued
                                      /\ Queued \subseteq Task
BY DEF Taken, Best, Window, Leaseable, Queued, InStatus

LEMMA SingleLease ==
    ASSUME Registry, NEW w \in Worker, NEW e \in Executor, NEW n \in 1 .. LeaseLimit,
           e[1] = w, LeaseTasks(w, e[2], n)
    PROVE  /\ Registry' /\ UNCHANGED <<job, session, commands>>
           /\ \E takes, give : GivesOut(w, n, takes, give)
<1> DEFINE takes == IF Blocked(config[w]) \/ <<w, e[2]>> \in drained THEN {}
                    ELSE Taken(Registered(w)[w].advert, n)
           give == [t \in takes |-> <<w, e[2]>>]
<1>1. RegisterForLease(w, 1) /\ HandOut(give) /\ UNCHANGED <<job, session, commands>>
  BY DEF LeaseTasks
<1>2. Registry'
  <2>1. 1 \in 1 .. MaxSize
    BY RegistryAssumption
  <2> QED
    BY <1>1, <2>1, RegistrationKeepsRegistry
<1>3. <<w, e[2]>> = e
  BY RegistryAssumption
<1>4. GivesOut(w, n, takes, give)
  BY <1>1, <1>3, LeaseReadsWhatWasTold DEF GivesOut
<1> QED
  BY <1>1, <1>2, <1>4

LEMMA BatchSize ==
    ASSUME NEW w \in Worker, NEW I \in SUBSET InstancesOf(w), I # {}
    PROVE  IsFiniteSet(I) /\ Cardinality(I) \in 1 .. MaxSize
<1>1. IsFiniteSet(1 .. MaxSize) /\ Cardinality(1 .. MaxSize) = MaxSize
  <2>1. MaxSize \in Nat /\ MaxSize - 1 + 1 = MaxSize /\ 1 <= MaxSize
    BY RegistryAssumption
  <2> QED
    BY <2>1, FS_Interval
<1>2. I \in SUBSET (1 .. MaxSize)
  BY DEF InstancesOf
<1>3. IsFiniteSet(I) /\ Cardinality(I) <= MaxSize
  BY <1>1, <1>2, FS_Subset
<1>4. Cardinality(I) \in Nat /\ Cardinality(I) # 0
  BY <1>3, FS_CardinalityType, FS_EmptySet
<1> QED
  BY <1>3, <1>4, RegistryAssumption

LEMMA BatchLease ==
    ASSUME Registry, NEW w \in Worker, NEW I \in SUBSET InstancesOf(w), I # {},
           LeaseForInstances(w, I)
    PROVE  /\ Registry' /\ UNCHANGED <<job, session, commands>>
           /\ \E n \in Nat : \E takes, give : GivesOut(w, n, takes, give)
<1> DEFINE free == IF Blocked(config[w]) THEN {} ELSE Undrained(w, I)
           n == Cardinality(free)
           takes == Taken(Registered(w)[w].advert, n)
<1>1. /\ RegisterForLease(w, Cardinality(I)) /\ UNCHANGED <<job, session, commands>>
      /\ \E to \in [takes -> free] : HandOut([t \in takes |-> <<w, to[t]>>])
  BY DEF LeaseForInstances
<1>2. IsFiniteSet(I) /\ Cardinality(I) \in 1 .. MaxSize
  BY BatchSize
<1>3. free \subseteq I
  BY DEF Undrained
<1>4. \A i \in I : i \in 1 .. MaxSize /\ <<w, i>> \in Executor
  BY DEF InstancesOf
<1>5. Registry'
  BY <1>1, <1>2, RegistrationKeepsRegistry
<1>6. n \in Nat
  <2>1. IsFiniteSet(free)
    BY <1>2, <1>3, FS_Subset
  <2> QED
    BY <2>1, FS_CardinalityType
<1> PICK to \in [takes -> free] : HandOut([t \in takes |-> <<w, to[t]>>])
  BY <1>1
<1> DEFINE give == [t \in takes |-> <<w, to[t]>>]
<1>7. \A i \in free : <<w, i>> \in Executor /\ <<w, i>> \notin drained
  BY <1>3 DEF InstancesOf, Undrained
<1>8. give \in [takes -> Executor] /\ \A t \in takes : give[t][1] = w /\ give[t] \notin drained
  BY <1>7
<1>9. takes = Taken(told[w].advert, n)
  BY LeaseReadsWhatWasTold
<1>10. takes # {} => ~told[w].disabled /\ ~told[w].draining
  <2>1. CASE Blocked(config[w])
    <3>1. free = {}
      BY <2>1
    <3>2. takes = {}
      BY <3>1
    <3> QED
      BY <3>2
  <2>2. CASE ~Blocked(config[w])
    BY <2>2, LeaseReadsWhatWasTold
  <2> QED
    BY <2>1, <2>2
<1>11. GivesOut(w, n, takes, give)
  BY <1>8, <1>9, <1>10 DEF GivesOut
<1> QED
  BY <1>1, <1>5, <1>6, <1>11

LEMMA LeaseGives ==
    ASSUME Registry, NEW w \in Worker, LeaseStep(w)
    PROVE  /\ Registry' /\ UNCHANGED <<job, session, commands>>
           /\ \E n \in Nat : \E takes, give : GivesOut(w, n, takes, give)
<1>1. CASE \E e \in Executor, n \in 1 .. LeaseLimit : e[1] = w /\ LeaseTasks(w, e[2], n)
  <2> PICK e \in Executor, n \in 1 .. LeaseLimit : e[1] = w /\ LeaseTasks(w, e[2], n)
    BY <1>1
  <2>1. n \in Nat
    OBVIOUS
  <2> QED
    BY <2>1, SingleLease
<1>2. CASE \E I \in SUBSET InstancesOf(w) : I # {} /\ LeaseForInstances(w, I)
  BY <1>2, BatchLease
<1> QED
  BY <1>1, <1>2 DEF LeaseStep

LEMMA GiftsKeepTypes ==
    ASSUME TasksTyped, NEW w, NEW n, NEW takes, NEW give, GivesOut(w, n, takes, give)
    PROVE  TasksTyped'
<1>1. takes \subseteq Queued /\ Queued \subseteq Task
  BY TakenIsQueued DEF GivesOut
<1>2. \A t \in Task : task'[t] = IF t \in takes THEN Moved(t, "running", give[t]) ELSE task[t]
  BY DEF GivesOut, HandOut
<1>3. \A t \in takes : give[t] \in Executor /\ give[t] # NoOwner
  BY DispatchAssumption DEF GivesOut
<1>4. task' \in [Task -> TaskRow]
  BY <1>2, <1>3 DEF TasksTyped, TaskRow, Moved, GivesOut, HandOut
<1>5. ASSUME NEW t \in Task PROVE task'[t].status = "running" <=> task'[t].owner # NoOwner
  <2>1. CASE t \in takes
    <3>1. task'[t] = Moved(t, "running", give[t])
      BY <1>2, <2>1
    <3>2. task'[t].status = "running" /\ task'[t].owner = give[t]
      BY <3>1 DEF Moved
    <3> QED
      BY <1>3, <2>1, <3>2
  <2>2. CASE t \notin takes
    <3>1. task'[t] = task[t]
      BY <1>2, <2>2
    <3> QED
      BY <3>1 DEF TasksTyped
  <2> QED
    BY <2>1, <2>2
<1> QED
  BY <1>4, <1>5 DEF TasksTyped

-----------------------------------------------------------------------------
(* The whole of it.                                                        *)

Inv == TypeOK /\ OrdersStand

LEMMA InvParts ==
    /\ Inv <=> /\ Registry /\ TasksTyped
               /\ job \in [Job -> [paused : BOOLEAN, closing : BOOLEAN]]
               /\ session \in [Session -> [paused : BOOLEAN, priority : Priority \cup {0}]]
               /\ commands \in 0 .. MaxCommands
    /\ Inv' <=> /\ Registry' /\ TasksTyped'
                /\ job' \in [Job -> [paused : BOOLEAN, closing : BOOLEAN]]
                /\ session' \in [Session -> [paused : BOOLEAN, priority : Priority \cup {0}]]
                /\ commands' \in 0 .. MaxCommands
BY DEF Inv, TypeOK, Registry, TasksTyped, TaskRow

LEMMA InvStarts == Init => Inv
<1> SUFFICES ASSUME Init PROVE Inv
  OBVIOUS
<1>1. Registry
  BY RegistryStarts DEF Init
<1>2. TasksTyped
  BY DispatchAssumption DEF Init, TasksTyped, TaskRow, NoTask
<1>3. /\ job \in [Job -> [paused : BOOLEAN, closing : BOOLEAN]]
      /\ session \in [Session -> [paused : BOOLEAN, priority : Priority \cup {0}]]
      /\ commands \in 0 .. MaxCommands
  BY DispatchAssumption DEF Init
<1> QED
  BY <1>1, <1>2, <1>3, InvParts

LEMMA RegistryStands == Registry /\ UNCHANGED registry => Registry'
BY DEF registry, Registry, RegistryTypeOK, OrdersStand, Advertised, Known

LEMMA ReprioritizedTyped ==
    ASSUME TasksTyped, NEW s, NEW p \in Priority \cup {0}
    PROVE  /\ Reprioritized(s, p) \in [Task -> TaskRow]
           /\ \A t \in Task : /\ Reprioritized(s, p)[t].status = task[t].status
                              /\ Reprioritized(s, p)[t].owner = task[t].owner
<1> DEFINE R == Reprioritized(s, p)
           hit(t) == t \in Queued /\ SessionOf[JobOf[t]] = s
<1>1. R = [t \in Task |-> IF hit(t) THEN [status |-> "queued", priority |-> p, owner |-> NoOwner] ELSE task[t]]
  BY DEF Reprioritized
<1>2. \A t \in Task : hit(t) => task[t].status = "queued" /\ task[t].owner = NoOwner
  BY DEF Queued, InStatus, TasksTyped
<1> HIDE DEF hit, R
<1>3. R \in [Task -> TaskRow]
  BY <1>1 DEF TasksTyped, TaskRow
<1>4. \A t \in Task : R[t].status = task[t].status /\ R[t].owner = task[t].owner
  BY <1>1, <1>2
<1> QED
  BY <1>3, <1>4 DEF R

LEMMA ReprioritizedKeepsTypes ==
    ASSUME TasksTyped, NEW s, NEW p \in Priority \cup {0}, task' = Reprioritized(s, p)
    PROVE  TasksTyped'
<1>1. /\ task' \in [Task -> TaskRow]
      /\ \A t \in Task : task'[t].status = task[t].status /\ task'[t].owner = task[t].owner
  BY ReprioritizedTyped
<1> QED
  BY <1>1 DEF TasksTyped

LEMMA CreateKeepsInv ==
    ASSUME Inv, NEW j \in Job, NEW jp \in Optional, NEW sp \in Optional,
           NEW new \in BOOLEAN, NEW require \in BOOLEAN, CreateJob(j, jp, sp, new, require)
    PROVE  Inv' /\ \A t \in Task : task'[t].status = "running" => task[t].status = "running"
<1> DEFINE s == SessionOf[j]
           mine == {t \in Task : JobOf[t] = j}
           sessionP == IF sp # {} THEN Given(sp)
                       ELSE IF new THEN Given(jp) ELSE session[s].priority
           jobP == IF jp # {} THEN Given(jp) ELSE sessionP
           moved == IF sessionP # session[s].priority THEN Reprioritized(s, sessionP) ELSE task
<1>1. /\ session' = [session EXCEPT ![s] = [priority |-> sessionP, paused |-> ~new /\ session[s].paused]]
      /\ job' = [job EXCEPT ![j] = [paused |-> FALSE, closing |-> FALSE]]
      /\ task' = [t \in Task |-> IF t \in mine
                                 THEN [status |-> "queued", priority |-> jobP, owner |-> NoOwner]
                                 ELSE moved[t]]
      /\ UNCHANGED <<registry, commands>>
  BY DEF CreateJob
<1>2. s \in Session
  BY DispatchAssumption
<1>3. session[s].priority \in Priority \cup {0} /\ session[s].paused \in BOOLEAN
  BY <1>2, InvParts
<1>4. Given(jp) \in Priority \cup {0} /\ Given(sp) \in Priority \cup {0}
  <2>1. \A x \in Optional : Given(x) \in Priority \cup {0}
    <3> SUFFICES ASSUME NEW x \in Optional PROVE Given(x) \in Priority \cup {0}
      OBVIOUS
    <3>1. CASE x = {}
      BY <3>1 DEF Given
    <3>2. CASE x # {}
      <4>1. PICK p \in Priority : x = {p}
        BY <3>2 DEF Optional
      <4>2. Given(x) = p
        BY <4>1 DEF Given
      <4> QED
        BY <4>2
    <3> QED
      BY <3>1, <3>2
  <2> QED
    BY <2>1
<1>5. sessionP \in Priority \cup {0} /\ jobP \in Priority \cup {0}
  BY <1>3, <1>4
<1>6. TasksTyped
  BY InvParts
<1>7. /\ moved \in [Task -> TaskRow]
      /\ \A t \in Task : moved[t].status = task[t].status /\ moved[t].owner = task[t].owner
  BY <1>5, <1>6, ReprioritizedTyped DEF TasksTyped
<1> DEFINE row == [status |-> "queued", priority |-> jobP, owner |-> NoOwner]
<1>8. row \in TaskRow /\ row.status = "queued" /\ row.owner = NoOwner
  BY <1>5 DEF TaskRow
<1>9. session' \in [Session -> [paused : BOOLEAN, priority : Priority \cup {0}]]
  BY <1>1, <1>2, <1>3, <1>5, InvParts
<1>10. job' \in [Job -> [paused : BOOLEAN, closing : BOOLEAN]]
  BY <1>1, InvParts
<1> HIDE DEF row, moved, mine, sessionP, jobP
<1>11. task' = [t \in Task |-> IF t \in mine THEN row ELSE moved[t]]
  BY <1>1 DEF row
<1>12. task' \in [Task -> TaskRow]
  BY <1>7, <1>8, <1>11
<1>13. \A t \in Task : /\ task'[t].status = "running" => task[t].status = "running"
                       /\ task'[t].status = "running" <=> task'[t].owner # NoOwner
  BY <1>6, <1>7, <1>8, <1>11 DEF TasksTyped
<1>14. TasksTyped'
  BY <1>12, <1>13 DEF TasksTyped
<1>15. Registry'
  BY <1>1, InvParts, RegistryStands
<1> QED
  BY <1>1, <1>9, <1>10, <1>13, <1>14, <1>15, InvParts

(* A step that starts no task, apart from leases and submissions.          *)
Starts == \E t \in Task : HandedOut(t)

LEMMA TaskMoves ==
    ASSUME TasksTyped, NEW t \in Task, NEW row \in TaskRow,
           row.status # "running", row.owner = NoOwner, task' = [task EXCEPT ![t] = row]
    PROVE  TasksTyped' /\ ~Starts
<1>1. /\ task' \in [Task -> TaskRow]
      /\ \A u \in Task : task'[u] = IF u = t THEN row ELSE task[u]
  BY DEF TasksTyped
<1>2. TasksTyped'
  BY <1>1 DEF TasksTyped
<1>3. \A u \in Task : task'[u].status = "running" => task[u].status = "running"
  BY <1>1
<1> QED
  BY <1>2, <1>3 DEF Starts, HandedOut

LEMMA CommandsKeepInv ==
    ASSUME Inv, commands < MaxCommands, commands' = commands + 1, Command
    PROVE  Inv' /\ ~Starts
<1>1. /\ Registry /\ TasksTyped /\ commands' \in 0 .. MaxCommands
      /\ job \in [Job -> [paused : BOOLEAN, closing : BOOLEAN]]
      /\ session \in [Session -> [paused : BOOLEAN, priority : Priority \cup {0}]]
  BY InvParts, DispatchAssumption
<1>2. UNCHANGED task => TasksTyped' /\ ~Starts
  BY <1>1 DEF TasksTyped, Starts, HandedOut
<1>3. UNCHANGED registry => Registry'
  BY <1>1, RegistryStands
<1>4. CASE OrderStep /\ UNCHANGED queue
  BY <1>1, <1>2, <1>4, OrdersKeepRegistry, InvParts DEF queue
<1>5. CASE \E s \in Session, p \in Priority : SetSessionPriority(s, p)
  <2> PICK s \in Session, p \in Priority : SetSessionPriority(s, p)
    BY <1>5
  <2>1. session' \in [Session -> [paused : BOOLEAN, priority : Priority \cup {0}]]
    BY <1>1 DEF SetSessionPriority
  <2>2. task' = Reprioritized(s, p) /\ UNCHANGED <<registry, job>> /\ p \in Priority \cup {0}
    BY DEF SetSessionPriority
  <2>3. TasksTyped'
    BY <1>1, <2>2, ReprioritizedKeepsTypes
  <2>4. \A t \in Task : task'[t].status = task[t].status
    BY <1>1, <2>2, ReprioritizedTyped
  <2>5. ~Starts
    BY <2>4 DEF Starts, HandedOut
  <2> QED
    BY <1>1, <1>3, <2>1, <2>2, <2>3, <2>5, InvParts
<1>6. CASE \E s \in Session, b \in BOOLEAN : SetSessionPaused(s, b)
  <2> PICK s \in Session, b \in BOOLEAN : SetSessionPaused(s, b)
    BY <1>6
  <2>1. session' \in [Session -> [paused : BOOLEAN, priority : Priority \cup {0}]]
    BY <1>1 DEF SetSessionPaused
  <2> QED
    BY <1>1, <1>2, <1>3, <2>1, InvParts DEF SetSessionPaused
<1>7. CASE \E j \in Job : JobTurns(j)
  <2> PICK j \in Job : JobTurns(j)
    BY <1>7
  <2>1. job' \in [Job -> [paused : BOOLEAN, closing : BOOLEAN]]
    BY <1>1 DEF JobTurns
  <2> QED
    BY <1>1, <1>2, <1>3, <2>1, InvParts DEF JobTurns
<1>8. CASE \E j \in Job, b \in BOOLEAN : SetJobPaused(j, b)
  <2> PICK j \in Job, b \in BOOLEAN : SetJobPaused(j, b)
    BY <1>8
  <2>1. job' \in [Job -> [paused : BOOLEAN, closing : BOOLEAN]]
    BY <1>1 DEF SetJobPaused
  <2> QED
    BY <1>1, <1>2, <1>3, <2>1, InvParts DEF SetJobPaused
<1>9. CASE \E t \in Task : TaskReturns(t)
  <2> PICK t \in Task : TaskReturns(t)
    BY <1>9
  <2>1. Moved(t, "queued", NoOwner) \in TaskRow
    BY <1>1 DEF Moved, TasksTyped, TaskRow
  <2>2. Moved(t, "queued", NoOwner).status = "queued" /\ Moved(t, "queued", NoOwner).owner = NoOwner
    BY DEF Moved
  <2>3. task' = [task EXCEPT ![t] = Moved(t, "queued", NoOwner)] /\ UNCHANGED <<registry, job, session>>
    BY DEF TaskReturns
  <2>4. TasksTyped' /\ ~Starts
    BY <1>1, <2>1, <2>2, <2>3, TaskMoves
  <2> QED
    BY <1>1, <1>3, <2>3, <2>4, InvParts
<1> QED
  BY <1>4, <1>5, <1>6, <1>7, <1>8, <1>9 DEF Command

(* Every step keeps the invariant, and only leases start tasks.            *)
LEMMA StepKeepsInv ==
    ASSUME Inv, [Next]_vars
    PROVE  /\ Inv'
           /\ Starts => \E w \in Worker : LeaseStep(w)
<1>1. /\ Registry /\ TasksTyped /\ commands \in 0 .. MaxCommands
      /\ job \in [Job -> [paused : BOOLEAN, closing : BOOLEAN]]
      /\ session \in [Session -> [paused : BOOLEAN, priority : Priority \cup {0}]]
  BY InvParts
<1>2. UNCHANGED task => TasksTyped' /\ ~Starts
  BY <1>1 DEF TasksTyped, Starts, HandedOut
<1>3. CASE UNCHANGED vars
  BY <1>1, <1>2, <1>3, RegistryStands, InvParts DEF vars, queue
<1>4. CASE \E w \in Worker : LeaseStep(w)
  <2> PICK w \in Worker : LeaseStep(w)
    BY <1>4
  <2>1. Registry' /\ UNCHANGED <<job, session, commands>>
    BY <1>1, LeaseGives
  <2>2. TasksTyped'
    BY <1>1, LeaseGives, GiftsKeepTypes
  <2> QED
    BY <1>1, <2>1, <2>2, InvParts
<1>5. CASE (NodeStep \/ AnswerStep) /\ UNCHANGED <<queue, commands>>
  <2>1. Registry'
    BY <1>1, <1>5, NodesKeepRegistry, AnswersKeepRegistry
  <2> QED
    BY <1>1, <1>2, <1>5, <2>1, InvParts DEF queue
<1>6. CASE \E j \in Job, jp, sp \in Optional, new, require \in BOOLEAN : CreateJob(j, jp, sp, new, require)
  <2>1. Inv' /\ \A t \in Task : task'[t].status = "running" => task[t].status = "running"
    BY <1>6, CreateKeepsInv
  <2> QED
    BY <2>1 DEF Starts, HandedOut
<1>7. CASE \E t \in Task : TaskEnds(t)
  <2> PICK t \in Task : TaskEnds(t)
    BY <1>7
  <2>1. NoTask \in TaskRow /\ NoTask.status # "running" /\ NoTask.owner = NoOwner
    BY DEF NoTask, TaskRow
  <2>2. task' = [task EXCEPT ![t] = NoTask] /\ UNCHANGED <<registry, job, session, commands>>
    BY DEF TaskEnds
  <2>3. TasksTyped' /\ ~Starts
    BY <1>1, <2>1, <2>2, TaskMoves
  <2> QED
    BY <1>1, <2>2, <2>3, RegistryStands, InvParts
<1>8. CASE \E stale \in StaleSets, force \in BOOLEAN : PurgeOffline(stale, force)
  <2>1. Registry' /\ UNCHANGED <<queue, commands>>
    BY <1>1, <1>8, PurgeKeepsRegistry DEF PurgeOffline
  <2> QED
    BY <1>1, <1>2, <2>1, InvParts DEF queue
<1>9. CASE commands < MaxCommands /\ commands' = commands + 1 /\ Command
  BY <1>9, CommandsKeepInv
<1> QED
  BY <1>3, <1>4, <1>5, <1>6, <1>7, <1>8, <1>9 DEF Next

(* Every reachable row of the registry, the queue, the jobs and the        *)
(* sessions is well typed: no lease registers a node for no instances, and *)
(* a task has an executor exactly while it runs.                           *)
THEOREM TypeCorrect == Spec => []TypeOK
<1>1. Inv => TypeOK
  BY DEF Inv
<1>2. Inv /\ [Next]_vars => Inv'
  BY StepKeepsInv
<1> QED
  BY <1>1, <1>2, InvStarts, PTL DEF Spec

(* The configuration of a node is what operators last said of it and its   *)
(* row what it last sent of itself, through all heartbeats, fallback       *)
(* registrations, late answers and purges (core.py:838-1061, 1769-1834).   *)
THEOREM OrdersAlwaysStand == Spec => []OrdersStand
<1>1. Inv => OrdersStand
  BY DEF Inv
<1>2. Inv /\ [Next]_vars => Inv'
  BY StepKeepsInv
<1> QED
  BY <1>1, <1>2, InvStarts, PTL DEF Spec

LEMMA HandOutComesFromLease ==
    ASSUME Inv, [Next]_vars, NEW t \in Task, HandedOut(t)
    PROVE  /\ Registry
           /\ \E w \in Worker, n \in Nat : \E takes, give :
                 GivesOut(w, n, takes, give) /\ t \in takes /\ task'[t].owner = give[t]
<1>1. Registry /\ \E w \in Worker : LeaseStep(w)
  BY StepKeepsInv, InvParts DEF Starts
<1> PICK w \in Worker : LeaseStep(w)
  BY <1>1
<1> PICK n \in Nat : \E takes, give : GivesOut(w, n, takes, give)
  BY <1>1, LeaseGives
<1> PICK takes, give : GivesOut(w, n, takes, give)
  OBVIOUS
<1>2. task'[t] = IF t \in takes THEN Moved(t, "running", give[t]) ELSE task[t]
  BY DEF GivesOut, HandOut
<1>3. t \in takes
  BY <1>2 DEF HandedOut
<1>4. task'[t].owner = give[t]
  BY <1>2, <1>3 DEF Moved
<1> QED
  BY <1>1, <1>3, <1>4

(* No task ever reaches a node that operators last disabled or put to      *)
(* drain, or an instance they drained.                                     *)
THEOREM HoldsAreRespected == Spec => NoLeaseOnHold
<1>1. Inv /\ [Next]_vars =>
        [\A t \in Task :
            HandedOut(t) => LET e == task'[t].owner
                            IN  ~told[e[1]].disabled /\ ~told[e[1]].draining /\ e \notin drained]_vars
  <2> SUFFICES ASSUME Inv, [Next]_vars, NEW t \in Task, HandedOut(t)
               PROVE  LET e == task'[t].owner
                      IN  ~told[e[1]].disabled /\ ~told[e[1]].draining /\ e \notin drained
    OBVIOUS
  <2> QED
    BY HandOutComesFromLease DEF GivesOut
<1>2. Inv /\ [Next]_vars => Inv'
  BY StepKeepsInv
<1> QED
  BY <1>1, <1>2, InvStarts, PTL DEF Spec, NoLeaseOnHold

(* A node gets only what the metadata it sent last fits.                   *)
THEOREM LeasedWorkFits == Spec => WorkFitsNode
<1>1. Inv /\ [Next]_vars =>
        [\A t \in Task :
            HandedOut(t) => LET ad == told[task'[t].owner[1]].advert
                            IN  /\ ad.types = {} \/ TypeOf[JobOf[t]] \in ad.types
                                /\ TagsOf[JobOf[t]] \subseteq ad.tags]_vars
  <2> SUFFICES ASSUME Inv, [Next]_vars, NEW t \in Task, HandedOut(t)
               PROVE  Fits(told[task'[t].owner[1]].advert, JobOf[t])
    BY DEF Fits, OffersType
  <2> PICK w \in Worker, n \in Nat : \E takes, give :
            GivesOut(w, n, takes, give) /\ t \in takes /\ task'[t].owner = give[t]
    BY HandOutComesFromLease
  <2>1. task'[t].owner[1] = w /\ t \in Taken(told[w].advert, n)
    BY DEF GivesOut
  <2> QED
    BY <2>1 DEF Taken, Best
<1>2. Inv /\ [Next]_vars => Inv'
  BY StepKeepsInv
<1> QED
  BY <1>1, <1>2, InvStarts, PTL DEF Spec, WorkFitsNode

-----------------------------------------------------------------------------
(* The order of the queue.                                                 *)

LEMMA QueueIsOrdered ==
    ASSUME TasksTyped
    PROVE  /\ \A t, u \in Task : t = u \/ Before(t, u) \/ Before(u, t)
           /\ \A t, u, v \in Task : Before(t, u) /\ Before(u, v) => Before(t, v)
           /\ \A t, u \in Task : Before(t, u) => ~Before(u, t)
<1>1. ASSUME NEW t \in Task PROVE t \in Nat /\ task[t].priority \in Nat
  <2>1. t \in Nat
    BY DispatchAssumption
  <2>2. task[t] \in TaskRow
    BY DEF TasksTyped
  <2>3. task[t].priority \in Priority \cup {0}
    BY <2>2 DEF TaskRow
  <2>4. Priority \subseteq Nat
    BY DispatchAssumption
  <2> QED
    <3>1. CASE task[t].priority \in Priority
      BY <2>1, <2>4, <3>1
    <3>2. CASE task[t].priority = 0
      BY <2>1, <3>2
    <3> QED
      BY <2>3, <3>1, <3>2
<1>2. \A t, u \in Task : t = u \/ Before(t, u) \/ Before(u, t)
  <2> SUFFICES ASSUME NEW t \in Task, NEW u \in Task, t # u
               PROVE  Before(t, u) \/ Before(u, t)
    OBVIOUS
  <2>1. CASE task[t].priority = task[u].priority
    BY <1>1, <2>1 DEF Before
  <2>2. CASE task[t].priority < task[u].priority
    BY <1>1, <2>2 DEF Before
  <2>3. CASE task[t].priority > task[u].priority
    BY <1>1, <2>3 DEF Before
  <2> QED
    BY <1>1, <2>1, <2>2, <2>3
<1>3. \A t, u, v \in Task : Before(t, u) /\ Before(u, v) => Before(t, v)
  BY <1>1 DEF Before
<1>4. \A t, u \in Task : Before(t, u) => ~Before(u, t)
  BY <1>1 DEF Before
<1> QED
  BY <1>2, <1>3, <1>4

(* Whatever comes before one of the best n of a set is one of them.        *)
LEMMA BestIsInitial ==
    ASSUME TasksTyped, NEW T \in SUBSET Task, NEW n \in Nat,
           NEW t \in Best(T, n), NEW u \in T, Before(u, t)
    PROVE  u \in Best(T, n)
<1> DEFINE before(x) == {y \in T : Before(y, x)}
<1>1. t \in T /\ Cardinality(before(t)) < n
  BY DEF Best
<1>2. before(u) \subseteq before(t)
  BY <1>1, QueueIsOrdered
<1>3. IsFiniteSet(T)
  BY DispatchAssumption, FS_Subset
<1>4. before(t) \in SUBSET T
  OBVIOUS
<1>5. IsFiniteSet(before(t))
  BY <1>3, <1>4, FS_Subset
<1>6. IsFiniteSet(before(u)) /\ Cardinality(before(u)) <= Cardinality(before(t))
  BY <1>2, <1>5, FS_Subset
<1>7. Cardinality(before(u)) \in Nat /\ Cardinality(before(t)) \in Nat
  BY <1>5, <1>6, FS_CardinalityType
<1>8. Cardinality(before(u)) < n
  BY <1>1, <1>6, <1>7
<1> QED
  BY <1>8 DEF Best

LEMMA TakenIsBest ==
    ASSUME TasksTyped, NEW ad, NEW n \in Nat, NEW t \in Taken(ad, n),
           NEW u \in Leaseable, Fits(ad, JobOf[u]), u \notin Taken(ad, n)
    PROVE  Before(t, u)
<1> DEFINE fitting == {x \in Window(n) : Fits(ad, JobOf[x])}
<1>1. Leaseable \in SUBSET Task /\ n * WindowFactor \in Nat
  BY TakenIsQueued, DispatchAssumption
<1>2. Taken(ad, n) = Best(fitting, n) /\ Window(n) = Best(Leaseable, n * WindowFactor)
  BY DEF Taken, Window
<1>3. t \in fitting /\ fitting \in SUBSET Task /\ t \in Window(n)
  BY <1>1, <1>2 DEF Best
<1> SUFFICES ASSUME Before(u, t) PROVE FALSE
  BY <1>1, <1>3, QueueIsOrdered
<1>4. u \in Window(n)
  BY <1>1, <1>2, <1>3, BestIsInitial
<1>5. u \in fitting
  BY <1>4
<1> HIDE DEF fitting
<1>6. u \in Best(fitting, n)
  BY <1>2, <1>3, <1>5, BestIsInitial
<1> QED
  BY <1>2, <1>6

(* No lease, of one task or of a batch, passes over an earlier or more     *)
(* urgent task that the node fits, for any size of the window.             *)
THEOREM BestGoesFirst == Spec => BestFirst
<1>1. Inv /\ [Next]_vars =>
        [\A t, u \in Task :
            /\ HandedOut(t)
            /\ u \in Leaseable /\ task'[u].status = "queued"
            /\ Fits(told[task'[t].owner[1]].advert, JobOf[u])
            => \/ task[t].priority > task[u].priority
               \/ task[t].priority = task[u].priority /\ t < u]_vars
  <2> SUFFICES ASSUME Inv, [Next]_vars, NEW t \in Task, NEW u \in Task, HandedOut(t),
                      u \in Leaseable, task'[u].status = "queued",
                      Fits(told[task'[t].owner[1]].advert, JobOf[u])
               PROVE  Before(t, u)
    BY DEF Before
  <2> PICK w \in Worker, n \in Nat : \E takes, give :
            GivesOut(w, n, takes, give) /\ t \in takes /\ task'[t].owner = give[t]
    BY HandOutComesFromLease
  <2> PICK takes, give : GivesOut(w, n, takes, give) /\ t \in takes /\ task'[t].owner = give[t]
    OBVIOUS
  <2>1. task'[t].owner[1] = w /\ takes = Taken(told[w].advert, n)
    BY DEF GivesOut
  <2>2. u \in takes => task'[u] = Moved(u, "running", give[u])
    BY DEF GivesOut, HandOut
  <2>3. u \notin Taken(told[w].advert, n)
    BY <2>1, <2>2 DEF Moved
  <2>4. TasksTyped
    BY InvParts
  <2>5. t \in Taken(told[w].advert, n) /\ Fits(told[w].advert, JobOf[u])
    BY <2>1
  <2> QED
    BY <2>3, <2>4, <2>5, TakenIsBest
<1>2. Inv /\ [Next]_vars => Inv'
  BY StepKeepsInv
<1> QED
  BY <1>1, <1>2, InvStarts, PTL DEF Spec, BestFirst

-----------------------------------------------------------------------------
(* Purges and diagnostics.                                                 *)

(* A purge that does not ask for it spares every node that runs a task,    *)
(* for any way in which ids of nodes extend one another.                   *)
THEOREM PurgesSpareTheBusy == Spec => PurgeSparesBusy
<1>1. [Next]_vars =>
        [\A stale \in StaleSets : PurgeOffline(stale, FALSE) =>
            \A t \in InStatus("running") :
                LET w == task[t].owner[1] IN w \in Known => worker'[w] # Absent]_vars
  <2> SUFFICES ASSUME NEW stale \in StaleSets, PurgeOffline(stale, FALSE),
                      NEW t \in InStatus("running"), task[t].owner[1] \in Known
               PROVE  worker'[task[t].owner[1]] # Absent
    OBVIOUS
  <2> DEFINE w == task[t].owner[1]
             busy == {v \in Known : RunningAssignments(v) # {}}
  <2>1. w \in busy
    BY DEF RunningAssignments
  <2>2. worker' = [v \in Worker |-> IF v \in stale \ busy THEN Absent ELSE worker[v]]
    BY DEF PurgeOffline, Purge
  <2>3. w \in Worker /\ worker[w] # Absent
    BY DEF Known
  <2> QED
    BY <2>1, <2>2, <2>3
<1> QED
  BY <1>1, PTL DEF Spec, PurgeSparesBusy

(* What the diagnostics call blocked, no active node would be given, for   *)
(* any catalogue, tags, pauses and window.                                 *)
THEOREM BlockedStaysBlocked == Spec => []BlockedIsBlocked
<1>1. Inv => BlockedIsBlocked
  <2> SUFFICES ASSUME Inv, NEW t \in Queued, NEW w \in Worker, NEW n \in 1 .. LeaseLimit,
                      Active(w), t \in Taken(worker[w].advert, n)
               PROVE  Diagnosis(t) \in {"leaseable_now", "all_capable_workers_busy"}
    BY DEF BlockedIsBlocked
  <2> DEFINE j == JobOf[t]
             active == {v \in Matching(j) : Active(v)}
  <2>1. n \in Nat
    BY DispatchAssumption
  <2>2. t \in Leaseable /\ Fits(worker[w].advert, j)
    BY <2>1, TakenIsQueued DEF Taken, Best, Window
  <2>3. JobLeaseable(j)
    BY <2>2 DEF Leaseable
  <2>4. w \in Known
    BY DEF Active
  <2>5. w \in Supporting(j) /\ w \in Matching(j)
    BY <2>2, <2>4 DEF Fits, Supporting, Matching
  <2>6. w \in active
    BY <2>5
  <2>7. ~job[j].closing /\ ~job[j].paused /\ ~session[SessionOf[j]].paused
    BY <2>3 DEF JobLeaseable
  <2>8. Known # {} /\ Supporting(j) # {} /\ Matching(j) # {} /\ active # {}
    BY <2>4, <2>5, <2>6
  <2>9. Diagnosis(t) = IF \A v \in active : ~HasFreeSlot(v) THEN "all_capable_workers_busy"
                       ELSE "leaseable_now"
    BY <2>3, <2>7, <2>8 DEF Diagnosis
  <2> QED
    BY <2>9
<1>2. Inv /\ [Next]_vars => Inv'
  BY StepKeepsInv
<1> QED
  BY <1>1, <1>2, InvStarts, PTL DEF Spec

(* A node that has a row has a configuration.                              *)
KnownHasConfig == \A w \in Worker : worker[w] # Absent => config[w] # Absent

LEMMA RowsComeWithConfig ==
    ASSUME Inv, KnownHasConfig, [Next]_vars
    PROVE  KnownHasConfig'
<1>1. Registry
  BY InvParts
<1>2. ASSUME NEW w \in Worker, NEW n \in 1 .. MaxSize
      PROVE  \A v \in Worker : /\ EnsureConfig(w, n)[w] # Absent
                               /\ config[v] # Absent => EnsureConfig(w, n)[v] # Absent
  BY <1>1, ConfigRows DEF EnsureConfig, Registry, RegistryTypeOK
<1>3. ASSUME UNCHANGED <<worker, config>> PROVE KnownHasConfig'
  BY <1>3 DEF KnownHasConfig
<1>4. ASSUME NEW w \in Worker, NEW ad \in Metadata, NEW beat, Heartbeat(w, ad, beat)
      PROVE  KnownHasConfig'
  <2>1. Configured(ad) \in 1 .. MaxSize
    BY <1>1, Adverts DEF Registry
  <2>2. \A v \in Worker : v # w => worker'[v] = worker[v]
    BY <1>1, <1>4 DEF Heartbeat, Registry, RegistryTypeOK
  <2> QED
    BY <1>2, <1>4, <2>1, <2>2 DEF Heartbeat, KnownHasConfig
<1>5. ASSUME NEW w \in Worker, NEW n \in 1 .. MaxSize, RegisterForLease(w, n)
      PROVE  KnownHasConfig'
  <2>1. CASE worker[w] = Absent
    <3>1. config' = EnsureConfig(w, n) /\ \A v \in Worker : v # w => worker'[v] = worker[v]
      BY <1>1, <1>5, <2>1 DEF RegisterForLease, Registered, Known, Registry, RegistryTypeOK
    <3> QED
      BY <1>2, <3>1 DEF KnownHasConfig
  <2>2. CASE worker[w] # Absent
    BY <1>5, <2>2 DEF RegisterForLease, Registered, Known, KnownHasConfig
  <2> QED
    BY <2>1, <2>2
<1>6. ASSUME NEW w \in Worker, NEW row \in ConfigRow, config' = [config EXCEPT ![w] = row], UNCHANGED worker
      PROVE  KnownHasConfig'
  BY <1>1, <1>6, RegistryAssumption DEF KnownHasConfig, ConfigRow, Registry, RegistryTypeOK
<1>7. ASSUME NEW w \in Worker, NEW n \in 1 .. MaxSize, Resized(w, n)
      PROVE  KnownHasConfig'
  <2>1. [desired |-> n, disabled |-> Ordered(w).disabled, draining |-> Ordered(w).draining] \in ConfigRow
    BY <1>1, OrderedRow DEF ConfigRow
  <2> QED
    BY <1>6, <1>7, <2>1 DEF Resized
<1>8. 1 \in 1 .. MaxSize
  BY RegistryAssumption
<1>9. CASE UNCHANGED vars
  BY <1>3, <1>9 DEF vars, registry
<1>10. CASE \E w \in Worker : LeaseStep(w)
  <2> PICK w \in Worker : LeaseStep(w)
    BY <1>10
  <2>1. CASE \E e \in Executor, n \in 1 .. LeaseLimit : e[1] = w /\ LeaseTasks(w, e[2], n)
    BY <1>5, <1>8, <2>1 DEF LeaseTasks
  <2>2. CASE \E I \in SUBSET InstancesOf(w) : I # {} /\ LeaseForInstances(w, I)
    BY <1>5, <2>2, BatchSize DEF LeaseForInstances
  <2> QED
    BY <2>1, <2>2 DEF LeaseStep
<1>11. CASE NodeStep \/ AnswerStep
  <2>1. CASE \E w \in Worker : \E ad \in AdvertOf[w] : Advertises(w, ad, "fresh") \/ SaysStopped(w, ad)
    <3> PICK w \in Worker : \E ad \in AdvertOf[w] : Advertises(w, ad, "fresh") \/ SaysStopped(w, ad)
      BY <2>1
    <3> PICK ad \in AdvertOf[w] : Advertises(w, ad, "fresh") \/ SaysStopped(w, ad)
      OBVIOUS
    <3>1. ad \in Metadata /\ [types |-> ad.types, tags |-> ad.tags, slots |-> 0] \in Metadata
      BY RegistryAssumption DEF Metadata
    <3> QED
      BY <1>4, <3>1 DEF Advertises, SaysStopped
  <2>2. CASE \E w \in Worker : StatusHeartbeat(w)
    <3> PICK w \in Worker : StatusHeartbeat(w)
      BY <2>2
    <3>1. Advertised(w) \in Metadata
      BY <1>1, Adverts DEF Registry
    <3> QED
      BY <1>4, <3>1 DEF StatusHeartbeat
  <2>3. CASE \E w \in Worker : GoesSilent(w)
    BY <1>1, <2>3 DEF GoesSilent, Known, KnownHasConfig, Registry, RegistryTypeOK
  <2>4. CASE AnswerStep
    <3> PICK w \in asked : AnswersDefault(w)
      BY <2>4 DEF AnswerStep
    <3>1. w \in Worker /\ Resized(w, 1)
      BY <1>1 DEF AnswersDefault, Registry, RegistryTypeOK
    <3> QED
      BY <1>7, <1>8, <3>1
  <2> QED
    BY <1>11, <2>1, <2>2, <2>3, <2>4 DEF NodeStep
<1>12. CASE \E j \in Job, jp, sp \in Optional, new, require \in BOOLEAN : CreateJob(j, jp, sp, new, require)
  BY <1>3, <1>12 DEF CreateJob, registry
<1>13. CASE \E t \in Task : TaskEnds(t)
  BY <1>3, <1>13 DEF TaskEnds, registry
<1>14. CASE \E stale \in StaleSets, force \in BOOLEAN : PurgeOffline(stale, force)
  BY <1>14 DEF PurgeOffline, Purge, KnownHasConfig
<1>15. CASE Command
  <2>1. CASE OrderStep
    <3> PICK w \in Worker :
           \/ FindsNoConfig(w)
           \/ \E n \in SizesOf[w] : SetConfig(w, n)
           \/ \E b \in BOOLEAN : SetDisabled(w, b) \/ SetDraining(w, b)
           \/ \E i \in InstancesOf(w), b \in BOOLEAN : SetInstanceDraining(w, i, b)
      BY <2>1 DEF OrderStep
    <3>1. CASE FindsNoConfig(w)
      BY <1>3, <3>1 DEF FindsNoConfig
    <3>2. CASE \E n \in SizesOf[w] : SetConfig(w, n)
      BY <1>7, <3>2, RegistryAssumption DEF SetConfig
    <3>3. CASE \E b \in BOOLEAN : SetDisabled(w, b) \/ SetDraining(w, b)
      <4> PICK b \in BOOLEAN : SetDisabled(w, b) \/ SetDraining(w, b)
        BY <3>3
      <4>1. /\ [desired |-> Ordered(w).desired, disabled |-> b, draining |-> Ordered(w).draining] \in ConfigRow
            /\ [desired |-> Ordered(w).desired, disabled |-> Ordered(w).disabled, draining |-> b] \in ConfigRow
        BY <1>1, OrderedRow DEF ConfigRow
      <4> QED
        BY <1>6, <4>1 DEF SetDisabled, SetDraining
    <3>4. CASE \E i \in InstancesOf(w), b \in BOOLEAN : SetInstanceDraining(w, i, b)
      BY <1>2, <1>8, <3>4 DEF SetInstanceDraining, KnownHasConfig
    <3> QED
      BY <3>1, <3>2, <3>3, <3>4
  <2>2. CASE UNCHANGED registry
    BY <1>3, <2>2 DEF registry
  <2> QED
    BY <1>15, <2>1, <2>2 DEF Command, SetSessionPriority, SetSessionPaused, JobTurns, SetJobPaused, TaskReturns
<1> QED
  BY <1>9, <1>10, <1>11, <1>12, <1>13, <1>14, <1>15 DEF Next

(* The free slots that the diagnostics count are instances of the node     *)
(* that neither run a task nor are drained.                                *)
LEMMA FreeSlotIsAnInstance ==
    ASSUME Inv, NEW w \in Known, Slots(w) \in 1 .. MaxSize, HasFreeSlot(w)
    PROVE  \E i \in 1 .. Slots(w) : /\ <<w, i>> \notin drained
                                    /\ \A u \in InStatus("running") : task[u].owner # <<w, i>>
<1> DEFINE running == InStatus("running")
           mine == {u \in running : w \in Split(task[u].owner[1])}
           here == {u \in running : task[u].owner \in {<<w, i>> : i \in 1 .. MaxSize}}
           busy == {i \in 1 .. MaxSize : \E u \in running : task[u].owner = <<w, i>>}
           held == {i \in 1 .. MaxSize : <<w, i>> \in drained}
           slots == 1 .. Slots(w)
<1>1. /\ IsFiniteSet(1 .. MaxSize)
      /\ IsFiniteSet(slots) /\ Cardinality(slots) = Slots(w)
  <2>1. MaxSize \in Int /\ Slots(w) \in Int /\ 1 <= Slots(w) /\ Slots(w) - 1 + 1 = Slots(w)
    BY RegistryAssumption
  <2> QED
    BY <2>1, FS_Interval
<1>2. IsFiniteSet(Task) /\ running \in SUBSET Task
  BY DispatchAssumption DEF InStatus
<1>3. IsFiniteSet(mine) /\ Cardinality(mine) \in Nat
  <2>1. mine \in SUBSET Task
    BY <1>2
  <2> QED
    BY <1>2, <2>1, FS_Subset, FS_CardinalityType
<1>4. here \subseteq mine
  BY DEF Split
<1>5. IsFiniteSet(here) /\ Cardinality(here) <= Cardinality(mine)
  <2>1. here \in SUBSET mine
    BY <1>4
  <2> QED
    BY <1>3, <2>1, FS_Subset
<1>6. Cardinality(busy) <= Cardinality(mine) /\ Cardinality(busy) \in Nat /\ IsFiniteSet(busy)
  <2> DEFINE instance == [u \in here |-> task[u].owner[2]]
  <2>1. instance \in [here -> busy]
    OBVIOUS
  <2>2. ASSUME NEW i \in busy PROVE \E u \in here : instance[u] = i
    <3>1. PICK u \in running : task[u].owner = <<w, i>>
      OBVIOUS
    <3>2. u \in here /\ <<w, i>>[2] = i
      BY <3>1
    <3> QED
      BY <3>1, <3>2
  <2> HIDE DEF instance, here, busy, mine
  <2>3. instance \in Surjection(here, busy)
    BY <2>1, <2>2 DEF Surjection
  <2>4. IsFiniteSet(busy) /\ Cardinality(busy) <= Cardinality(here)
    BY <1>5, <2>3, FS_Surjection
  <2>5. Cardinality(busy) \in Nat /\ Cardinality(here) \in Nat
    BY <1>5, <2>4, FS_CardinalityType
  <2> QED
    BY <1>3, <1>5, <2>4, <2>5
<1>7. IsFiniteSet(held) /\ Cardinality(held) \in Nat
  <2>1. held \in SUBSET (1 .. MaxSize)
    OBVIOUS
  <2> QED
    BY <1>1, <2>1, FS_Subset, FS_CardinalityType
<1>8. Slots(w) > Cardinality(mine) + Cardinality(held)
  BY DEF HasFreeSlot, BusySlots, DrainedSlots
<1> HIDE DEF mine, here, busy, held
<1>9. /\ IsFiniteSet(busy \cup held) /\ Cardinality(busy \cup held) \in Nat
      /\ Cardinality(busy \cup held) <= Cardinality(busy) + Cardinality(held)
  <2>1. /\ IsFiniteSet(busy \cup held)
        /\ Cardinality(busy \cup held) = Cardinality(busy) + Cardinality(held) - Cardinality(busy \cap held)
    BY <1>6, <1>7, FS_Union
  <2>2. busy \cap held \in SUBSET busy
    OBVIOUS
  <2>3. IsFiniteSet(busy \cap held)
    BY <1>6, <2>2, FS_Subset
  <2>4. Cardinality(busy \cap held) \in Nat /\ Cardinality(busy \cup held) \in Nat
    BY <2>1, <2>3, FS_CardinalityType
  <2> QED
    BY <1>6, <1>7, <2>1, <2>4
<1>10. Cardinality(busy \cup held) < Cardinality(slots)
  BY <1>1, <1>3, <1>6, <1>7, <1>8, <1>9
<1>11. PICK i \in slots : i \notin busy \cup held
  <2> SUFFICES ASSUME slots \subseteq busy \cup held PROVE FALSE
    OBVIOUS
  <2>1. slots \in SUBSET (busy \cup held)
    OBVIOUS
  <2>2. Cardinality(slots) <= Cardinality(busy \cup held)
    BY <1>9, <2>1, FS_Subset
  <2> QED
    BY <1>1, <1>9, <1>10, <2>2
<1>12. i \in 1 .. MaxSize
  BY <1>11, RegistryAssumption
<1> QED
  BY <1>11, <1>12 DEF busy, held

(* What the diagnostics call leaseable now has a node in service that fits *)
(* it and an instance of it that is idle and not drained.                  *)
THEOREM LeaseableNowHasTaker == Spec => []LeaseableHasTaker
<1>1. Inv /\ KnownHasConfig => LeaseableHasTaker
  <2> SUFFICES ASSUME Inv, KnownHasConfig, NEW t \in Queued, Diagnosis(t) = "leaseable_now"
               PROVE  \E w \in Known, i \in 1 .. MaxSize :
                         /\ ~told[w].disabled /\ ~told[w].draining /\ Fits(told[w].advert, JobOf[t])
                         /\ i <= (IF told[w].advert.slots # 0 THEN told[w].advert.slots ELSE config[w].desired)
                         /\ <<w, i>> \notin drained
                         /\ \A u \in InStatus("running") : task[u].owner # <<w, i>>
    BY DEF LeaseableHasTaker
  <2> DEFINE j == JobOf[t]
  <2>1. PICK w \in Matching(j) : Active(w) /\ HasFreeSlot(w)
    BY DEF Diagnosis
  <2>2. w \in Known /\ Fits(worker[w].advert, j)
    BY <2>1 DEF Matching, Supporting, Fits
  <2>3. Registry /\ w \in Worker /\ worker[w] # Absent /\ config[w] # Absent
    BY <2>2, InvParts DEF Known, KnownHasConfig
  <2>4. told[w].advert = worker[w].advert /\ ~told[w].disabled /\ ~told[w].draining
    BY <2>1, <2>2, <2>3 DEF Active, Blocked, Registry, OrdersStand, Advertised
  <2>5. worker[w].advert.slots \in 0 .. MaxSize /\ config[w].desired \in 1 .. MaxSize
    BY <2>3 DEF Registry, RegistryTypeOK, WorkerRow, Metadata, ConfigRow
  <2>6. Slots(w) \in 1 .. MaxSize
    BY <2>5, RegistryAssumption DEF Slots
  <2>7. PICK i \in 1 .. Slots(w) : /\ <<w, i>> \notin drained
                                  /\ \A u \in InStatus("running") : task[u].owner # <<w, i>>
    BY <2>1, <2>2, <2>6, FreeSlotIsAnInstance
  <2>8. i \in 1 .. MaxSize /\ i <= Slots(w)
    BY <2>6, RegistryAssumption
  <2> QED
    BY <2>2, <2>4, <2>7, <2>8 DEF Slots
<1>2. Inv /\ KnownHasConfig /\ [Next]_vars => (Inv /\ KnownHasConfig)'
  BY StepKeepsInv, RowsComeWithConfig
<1>3. Init => Inv /\ KnownHasConfig
  BY InvStarts DEF Init, RegistryInit, KnownHasConfig
<1> QED
  BY <1>1, <1>2, <1>3, PTL DEF Spec
=============================================================================
