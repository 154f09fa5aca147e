-------------------------- MODULE Controller_proof --------------------------
(***************************************************************************)
(* Proofs about Controller, for every set of tenants, every assignment of  *)
(* settings to objects and every value of the bounds: its invariants, and  *)
(* that it implements ConfigSync.                                          *)
(***************************************************************************)
EXTENDS Controller, SequenceTheorems, TLAPS

IInv == TypeOK /\ ControllerInv

-----------------------------------------------------------------------------
(* What the settings may hold *)

\* What a case of the select tells apart is a content of a setting.
LEMMA PossibleContents ==
    \A w \in Watches :
        /\ Possible(w) \subseteq Contents
        /\ "none" \notin Possible(w)
        /\ "empty" \in Possible(w)
        /\ "none" \in Contents
        /\ Published[w] \subseteq Possible(w)
        /\ Installed[w] \in Possible(w) \cup {"none"}
BY PublishedAssumption, TenantsAssumption
   DEF Possible, Contents, Unusual, Watches

\* A setting that is neither missing its key nor empty names a tenant.
LEMMA TenantPossible ==
    ASSUME NEW v \in Possible("tenant") \ {"nokey"}, v # "empty"
    PROVE  v \in Tenants
BY DEF Possible

\* The memory of a fresh process has its types.
LEMMA FreshTypes == Unset \in Version /\ NoConnection \in Connection
BY DEF Unset, Version, Contents, Unusual, NoConnection, Connection

\* The invariant holds when the platform is installed.
LEMMA InitialInvariant == Init => IInv
<1> SUFFICES ASSUME Init PROVE IInv
  OBVIOUS
<1> USE PossibleContents
<1>1. TypeOK
  <2>1. ClusterTypes
    BY DEF Init, FreshProcess, ClusterTypes, Version
  <2>2. LoopTypes
    BY FreshTypes DEF Init, FreshProcess, LoopTypes, Steps
  <2>3. NumberTypes
    BY BoundsAssumption DEF Init, FreshProcess, NumberTypes
  <2>4. RemoteTypes
    BY FreshTypes DEF Init, FreshProcess, RemoteTypes
  <2> QED
    BY <2>1, <2>2, <2>3, <2>4 DEF TypeOK
<1>2. PossibleVersions
  BY DEF Init, FreshProcess, PossibleVersions, Unset
<1>3. KnowledgeByPhase
  BY DEF Init, FreshProcess, KnowledgeByPhase, MissingInitialization, Updating,
     Unset, Watches
<1>4. AppliedSoFar /\ AppliedWhenQuiet /\ Delivered
  BY DEF Init, FreshProcess, AppliedSoFar, AppliedWhenQuiet, Delivered, Updating
<1> QED
  BY <1>1, <1>2, <1>3, <1>4 DEF IInv, ControllerInv

-----------------------------------------------------------------------------
(* Starting and restarting *)

\* A restart forgets what was held, so it owes Hono and Ditto nothing.
LEMMA RestartPreserves ==
    ASSUME IInv, Restart, UNCHANGED <<cluster, remoteVars>>,
           version' \in Nat, failures' \in Nat, restarts' \in Nat, kafka' \in Nat \ {0}
    PROVE  IInv'
<1> USE PossibleContents
<1>1. TypeOK'
  <2> USE DEF IInv, TypeOK, Restart, remoteVars
  <2>1. ClusterTypes'
    BY DEF ClusterTypes
  <2>2. LoopTypes'
    BY FreshTypes DEF LoopTypes, Steps
  <2>3. NumberTypes'
    BY BoundsAssumption DEF NumberTypes
  <2>4. RemoteTypes'
    BY FreshTypes DEF RemoteTypes
  <2> QED
    BY <2>1, <2>2, <2>3, <2>4
<1>2. PossibleVersions'
  BY DEF IInv, ControllerInv, Restart, PossibleVersions, Unset, Watches
<1>3. KnowledgeByPhase'
  BY DEF Restart, KnowledgeByPhase, MissingInitialization, Updating, Unset, Watches
<1>4. (AppliedSoFar /\ AppliedWhenQuiet /\ Delivered)'
  BY DEF Restart, AppliedSoFar, AppliedWhenQuiet, Delivered, Updating
<1> QED
  BY <1>1, <1>2, <1>3, <1>4 DEF IInv, ControllerInv

\* Waiting for the services only stores the address of Kafka.
LEMMA WaitServicesPreserves == ASSUME IInv, WaitServices PROVE IInv'
<1> USE DEF WaitServices, clusterVars, watchVars, updateVars, remoteVars
<1>1. TypeOK'
  BY DEF IInv, TypeOK, ClusterTypes, LoopTypes, NumberTypes, RemoteTypes, Steps
<1>2. PossibleVersions' /\ KnowledgeByPhase'
  BY DEF IInv, ControllerInv, PossibleVersions, KnowledgeByPhase,
     MissingInitialization, Updating
<1>3. (AppliedSoFar /\ AppliedWhenQuiet /\ Delivered)'
  BY DEF IInv, ControllerInv, AppliedSoFar, AppliedWhenQuiet, Delivered, Updating
<1> QED
  BY <1>1, <1>2, <1>3 DEF IInv, ControllerInv

\* A watch starts with the version there is, if there is one.
LEMMA OpenWatchPreserves ==
    ASSUME IInv, NEW w \in Watches, OpenWatch(w) PROVE IInv'
<1> USE DEF OpenWatch, FirstReport, clusterVars, loopVars, updateVars, remoteVars
<1>1. TypeOK'
  BY DEF IInv, TypeOK, ClusterTypes, LoopTypes, NumberTypes, RemoteTypes, Steps
<1>2. PossibleVersions'
  BY DEF IInv, ControllerInv, TypeOK, PossibleVersions
<1>3. KnowledgeByPhase'
  BY DEF IInv, ControllerInv, KnowledgeByPhase, MissingInitialization, Updating
<1>4. AppliedSoFar' /\ AppliedWhenQuiet'
  BY DEF IInv, ControllerInv, KnowledgeByPhase, AppliedSoFar, AppliedWhenQuiet,
     MissingInitialization, Updating
<1>5. Delivered'
  BY DEF IInv, ControllerInv, TypeOK, ClusterTypes, Delivered
<1> QED
  BY <1>1, <1>2, <1>3, <1>4, <1>5 DEF IInv, ControllerInv

-----------------------------------------------------------------------------
(* The select loop *)

\* What a watch hands over replaces what was held, and starts update().
LEMMA ReceivePreserves ==
    ASSUME IInv, NEW w \in Watches, Receive(w) PROVE IInv'
<1> DEFINE e == Head(queue[w])
<1> USE DEF clusterVars, remoteVars
<1>1. /\ queue[w] \in Seq(Version)
      /\ queue[w] # <<>>
      /\ e \in Version
      /\ e = queue[w][1]
      /\ e.val \in Possible(w)
      /\ Len(queue[w]) \in Nat \ {0}
      /\ Tail(queue[w]) \in Seq(Version)
      /\ Len(Tail(queue[w])) = Len(queue[w]) - 1
      /\ \A i \in 1 .. Len(queue[w]) - 1 : Tail(queue[w])[i] = queue[w][i + 1]
      /\ queue' = [queue EXCEPT ![w] = Tail(@)]
  BY DEF Receive, IInv, TypeOK, ClusterTypes, LoopTypes, ControllerInv, PossibleVersions
<1>4. watch[w] = "open" /\ cluster[w].val # "none" =>
        IF Tail(queue[w]) = <<>>
          THEN e = cluster[w]
          ELSE Tail(queue[w])[Len(Tail(queue[w]))] = cluster[w]
  <2> SUFFICES ASSUME watch[w] = "open", cluster[w].val # "none"
               PROVE  IF Tail(queue[w]) = <<>>
                        THEN e = cluster[w]
                        ELSE Tail(queue[w])[Len(Tail(queue[w]))] = cluster[w]
    OBVIOUS
  <2>1. queue[w][Len(queue[w])] = cluster[w]
    BY <1>1 DEF IInv, ControllerInv, Delivered
  <2>2. CASE Tail(queue[w]) = <<>>
    BY <1>1, <2>1, <2>2
  <2>3. CASE Tail(queue[w]) # <<>>
    <3>1. Len(Tail(queue[w])) \in 1 .. Len(queue[w]) - 1
      BY <1>1, <2>3, EmptySeq
    <3> QED
      BY <1>1, <2>1, <2>3, <3>1
  <2> QED
    BY <2>2, <2>3
<1>2. CASE Skipped(w, e.val) /\ UNCHANGED <<pc, loopVars, updateVars>>
  <2> USE DEF loopVars, updateVars
  <2>1. TypeOK'
    BY <1>1, <1>2 DEF Receive, IInv, TypeOK, ClusterTypes, LoopTypes, NumberTypes,
       RemoteTypes
  <2>2. PossibleVersions'
    BY <1>1, <1>2 DEF Receive, IInv, TypeOK, ClusterTypes, LoopTypes, ControllerInv, PossibleVersions
  <2>3. (KnowledgeByPhase /\ AppliedSoFar /\ AppliedWhenQuiet)'
    BY <1>2 DEF Receive, IInv, ControllerInv, KnowledgeByPhase, AppliedSoFar,
       AppliedWhenQuiet, Applied, ConnectionApplied, MissingInitialization,
       Updating, Tenant
  <2>4. Delivered'
    <3> SUFFICES ASSUME NEW x \in Watches, watch'[x] = "open", cluster'[x].val # "none"
                 PROVE  IF queue'[x] = <<>>
                          THEN Skipped(x, cluster'[x].val) \/ held'[x] = cluster'[x]
                          ELSE queue'[x][Len(queue'[x])] = cluster'[x]
      BY DEF Delivered
    <3>1. CASE x # w
      BY <1>1, <1>2, <3>1 DEF Receive, IInv, TypeOK, ClusterTypes, ControllerInv, Delivered
    <3>2. CASE x = w
      BY <1>1, <1>2, <3>2, <1>4 DEF Receive, IInv, TypeOK, ClusterTypes
    <3> QED
      BY <3>1, <3>2
  <2> QED
    BY <2>1, <2>2, <2>3, <2>4 DEF IInv, ControllerInv
<1>3. CASE /\ ~Skipped(w, e.val)
           /\ held' = [held EXCEPT ![w] = e]
           /\ retries' = MAX_RETRIES
           /\ \/ /\ MissingInitialization(held')
                 /\ retry' = FALSE
                 /\ UNCHANGED <<pc, updateVars>>
              \/ /\ ~MissingInitialization(held')
                 /\ StartUpdate("event")
                 /\ UNCHANGED <<retry, connection>>
           /\ UNCHANGED kafkaHost
  <2> USE DEF StartUpdate, updateVars
  <2>1. TypeOK'
    <3> USE DEF IInv, TypeOK, Receive
    <3>1. ClusterTypes'
      BY <1>1 DEF ClusterTypes
    <3>2. LoopTypes' /\ NumberTypes'
      <4>1. LoopTypes'
        BY <1>1, <1>3 DEF LoopTypes, Steps
      <4>2. NumberTypes'
        BY <1>3, BoundsAssumption DEF NumberTypes
      <4> QED
        BY <4>1, <4>2
    <3>3. RemoteTypes'
      BY <1>3 DEF RemoteTypes
    <3> QED
      BY <3>1, <3>2, <3>3
  <2>2. PossibleVersions'
    BY <1>1, <1>3 DEF Receive, IInv, TypeOK, ClusterTypes, LoopTypes, ControllerInv, PossibleVersions, Skipped
  <2>3. KnowledgeByPhase' /\ AppliedSoFar' /\ AppliedWhenQuiet'
    BY <1>3 DEF Receive, IInv, ControllerInv, KnowledgeByPhase, AppliedSoFar,
       AppliedWhenQuiet, MissingInitialization, Updating
  <2>4. Delivered'
    <3> SUFFICES ASSUME NEW x \in Watches, watch'[x] = "open", cluster'[x].val # "none"
                 PROVE  IF queue'[x] = <<>>
                          THEN Skipped(x, cluster'[x].val) \/ held'[x] = cluster'[x]
                          ELSE queue'[x][Len(queue'[x])] = cluster'[x]
      BY DEF Delivered
    <3>1. CASE x # w
      BY <1>1, <1>3, <3>1 DEF Receive, IInv, TypeOK, ClusterTypes, LoopTypes,
         ControllerInv, Delivered
    <3>2. CASE x = w
      BY <1>1, <1>3, <3>2, <1>4 DEF Receive, IInv, TypeOK, ClusterTypes, LoopTypes
    <3> QED
      BY <3>1, <3>2
  <2> QED
    BY <2>1, <2>2, <2>3, <2>4 DEF IInv, ControllerInv
<1> QED
  BY <1>2, <1>3 DEF Receive

\* A tick starts update() again with what is held.
LEMMA RetryTickPreserves == ASSUME IInv, RetryTick PROVE IInv'
<1> USE DEF RetryTick, StartUpdate, clusterVars, watchVars, updateVars, remoteVars
<1>1. TypeOK'
  <2> USE DEF IInv, TypeOK
  <2>1. ClusterTypes' /\ RemoteTypes'
    BY DEF ClusterTypes, RemoteTypes
  <2>2. LoopTypes'
    BY DEF LoopTypes, Steps
  <2>3. NumberTypes'
    BY DEF NumberTypes, FloorRetries
  <2> QED
    BY <2>1, <2>2, <2>3
<1>2. PossibleVersions' /\ Delivered'
  BY DEF IInv, ControllerInv, PossibleVersions, Delivered
<1>3. KnowledgeByPhase' /\ AppliedSoFar' /\ AppliedWhenQuiet'
  BY DEF IInv, ControllerInv, KnowledgeByPhase, AppliedSoFar, AppliedWhenQuiet,
     MissingInitialization, Updating
<1> QED
  BY <1>1, <1>2, <1>3 DEF IInv, ControllerInv

-----------------------------------------------------------------------------
(* update() *)

\* While update() runs, what is held names a tenant.
LEMMA HeldTenant ==
    ASSUME TypeOK, PossibleVersions, ~MissingInitialization(held)
    PROVE  Tenant \in Tenants
BY TenantPossible DEF PossibleVersions, MissingInitialization, Tenant, Watches

\* A call of update() leaves the cluster, the queues and what is held alone.
LEMMA CallPreserves ==
    ASSUME IInv, Updating, UpdateUnchanged, Updating', RemoteTypes', LoopTypes',
           NumberTypes', AppliedSoFar'
    PROVE  IInv'
<1> USE DEF UpdateUnchanged, clusterVars, watchVars, loopVars
<1>1. TypeOK'
  BY DEF IInv, TypeOK, ClusterTypes
<1>2. PossibleVersions' /\ Delivered'
  BY DEF IInv, ControllerInv, PossibleVersions, Delivered
<1>3. KnowledgeByPhase' /\ AppliedWhenQuiet'
  BY DEF IInv, ControllerInv, KnowledgeByPhase, AppliedWhenQuiet,
     MissingInitialization, Updating
<1> QED
  BY <1>1, <1>2, <1>3 DEF IInv, ControllerInv

\* The two outcomes of a call keep the types of what they write.
LEMMA OutcomeTypes ==
    ASSUME TypeOK, UpdateUnchanged, Answered \/ Fails, pc' \in Steps
    PROVE  LoopTypes' /\ NumberTypes'
<1> USE DEF UpdateUnchanged, loopVars, clusterVars, Answered, Fails, TypeOK
<1>1. LoopTypes'
  BY DEF LoopTypes
<1>2. NumberTypes'
  BY DEF NumberTypes
<1> QED
  BY <1>1, <1>2

\* The POST of the tenant writes the trust certificate, conflicts, or fails.
LEMMA CreateTenantPreserves == ASSUME IInv, CreateTenant PROVE IInv'
<1> USE DEF IInv, ControllerInv
<1>1. Updating /\ Updating' /\ pc' \in Steps
  BY DEF CreateTenant, Updating, Steps
<1>2. Tenant \in Tenants /\ UpdateUnchanged /\ UNCHANGED <<held, connection, conns, policy>>
  BY <1>1, HeldTenant DEF CreateTenant, KnowledgeByPhase, UpdateUnchanged, loopVars
<1>3. LoopTypes' /\ NumberTypes'
  BY <1>1, <1>2, OutcomeTypes DEF CreateTenant
<1>4. RemoteTypes'
  BY <1>2 DEF CreateTenant, TypeOK, RemoteTypes, LoopTypes, Version, Watches
<1>5. AppliedSoFar'
  BY <1>2 DEF CreateTenant, TypeOK, RemoteTypes, AppliedSoFar, Answered, Fails, Tenant
<1> QED
  BY <1>1, <1>2, <1>3, <1>4, <1>5, CallPreserves

\* The PUT of the tenant writes the trust certificate or fails.
LEMMA UpdateTenantPreserves == ASSUME IInv, UpdateTenant PROVE IInv'
<1> USE DEF IInv, ControllerInv
<1>1. Updating /\ Updating' /\ pc' \in Steps
  BY DEF UpdateTenant, Updating, Steps
<1>2. Tenant \in Tenants /\ UpdateUnchanged /\ UNCHANGED <<held, connection, conns, policy>>
  BY <1>1, HeldTenant DEF UpdateTenant, KnowledgeByPhase, UpdateUnchanged, loopVars
<1>3. LoopTypes' /\ NumberTypes'
  BY <1>1, <1>2, OutcomeTypes DEF UpdateTenant
<1>4. RemoteTypes'
  BY <1>2 DEF UpdateTenant, TypeOK, RemoteTypes, LoopTypes, Version, Watches
<1>5. AppliedSoFar'
  BY <1>2 DEF UpdateTenant, TypeOK, RemoteTypes, AppliedSoFar, Answered, Fails, Tenant
<1> QED
  BY <1>1, <1>2, <1>3, <1>4, <1>5, CallPreserves

\* Reading a connection changes nothing that was applied.
LEMMA GetConnectionPreserves ==
    ASSUME IInv, NEW c \in Connections, GetConnection(c) PROVE IInv'
<1> USE DEF IInv, ControllerInv
<1>1. Updating /\ Updating' /\ pc' \in Steps
  BY DEF GetConnection, Updating, Steps, GetStep, PutStep, AfterConnection, Connections
<1>2. Tenant \in Tenants /\ UpdateUnchanged /\ UNCHANGED <<held, tenants, conns, policy>>
  BY <1>1, HeldTenant
     DEF GetConnection, KnowledgeByPhase, UpdateUnchanged, loopVars, remoteVars
<1>3. LoopTypes' /\ NumberTypes'
  BY <1>1, <1>2, OutcomeTypes DEF GetConnection
<1>4. RemoteTypes'
  <2>1. Template \in Connection
    BY FreshTypes DEF Template, Connection, TypeOK, NumberTypes
  <2> QED
    BY <1>2, <2>1 DEF GetConnection, TypeOK, RemoteTypes
<1>5. AppliedSoFar'
  BY <1>2 DEF GetConnection, AppliedSoFar, Answered, Fails, Tenant, ConnectionApplied,
     GetStep, PutStep, AfterConnection, Connections, UpdateUnchanged, loopVars, Updating
<1> QED
  BY <1>1, <1>2, <1>3, <1>4, <1>5, CallPreserves

\* Writing a connection applies the keys held, to that connection alone.
LEMMA UpdateConnectionPreserves ==
    ASSUME IInv, NEW c \in Connections, UpdateConnection(c) PROVE IInv'
<1> USE DEF IInv, ControllerInv
<1>1. Updating /\ Updating' /\ pc' \in Steps
  BY DEF UpdateConnection, Updating, Steps, PutStep, AfterConnection, Connections
<1>2. /\ Tenant \in Tenants
      /\ UpdateUnchanged
      /\ UNCHANGED <<held, kafkaHost, tenants, policy>>
  BY <1>1, HeldTenant DEF UpdateConnection, KnowledgeByPhase, UpdateUnchanged, loopVars
<1>3. LoopTypes' /\ NumberTypes'
  BY <1>1, <1>2, OutcomeTypes DEF UpdateConnection
<1>4. /\ Updated(connection) \in Connection
      /\ Updated(connection).tls = held["tls"].ver
      /\ Updated(connection).ca = held["ca"].ver
      /\ Updated(connection).uri = kafkaHost
  BY DEF Updated, TypeOK, RemoteTypes, LoopTypes, NumberTypes, Connection, Version, Watches
<1>5. RemoteTypes'
  BY <1>2, <1>4, FreshTypes DEF UpdateConnection, TypeOK, RemoteTypes
<1>6. AppliedSoFar'
  <2> SUFFICES ASSUME ~shouldRetry' PROVE AppliedSoFar'
    BY DEF AppliedSoFar
  <2>1. conns' = [conns EXCEPT ![c][Tenant] = Updated(connection)] /\ ~shouldRetry
    BY DEF UpdateConnection, Answered, Fails
  <2>2. ConnectionApplied(c, held)'
    BY <1>2, <1>4, <2>1 DEF TypeOK, RemoteTypes, ConnectionApplied, Tenant
  <2>3. \A d \in Connections : d # c /\ ConnectionApplied(d, held)
                                 => ConnectionApplied(d, held)'
    BY <1>2, <2>1 DEF TypeOK, RemoteTypes, ConnectionApplied, Tenant
  <2> QED
    BY <1>1, <1>2, <2>1, <2>2, <2>3
       DEF UpdateConnection, AppliedSoFar, PutStep, AfterConnection, Connections, Tenant
<1> QED
  BY <1>1, <1>2, <1>3, <1>5, <1>6, CallPreserves

\* The policy is the last of the four resources.
LEMMA UpdatePolicyPreserves == ASSUME IInv, UpdatePolicy PROVE IInv'
<1> USE DEF IInv, ControllerInv
<1>1. Updating /\ Updating' /\ pc' \in Steps
  BY DEF UpdatePolicy, Updating, Steps
<1>2. UpdateUnchanged /\ UNCHANGED <<held, kafkaHost, connection, tenants, conns>>
  BY DEF UpdatePolicy, UpdateUnchanged, loopVars
<1>3. LoopTypes' /\ NumberTypes'
  BY <1>1, <1>2, OutcomeTypes DEF UpdatePolicy
<1>4. RemoteTypes'
  BY <1>2 DEF UpdatePolicy, TypeOK, RemoteTypes
<1>5. AppliedSoFar'
  <2> SUFFICES ASSUME ~shouldRetry' PROVE AppliedSoFar'
    BY DEF AppliedSoFar
  <2>1. policy' /\ ~shouldRetry /\ pc = "policy" /\ pc' = "return"
    BY DEF UpdatePolicy, Answered, Fails
  <2>2. /\ (tenants[Tenant] = held["trust"].ver)'
        /\ ConnectionApplied("hono", held)'
        /\ ConnectionApplied("export", held)'
    BY <1>1, <1>2, <2>1 DEF AppliedSoFar, ConnectionApplied, Tenant
  <2> QED
    BY <2>1, <2>2 DEF AppliedSoFar
<1> QED
  BY <1>1, <1>2, <1>3, <1>4, <1>5, CallPreserves

\* update() returns with everything applied, or with a retry pending.
LEMMA UpdateReturnsPreserves == ASSUME IInv, UpdateReturns PROVE IInv'
<1> USE DEF IInv, ControllerInv, UpdateReturns, RetryPending, clusterVars, watchVars, remoteVars
<1>1. TypeOK'
  <2>1. ClusterTypes' /\ RemoteTypes' /\ NumberTypes'
    BY DEF TypeOK, ClusterTypes, RemoteTypes, NumberTypes
  <2>2. LoopTypes'
    BY DEF TypeOK, LoopTypes, Steps
  <2> QED
    BY <2>1, <2>2 DEF TypeOK
<1>2. PossibleVersions' /\ Delivered'
  BY DEF PossibleVersions, Delivered
<1>3. KnowledgeByPhase' /\ AppliedSoFar'
  BY DEF KnowledgeByPhase, AppliedSoFar, Updating
<1>4. AppliedWhenQuiet'
  <2> SUFFICES ASSUME ~retry' PROVE Applied(held)'
    BY DEF AppliedWhenQuiet
  <2>1. Updating /\ ~shouldRetry
    BY DEF KnowledgeByPhase, Updating, TypeOK, LoopTypes
  <2>2. /\ tenants[Tenant] = held["trust"].ver
        /\ policy
        /\ ConnectionApplied("hono", held)
        /\ ConnectionApplied("export", held)
    BY <2>1 DEF AppliedSoFar
  <2> QED
    BY <2>2 DEF Applied, ConnectionApplied, Connections, Tenant
<1> QED
  BY <1>1, <1>2, <1>3, <1>4

-----------------------------------------------------------------------------
(* The cluster *)

\* A step of the cluster leaves the controller's memory and Hono and Ditto alone.
LEMMA ClusterStepPreserves ==
    ASSUME IInv, ClusterTypes', version' \in Nat, PossibleVersions', Delivered',
           UNCHANGED <<kafka, pc, loopVars, updateVars, remoteVars, failures, restarts>>
    PROVE  IInv'
<1> USE DEF loopVars, updateVars, remoteVars, IInv, ControllerInv
<1>1. LoopTypes' /\ RemoteTypes'
  BY DEF TypeOK, LoopTypes, RemoteTypes
<1>2. NumberTypes'
  BY DEF TypeOK, NumberTypes
<1>3. KnowledgeByPhase' /\ AppliedSoFar' /\ AppliedWhenQuiet'
  BY DEF KnowledgeByPhase, AppliedSoFar, AppliedWhenQuiet, MissingInitialization,
     Updating, Applied, ConnectionApplied, Tenant
<1> QED
  BY <1>1, <1>2, <1>3 DEF TypeOK

\* A change is reported to every open watch of its object.
LEMMA PublishPreserves == ASSUME IInv, NEW o, Publish(o) PROVE IInv'
<1> USE DEF IInv, ControllerInv
<1>1. PICK vals \in [Settings(o) -> Contents] :
        /\ \A w \in Settings(o) : vals[w] \in Published[w]
        /\ cluster' = [w \in Watches |->
                         IF w \in Settings(o)
                           THEN [ver |-> version + 1, val |-> vals[w]]
                           ELSE cluster[w]]
  BY DEF Publish
<1>2. \A w \in Watches :
        /\ cluster'[w] \in Version
        /\ cluster'[w].val \in Possible(w) \cup {"none"}
        /\ w \in Settings(o) => cluster'[w].val \in Possible(w)
        /\ w \notin Settings(o) => cluster'[w] = cluster[w]
  BY <1>1, PossibleContents
     DEF TypeOK, ClusterTypes, NumberTypes, Version, PossibleVersions
<1>3. \A w \in Watches :
        \/ queue'[w] = queue[w] /\ (w \notin Settings(o) \/ watch[w] # "open")
        \/ /\ w \in Settings(o)
           /\ queue'[w] = Append(queue[w], cluster'[w])
  BY DEF Publish, Enqueued
<1>4. ClusterTypes'
  <2>1. cluster' \in [Watches -> Version]
    BY <1>1, <1>2
  <2>2. \A w \in Watches : queue'[w] \in Seq(Version)
    <3> TAKE w \in Watches
    <3>1. queue[w] \in Seq(Version) /\ cluster'[w] \in Version
      BY <1>2 DEF TypeOK, ClusterTypes
    <3>2. Append(queue[w], cluster'[w]) \in Seq(Version)
      BY <3>1, AppendProperties
    <3> QED
      BY <1>3, <3>1, <3>2
  <2>3. queue' \in [Watches -> Seq(Version)]
    BY <2>2 DEF Publish
  <2> QED
    BY <2>1, <2>3 DEF Publish, TypeOK, ClusterTypes
<1>5. PossibleVersions'
  <2> SUFFICES ASSUME NEW w \in Watches
               PROVE  \A i \in 1 .. Len(queue'[w]) : queue'[w][i].val \in Possible(w)
    BY <1>2 DEF Publish, PossibleVersions, loopVars
  <2>1. CASE queue'[w] = queue[w]
    BY <2>1 DEF PossibleVersions
  <2>2. CASE w \in Settings(o) /\ queue'[w] = Append(queue[w], cluster'[w])
    BY <1>2, <2>2 DEF PossibleVersions, TypeOK, ClusterTypes
  <2> QED
    BY <1>3, <2>1, <2>2
<1>6. Delivered'
  <2> SUFFICES ASSUME NEW w \in Watches, watch'[w] = "open", cluster'[w].val # "none"
               PROVE  IF queue'[w] = <<>>
                        THEN Skipped(w, cluster'[w].val) \/ held'[w] = cluster'[w]
                        ELSE queue'[w][Len(queue'[w])] = cluster'[w]
    BY DEF Delivered
  <2>1. CASE w \notin Settings(o)
    BY <1>2, <1>3, <2>1 DEF Publish, Delivered, loopVars
  <2>2. CASE w \in Settings(o)
    <3>1. queue'[w] = Append(queue[w], cluster'[w])
      BY <1>3, <2>2 DEF Publish
    <3> QED
      BY <1>2, <3>1 DEF TypeOK, ClusterTypes
  <2> QED
    BY <2>1, <2>2
<1> QED
  BY <1>4, <1>5, <1>6, ClusterStepPreserves DEF Publish, TypeOK, NumberTypes

\* A deletion is not reported, and leaves nothing to deliver.
LEMMA DeletePreserves == ASSUME IInv, NEW o, Delete(o) PROVE IInv'
<1> USE DEF IInv, ControllerInv, Delete, watchVars
<1>1. \A w \in Watches :
        /\ cluster'[w] \in Version
        /\ cluster'[w] = cluster[w] \/ cluster'[w].val = "none"
  BY PossibleContents DEF TypeOK, ClusterTypes, NumberTypes, Version
<1>2. ClusterTypes'
  BY <1>1 DEF TypeOK, ClusterTypes
<1>3. PossibleVersions' /\ Delivered'
  BY <1>1 DEF PossibleVersions, Delivered, loopVars
<1> QED
  BY <1>2, <1>3, ClusterStepPreserves DEF TypeOK, NumberTypes

\* A watch that ends promises no delivery.
LEMMA CloseWatchPreserves == ASSUME IInv, NEW w \in Watches, CloseWatch(w) PROVE IInv'
<1> USE DEF IInv, ControllerInv, CloseWatch, clusterVars
<1>1. ClusterTypes'
  BY DEF TypeOK, ClusterTypes
<1>2. PossibleVersions' /\ Delivered'
  BY DEF PossibleVersions, Delivered, TypeOK, ClusterTypes, loopVars
<1> QED
  BY <1>1, <1>2, ClusterStepPreserves DEF TypeOK, NumberTypes

-----------------------------------------------------------------------------
(* The theorems *)

\* Every step keeps the invariant: one case per action.
LEMMA StepPreserves == IInv /\ [Next]_vars => IInv'
<1> SUFFICES ASSUME IInv, [Next]_vars PROVE IInv'
  OBVIOUS
<1>1. CASE ControllerStep
  <2>1. ASSUME Panic PROVE IInv'
    BY <2>1, RestartPreserves DEF Panic, clusterVars, IInv, TypeOK, NumberTypes
  <2>2. ASSUME StartFails PROVE IInv'
    BY <2>2, RestartPreserves DEF StartFails, clusterVars, IInv, TypeOK, NumberTypes
  <2> QED
    BY <1>1, <2>1, <2>2, WaitServicesPreserves, OpenWatchPreserves, ReceivePreserves,
       RetryTickPreserves, CreateTenantPreserves, UpdateTenantPreserves,
       GetConnectionPreserves, UpdateConnectionPreserves, UpdatePolicyPreserves,
       UpdateReturnsPreserves DEF ControllerStep
<1>2. CASE \E o \in Changing : Publish(o) \/ Delete(o)
  BY <1>2, PublishPreserves, DeletePreserves
<1>3. CASE \E w \in Watches : CloseWatch(w)
  BY <1>3, CloseWatchPreserves
<1>4. CASE KillPod
  BY <1>4, RestartPreserves DEF KillPod, clusterVars, IInv, TypeOK, NumberTypes
<1>5. CASE MoveKafka
  BY <1>5, RestartPreserves DEF MoveKafka, IInv, TypeOK, NumberTypes
<1>6. CASE UNCHANGED vars
  <2>1. Delivered' /\ PossibleVersions' /\ KnowledgeByPhase' /\ AppliedSoFar'
        /\ AppliedWhenQuiet'
    BY <1>6 DEF IInv, ControllerInv, Delivered, PossibleVersions, KnowledgeByPhase,
       AppliedSoFar, AppliedWhenQuiet, MissingInitialization, Updating, Tenant,
       Applied, ConnectionApplied, vars, clusterVars, watchVars, loopVars,
       updateVars, remoteVars
  <2>2. TypeOK'
    BY <1>6 DEF IInv, TypeOK, ClusterTypes, LoopTypes, NumberTypes, RemoteTypes,
       vars, clusterVars, watchVars, loopVars, updateVars, remoteVars
  <2> QED
    BY <2>1, <2>2 DEF IInv, ControllerInv
<1> QED
  BY <1>1, <1>2, <1>3, <1>4, <1>5, <1>6 DEF Next

\* The invariants hold in every execution of the controller (main.go:180-378).
THEOREM Invariance == Spec => []IInv
BY InitialInvariant, StepPreserves, PTL DEF Spec

\* Every variable keeps its type in every execution of the controller.
THEOREM TypeCorrectness == Spec => []TypeOK
BY Invariance, PTL DEF IInv

\* What is queued, held and written stay tied to one another (main.go:180-377).
THEOREM InvariantTheorem == Spec => []ControllerInv
BY Invariance, PTL DEF IInv

\* An update that reports success has written all four resources (main.go:180-226).
THEOREM SuccessTheorem == Spec => []SuccessMeansApplied
<1>1. IInv => SuccessMeansApplied
  BY DEF IInv, ControllerInv, AppliedSoFar, SuccessMeansApplied, Updating, Applied,
     ConnectionApplied, Connections, Tenant
<1> QED
  BY <1>1, Invariance, PTL

\* A loop at rest, with every watch delivered, has applied the cluster's
\* settings (main.go:309-377).
THEOREM QuietTheorem == Spec => []QuietMeansSynced
<1>1. IInv => QuietMeansSynced
  <2> SUFFICES ASSUME IInv, pc = "idle", ~retry,
                      \A w \in Watches : /\ watch[w] = "open"
                                         /\ queue[w] = <<>>
                                         /\ Usable(w)
               PROVE  Applied(cluster)
    BY DEF QuietMeansSynced
  <2>1. \A w \in Watches : held[w] = cluster[w]
    BY DEF IInv, ControllerInv, Delivered, Usable, Skipped
  <2>2. ~MissingInitialization(held)
    BY <2>1 DEF MissingInitialization, Usable
  <2> QED
    BY <2>1, <2>2 DEF IInv, ControllerInv, AppliedWhenQuiet, Applied,
       ConnectionApplied, Watches
<1> QED
  BY <1>1, Invariance, PTL

-----------------------------------------------------------------------------
(* The controller implements ConfigSync: nothing that Hono or Ditto holds is *)
(* ever replaced by an older version.                                         *)

\* What is held of w is no newer than the cluster, and usable once it is set.
HeldInOrder(w) ==
    /\ cluster[w].ver \in 1 .. version
    /\ held[w].ver <= cluster[w].ver
    /\ held[w].ver = 0 => held[w].val = "empty"

\* A watch delivers versions in the order of their publication.
QueueInOrder(w) ==
    \A i \in 1 .. Len(queue[w]) :
        /\ queue[w][i].ver \in 1 .. cluster[w].ver
        /\ held[w].ver <= queue[w][i].ver
        /\ \A j \in 1 .. i : queue[w][j].ver <= queue[w][i].ver

VersionsInOrder == \A w \in Watches : HeldInOrder(w) /\ QueueInOrder(w)

\* v is no newer than anything the controller may still write for setting w.
Behind(w, v) ==
    /\ v <= cluster[w].ver
    /\ \A i \in 1 .. Len(queue[w]) : v <= queue[w][i].ver
    /\ held[w].ver # 0 => v <= held[w].ver

RemoteBehind ==
    \A t \in Tenants :
        /\ Behind("trust", tenants[t])
        /\ \A c \in Connections : /\ Behind("tls", conns[c][t].tls)
                                  /\ Behind("ca", conns[c][t].ca)

SyncInv == VersionsInOrder /\ RemoteBehind

\* The numbers the invariant compares are natural numbers.
LEMMA SyncTypes ==
    ASSUME TypeOK
    PROVE  /\ version \in Nat
           /\ \A w \in Watches :
                /\ cluster[w].ver \in Nat
                /\ held[w].ver \in Nat
                /\ queue[w] \in Seq(Version)
                /\ Len(queue[w]) \in Nat
                /\ \A i \in 1 .. Len(queue[w]) : queue[w][i].ver \in Nat
           /\ \A t \in Tenants :
                /\ tenants[t] \in Nat
                /\ \A c \in Connections : conns[c][t].tls \in Nat /\ conns[c][t].ca \in Nat
<1> USE DEF TypeOK
<1>1. version \in Nat
  BY DEF NumberTypes
<1>2. ASSUME NEW w \in Watches
      PROVE  /\ cluster[w].ver \in Nat
             /\ held[w].ver \in Nat
             /\ queue[w] \in Seq(Version)
             /\ Len(queue[w]) \in Nat
             /\ \A i \in 1 .. Len(queue[w]) : queue[w][i].ver \in Nat
  <2>1. cluster[w] \in Version /\ held[w] \in Version /\ queue[w] \in Seq(Version)
    BY DEF ClusterTypes, LoopTypes
  <2>2. Len(queue[w]) \in Nat /\ \A i \in 1 .. Len(queue[w]) : queue[w][i] \in Version
    BY <2>1
  <2> QED
    BY <2>1, <2>2 DEF Version
<1>3. ASSUME NEW t \in Tenants
      PROVE  /\ tenants[t] \in Nat
             /\ \A c \in Connections : conns[c][t].tls \in Nat /\ conns[c][t].ca \in Nat
  <2>1. tenants[t] \in Nat /\ \A c \in Connections : conns[c][t] \in Connection
    BY DEF RemoteTypes
  <2> QED
    BY <2>1 DEF Connection
<1> QED
  BY <1>1, <1>2, <1>3

\* A step that leaves Hono and Ditto alone, and whatever was behind a setting
\* behind it, leaves them behind.
LEMMA RemoteStaysBehind ==
    ASSUME TypeOK, RemoteBehind, UNCHANGED <<tenants, conns>>,
           \A w \in Watches, v \in Nat : Behind(w, v) => Behind(w, v)'
    PROVE  RemoteBehind'
BY SyncTypes DEF RemoteBehind, Watches

\* Nothing is written before the platform is installed.
LEMMA InitialSync == Init => SyncInv
<1> SUFFICES ASSUME Init PROVE SyncInv
  OBVIOUS
<1>1. /\ version = 1
      /\ \A w \in Watches : /\ cluster[w].ver = 1
                            /\ held[w] = Unset
                            /\ queue[w] = <<>>
  BY DEF Init, FreshProcess
<1>2. VersionsInOrder
  BY <1>1 DEF VersionsInOrder, HeldInOrder, QueueInOrder, Unset
<1>3. \A w \in Watches : Behind(w, 0)
  BY <1>1 DEF Behind, Unset
<1>4. \A t \in Tenants : /\ tenants[t] = 0
                         /\ \A c \in Connections : /\ conns[c][t].tls = 0
                                                   /\ conns[c][t].ca = 0
  BY DEF Init, NoConnection
<1>5. Behind("trust", 0) /\ Behind("tls", 0) /\ Behind("ca", 0)
  BY <1>3 DEF Watches
<1>6. RemoteBehind
  BY <1>4, <1>5 DEF RemoteBehind, Behind
<1> QED
  BY <1>2, <1>6 DEF SyncInv

\* A new process holds nothing and has nothing queued.
LEMMA RestartSync ==
    ASSUME TypeOK, SyncInv, Restart, UNCHANGED <<cluster, version, remoteVars>>
    PROVE  SyncInv'
<1>1. \A w \in Watches : held'[w] = Unset /\ queue'[w] = <<>>
  BY DEF Restart
<1>2. VersionsInOrder'
  BY <1>1, SyncTypes DEF SyncInv, VersionsInOrder, HeldInOrder, QueueInOrder, Unset
<1>3. \A w \in Watches, v \in Nat : Behind(w, v) => Behind(w, v)'
  BY <1>1 DEF Behind, Unset
<1> QED
  BY <1>2, <1>3, RemoteStaysBehind DEF SyncInv, remoteVars

\* A watch that opens reports the newest version.
LEMMA OpenWatchSync ==
    ASSUME TypeOK, SyncInv, NEW w \in Watches, OpenWatch(w) PROVE SyncInv'
<1>1. /\ UNCHANGED <<cluster, version, held, tenants, conns>>
      /\ \A x \in Watches :
           \/ queue'[x] = queue[x]
           \/ queue'[x] = <<>>
           \/ queue'[x] = <<cluster[x]>>
  BY DEF OpenWatch, FirstReport, clusterVars, loopVars, remoteVars, TypeOK, ClusterTypes
<1>2. \A x \in Watches :
        \/ queue'[x] = queue[x]
        \/ \A i \in 1 .. Len(queue'[x]) : i = 1 /\ queue'[x][i] = cluster[x]
  <2> SUFFICES ASSUME NEW x \in Watches, queue'[x] # queue[x],
                      NEW i \in 1 .. Len(queue'[x])
               PROVE  i = 1 /\ queue'[x][i] = cluster[x]
    OBVIOUS
  <2>1. CASE queue'[x] = <<>>
    BY <2>1
  <2>2. CASE queue'[x] = <<cluster[x]>>
    <3>1. Len(queue'[x]) = 1 /\ queue'[x][1] = cluster[x]
      BY <2>2
    <3> QED
      BY <3>1
  <2> QED
    BY <1>1, <2>1, <2>2
<1>3. VersionsInOrder'
  <2> SUFFICES ASSUME NEW x \in Watches PROVE HeldInOrder(x)' /\ QueueInOrder(x)'
    BY DEF VersionsInOrder
  <2>1. HeldInOrder(x)'
    BY <1>1 DEF SyncInv, VersionsInOrder, HeldInOrder
  <2>2. QueueInOrder(x)'
    <3> HeldInOrder(x) /\ QueueInOrder(x)
      BY DEF SyncInv, VersionsInOrder
    <3>1. CASE queue'[x] = queue[x]
      BY <1>1, <3>1 DEF QueueInOrder
    <3>2. CASE queue'[x] # queue[x]
      <4>1. \A i \in 1 .. Len(queue'[x]) :
              /\ queue'[x][i] = cluster[x]
              /\ \A j \in 1 .. i : queue'[x][j] = cluster[x]
        BY <1>2, <3>2
      <4> QED
        BY <1>1, <4>1, SyncTypes DEF HeldInOrder, QueueInOrder
    <3> QED
      BY <3>1, <3>2
  <2> QED
    BY <2>1, <2>2
<1>4. \A x \in Watches, v \in Nat : Behind(x, v) => Behind(x, v)'
  BY <1>1, <1>2 DEF Behind
<1> QED
  BY <1>1, <1>3, <1>4, RemoteStaysBehind DEF SyncInv

\* What is received was queued after what was held, and before the rest.
LEMMA ReceiveSync ==
    ASSUME TypeOK, SyncInv, NEW w \in Watches, Receive(w) PROVE SyncInv'
<1>1. /\ Len(queue[w]) \in Nat \ {0}
      /\ queue'[w] = Tail(queue[w])
      /\ Len(queue'[w]) = Len(queue[w]) - 1
      /\ \A i \in 1 .. Len(queue'[w]) : queue'[w][i] = queue[w][i + 1]
      /\ \A x \in Watches \ {w} : queue'[x] = queue[x] /\ held'[x] = held[x]
      /\ UNCHANGED <<cluster, version, tenants, conns>>
  BY DEF Receive, loopVars, clusterVars, remoteVars, TypeOK, ClusterTypes, LoopTypes
<1>2. held'[w] = held[w] \/ held'[w] = queue[w][1]
  BY DEF Receive, loopVars, TypeOK, LoopTypes, ClusterTypes
<1>3. VersionsInOrder'
  <2> SUFFICES ASSUME NEW x \in Watches PROVE HeldInOrder(x)' /\ QueueInOrder(x)'
    BY DEF VersionsInOrder
  <2>1. CASE x # w
    BY <1>1, <2>1 DEF SyncInv, VersionsInOrder, HeldInOrder, QueueInOrder
  <2>2. CASE x = w
    <3>1. HeldInOrder(w) /\ QueueInOrder(w)
      BY DEF SyncInv, VersionsInOrder
    <3>2. 1 \in 1 .. Len(queue[w]) /\ queue[w][1].ver \in 1 .. cluster[w].ver
      BY <1>1, <3>1 DEF QueueInOrder
    <3>3. HeldInOrder(w)'
      BY <1>1, <1>2, <3>1, <3>2, SyncTypes DEF HeldInOrder
    <3>4. \A i \in 1 .. Len(queue'[w]) :
            /\ i + 1 \in 1 .. Len(queue[w])
            /\ \A j \in 1 .. i : /\ j + 1 \in 1 .. i + 1
                                 /\ queue'[w][j] = queue[w][j + 1]
            /\ 1 \in 1 .. i + 1
      BY <1>1
    <3>5. ASSUME NEW i \in 1 .. Len(queue'[w])
          PROVE  /\ queue'[w][i].ver \in 1 .. cluster'[w].ver
                 /\ held'[w].ver <= queue'[w][i].ver
                 /\ \A j \in 1 .. i : queue'[w][j].ver <= queue'[w][i].ver
      <4>1. queue'[w][i] = queue[w][i + 1]
        BY <1>1
      <4>2. /\ queue[w][i + 1].ver \in 1 .. cluster[w].ver
            /\ held[w].ver <= queue[w][i + 1].ver
            /\ \A j \in 1 .. i + 1 : queue[w][j].ver <= queue[w][i + 1].ver
        BY <3>1, <3>4 DEF QueueInOrder
      <4>3. queue[w][1].ver <= queue[w][i + 1].ver
        BY <3>4, <4>2
      <4> QED
        BY <1>1, <1>2, <3>4, <4>1, <4>2, <4>3
    <3> QED
      BY <2>2, <3>3, <3>5 DEF QueueInOrder
  <2> QED
    BY <2>1, <2>2
<1>4. \A x \in Watches, v \in Nat : Behind(x, v) => Behind(x, v)'
  <2> SUFFICES ASSUME NEW x \in Watches, NEW v \in Nat, Behind(x, v)
               PROVE  Behind(x, v)'
    OBVIOUS
  <2>1. CASE x # w
    BY <1>1, <2>1 DEF Behind
  <2>2. CASE x = w
    <3>1. 1 \in 1 .. Len(queue[w]) /\ \A i \in 1 .. Len(queue'[w]) : i + 1 \in 1 .. Len(queue[w])
      BY <1>1
    <3> QED
      BY <1>1, <1>2, <2>2, <3>1 DEF Behind
  <2> QED
    BY <2>1, <2>2
<1> QED
  BY <1>1, <1>3, <1>4, RemoteStaysBehind DEF SyncInv

\* A step that queues the newest version, or none, keeps the order.
LEMMA ClusterSync ==
    ASSUME TypeOK, SyncInv,
           version' = version + 1,
           \A w \in Watches :
              /\ cluster'[w] = cluster[w] \/ cluster'[w].ver = version'
              /\ \/ queue'[w] = queue[w]
                 \/ /\ cluster'[w].ver = version'
                    /\ queue'[w] = Append(queue[w], cluster'[w]),
           UNCHANGED <<held, tenants, conns>>
    PROVE  SyncInv'
<1>1. ASSUME NEW w \in Watches
      PROVE  HeldInOrder(w)' /\ cluster'[w].ver \in Nat /\ cluster[w].ver <= cluster'[w].ver
  BY SyncTypes DEF SyncInv, VersionsInOrder, HeldInOrder
<1>2. ASSUME NEW w \in Watches, queue'[w] # queue[w]
      PROVE  /\ cluster'[w].ver = version'
             /\ Len(queue'[w]) = Len(queue[w]) + 1
             /\ Len(queue[w]) \in Nat
             /\ queue'[w][Len(queue'[w])] = cluster'[w]
             /\ \A i \in 1 .. Len(queue[w]) : queue'[w][i] = queue[w][i]
  BY <1>2, SyncTypes
<1>3. ASSUME NEW w \in Watches PROVE QueueInOrder(w)'
  <2> HeldInOrder(w) /\ QueueInOrder(w)
    BY DEF SyncInv, VersionsInOrder
  <2>1. CASE queue'[w] = queue[w]
    BY <1>1, <2>1, SyncTypes DEF QueueInOrder, HeldInOrder
  <2>2. CASE queue'[w] # queue[w]
    <3> SUFFICES ASSUME NEW i \in 1 .. Len(queue'[w])
                 PROVE  /\ queue'[w][i].ver \in 1 .. cluster'[w].ver
                        /\ held'[w].ver <= queue'[w][i].ver
                        /\ \A j \in 1 .. i : queue'[w][j].ver <= queue'[w][i].ver
      BY DEF QueueInOrder
    <3>1. \A j \in 1 .. Len(queue[w]) :
            /\ queue'[w][j] = queue[w][j]
            /\ queue[w][j].ver \in 1 .. cluster[w].ver
      BY <1>2, <2>2 DEF QueueInOrder
    <3>2. CASE i \in 1 .. Len(queue[w])
      <4>1. /\ queue'[w][i] = queue[w][i]
            /\ \A j \in 1 .. i : queue'[w][j] = queue[w][j]
        BY <1>2, <2>2, <3>2
      <4>2. /\ queue[w][i].ver \in 1 .. cluster[w].ver
            /\ held[w].ver <= queue[w][i].ver
            /\ \A j \in 1 .. i : queue[w][j].ver <= queue[w][i].ver
        BY <3>2 DEF QueueInOrder
      <4>3. queue'[w][i].ver \in 1 .. cluster'[w].ver
        BY <1>1, <4>1, <4>2, SyncTypes
      <4>4. \A j \in 1 .. i : queue'[w][j].ver <= queue'[w][i].ver
        BY <4>1, <4>2
      <4> QED
        BY <4>1, <4>2, <4>3, <4>4
    <3>3. CASE i = Len(queue'[w])
      <4>1. queue'[w][i] = cluster'[w] /\ cluster'[w].ver \in 1 .. cluster'[w].ver
        BY <1>1, <1>2, <2>2, <3>3 DEF HeldInOrder
      <4>2. held'[w].ver <= cluster'[w].ver
        BY <1>1 DEF HeldInOrder
      <4>3. ASSUME NEW j \in 1 .. i PROVE queue'[w][j].ver <= cluster'[w].ver
        <5>1. CASE j = i
          BY <4>1, <5>1
        <5>2. CASE j # i
          <6>1. j \in 1 .. Len(queue[w])
            BY <1>2, <2>2, <3>3, <5>2
          <6> QED
            BY <1>1, <3>1, <6>1, SyncTypes
        <5> QED
          BY <5>1, <5>2
      <4> QED
        BY <4>1, <4>2, <4>3
    <3> QED
      BY <1>2, <2>2, <3>2, <3>3, SyncTypes
  <2> QED
    BY <2>1, <2>2
<1>4. VersionsInOrder'
  BY <1>1, <1>3 DEF VersionsInOrder
<1>5. \A w \in Watches, v \in Nat : Behind(w, v) => Behind(w, v)'
  <2> SUFFICES ASSUME NEW w \in Watches, NEW v \in Nat, Behind(w, v)
               PROVE  Behind(w, v)'
    OBVIOUS
  <2>1. v <= cluster'[w].ver
    BY <1>1, SyncTypes DEF Behind
  <2>2. ASSUME NEW i \in 1 .. Len(queue'[w]) PROVE v <= queue'[w][i].ver
    <3>1. CASE queue'[w] = queue[w]
      BY <3>1 DEF Behind
    <3>2. CASE queue'[w] # queue[w] /\ i = Len(queue'[w])
      BY <1>2, <2>1, <3>2
    <3>3. CASE queue'[w] # queue[w] /\ i # Len(queue'[w])
      <4>1. i \in 1 .. Len(queue[w]) /\ queue'[w][i] = queue[w][i]
        BY <1>2, <3>3
      <4> QED
        BY <4>1 DEF Behind
    <3> QED
      BY <3>1, <3>2, <3>3
  <2> QED
    BY <2>1, <2>2 DEF Behind
<1> QED
  BY <1>4, <1>5, RemoteStaysBehind DEF SyncInv

-----------------------------------------------------------------------------
(* Every step is a step of ConfigSync *)

\* A step that writes nothing and changes no setting is a stutter.
LEMMA Stutters == ASSUME UNCHANGED <<cluster, tenants, conns>> PROVE UNCHANGED Sync!vars
BY DEF Sync!vars

\* A step that also leaves the queues and what is held keeps the order.
LEMMA SameSync ==
    ASSUME SyncInv, UNCHANGED <<cluster, queue, held, version, tenants, conns>>
    PROVE  SyncInv'
BY DEF SyncInv, VersionsInOrder, HeldInOrder, QueueInOrder, RemoteBehind, Behind

\* While update() runs, every setting that is held was published.
LEMMA HeldIsBehind ==
    ASSUME TypeOK, SyncInv, ~MissingInitialization(held), NEW w \in Watches
    PROVE  Behind(w, held[w].ver) /\ held[w].ver # 0
<1>1. HeldInOrder(w) /\ QueueInOrder(w)
  BY DEF SyncInv, VersionsInOrder
<1>2. held[w].ver # 0
  BY <1>1 DEF HeldInOrder, MissingInitialization
<1> QED
  BY <1>1, <1>2, SyncTypes DEF Behind, HeldInOrder, QueueInOrder

\* Writing the trust certificate that is held moves the tenant's forward.
LEMMA TenantWritten ==
    ASSUME IInv, SyncInv, ~MissingInitialization(held), UpdateUnchanged,
           tenants' = [tenants EXCEPT ![Tenant] = held["trust"].ver],
           UNCHANGED conns
    PROVE  SyncInv' /\ Sync!Trust(Tenant)
<1>1. Tenant \in Tenants /\ TypeOK /\ tenants \in [Tenants -> Nat]
  BY HeldTenant DEF IInv, ControllerInv, TypeOK, RemoteTypes
<1>2. UNCHANGED <<cluster, queue, held, version>>
  BY DEF UpdateUnchanged, clusterVars, watchVars, loopVars
<1>3. "trust" \in Watches
  BY DEF Watches
<1>4. Behind("trust", held["trust"].ver) /\ held["trust"].ver # 0
  BY <1>1, <1>3, HeldIsBehind
<1>5. \A w \in Watches, v \in Nat : Behind(w, v) => Behind(w, v)'
  BY <1>2 DEF Behind
<1>6. RemoteBehind'
  <2> SUFFICES ASSUME NEW t \in Tenants
               PROVE  /\ Behind("trust", tenants[t])'
                      /\ \A c \in Connections : /\ Behind("tls", conns[c][t].tls)'
                                                /\ Behind("ca", conns[c][t].ca)'
    BY DEF RemoteBehind
  <2>1. tenants'[t] = tenants[t] \/ tenants'[t] = held["trust"].ver
    BY <1>1
  <2>2. /\ Behind("trust", tenants[t])
        /\ \A c \in Connections : /\ Behind("tls", conns[c][t].tls)
                                  /\ Behind("ca", conns[c][t].ca)
    BY DEF SyncInv, RemoteBehind
  <2> QED
    BY <1>2, <1>4, <2>1, <2>2 DEF Behind
<1>7. VersionsInOrder'
  BY <1>2 DEF SyncInv, VersionsInOrder, HeldInOrder, QueueInOrder
<1>8. held["trust"].ver \in tenants[Tenant] .. cluster["trust"].ver
  <2>1. Behind("trust", tenants[Tenant])
    BY <1>1 DEF SyncInv, RemoteBehind
  <2> QED
    BY <1>1, <1>3, <1>4, <2>1, SyncTypes DEF Behind
<1>9. Sync!Trust(Tenant)
  BY <1>2, <1>8 DEF Sync!Trust
<1> QED
  BY <1>6, <1>7, <1>9 DEF SyncInv

\* The write of a connection (main.go:132-141).
Rewritten(c) == conns' = [conns EXCEPT ![c][Tenant] = Updated(connection)]

\* Writing a connection moves its keys forward.
LEMMA ConnectionWritten ==
    ASSUME IInv, SyncInv, ~MissingInitialization(held), UpdateUnchanged,
           NEW c \in Connections, Rewritten(c), UNCHANGED tenants,
           NEW t \in Tenants, t = Tenant
    PROVE  SyncInv' /\ Sync!Rekey(c, t)
<1>1. /\ Tenant \in Tenants
      /\ TypeOK
      /\ conns \in [Connections -> [Tenants -> Connection]]
  BY HeldTenant DEF IInv, ControllerInv, TypeOK, RemoteTypes
<1>2. UNCHANGED <<cluster, queue, held, version>>
  BY DEF UpdateUnchanged, clusterVars, watchVars, loopVars
<1>3. "tls" \in Watches /\ "ca" \in Watches
  BY DEF Watches
<1>4. /\ Behind("tls", held["tls"].ver) /\ held["tls"].ver # 0
      /\ Behind("ca", held["ca"].ver) /\ held["ca"].ver # 0
  BY <1>1, <1>3, HeldIsBehind
<1>5. Updated(connection).tls = held["tls"].ver /\ Updated(connection).ca = held["ca"].ver
  BY <1>1 DEF Updated, TypeOK, RemoteTypes, Connection
<1>6. \A d \in Connections, u \in Tenants :
        \/ conns'[d][u] = conns[d][u] /\ ~(d = c /\ u = Tenant)
        \/ conns'[d][u] = Updated(connection) /\ d = c /\ u = Tenant
  BY <1>1 DEF Rewritten
<1>7. RemoteBehind'
  <2> SUFFICES ASSUME NEW u \in Tenants, NEW d \in Connections
               PROVE  /\ Behind("trust", tenants[u])'
                      /\ Behind("tls", conns[d][u].tls)'
                      /\ Behind("ca", conns[d][u].ca)'
    BY DEF RemoteBehind, Connections
  <2>1. /\ Behind("trust", tenants[u])
        /\ Behind("tls", conns[d][u].tls)
        /\ Behind("ca", conns[d][u].ca)
    BY DEF SyncInv, RemoteBehind
  <2>2. \/ conns'[d][u].tls = conns[d][u].tls /\ conns'[d][u].ca = conns[d][u].ca
        \/ conns'[d][u].tls = held["tls"].ver /\ conns'[d][u].ca = held["ca"].ver
    BY <1>5, <1>6
  <2> QED
    BY <1>2, <1>4, <2>1, <2>2 DEF Behind
<1>8. VersionsInOrder'
  BY <1>2 DEF SyncInv, VersionsInOrder, HeldInOrder, QueueInOrder
<1>9. /\ held["tls"].ver \in conns[c][t].tls .. cluster["tls"].ver
      /\ held["ca"].ver \in conns[c][t].ca .. cluster["ca"].ver
  <2>1. Behind("tls", conns[c][t].tls) /\ Behind("ca", conns[c][t].ca)
    BY DEF SyncInv, RemoteBehind
  <2> QED
    BY <1>1, <1>3, <1>4, <2>1, SyncTypes DEF Behind
<1>10. Sync!Rekey(c, t)
  <2> DEFINE Keys(d, u) == [tls |-> conns[d][u].tls, ca |-> conns[d][u].ca]
             keys == [d \in Connections |-> [u \in Tenants |-> Keys(d, u)]]
             new == [tls |-> held["tls"].ver, ca |-> held["ca"].ver]
             published == [s \in {"tls", "ca", "trust"} |-> cluster[s].ver]
  <2>1. \A d \in Connections, u \in Tenants :
          Keys(d, u)' = IF d = c /\ u = t THEN new ELSE Keys(d, u)
    BY <1>5, <1>6
  <2>2. keys' = [keys EXCEPT ![c][t] = new]
    <3> HIDE DEF Keys, new
    <3> QED
      BY <2>1
  <2>3. /\ held["tls"].ver \in keys[c][t].tls .. published.tls
        /\ held["ca"].ver \in keys[c][t].ca .. published.ca
    BY <1>9
  <2>4. \E tls \in keys[c][t].tls .. published.tls, ca \in keys[c][t].ca .. published.ca :
           keys' = [keys EXCEPT ![c][t] = [tls |-> tls, ca |-> ca]]
    <3> HIDE DEF keys, published
    <3> QED
      BY <2>2, <2>3
  <2>5. published' = published /\ tenants' = tenants
    BY <1>2
  <2> QED
    BY <2>4, <2>5, Zenon DEF Sync!Rekey
<1> QED
  BY <1>7, <1>8, <1>10 DEF SyncInv

\* A change of the cluster's objects is a change of the settings.
LEMMA ClusterChanges ==
    ASSUME TypeOK, version' = version + 1, cluster' \in [Watches -> Version],
           SyncInv, \A w \in Watches : cluster'[w] = cluster[w] \/ cluster'[w].ver = version',
           UNCHANGED <<tenants, conns>>
    PROVE  Sync!Publish
<1>1. {"tls", "ca", "trust"} \subseteq Watches
  BY DEF Watches
<1>2. ASSUME NEW w \in Watches
      PROVE  cluster'[w].ver \in Nat /\ cluster'[w].ver >= cluster[w].ver
  BY SyncTypes DEF SyncInv, VersionsInOrder, HeldInOrder
<1> DEFINE now == [s \in {"tls", "ca", "trust"} |-> cluster[s].ver]
<1>3. \A s \in {"tls", "ca", "trust"} : now'[s] \in Nat /\ now'[s] >= now[s]
  BY <1>1, <1>2
<1>4. now' \in [tls : Nat, ca : Nat, trust : Nat]
  BY <1>3
<1> QED
  BY <1>3, <1>4 DEF Sync!Publish, Sync!Versions

\* A call of update() writes one resource, with what is held, or nothing.
LEMMA CallSync ==
    ASSUME IInv, SyncInv, Updating, UpdateUnchanged,
           \/ UNCHANGED <<tenants, conns>>
           \/ /\ tenants' = [tenants EXCEPT ![Tenant] = held["trust"].ver]
              /\ UNCHANGED conns
           \/ (\E c \in Connections : Rewritten(c)) /\ UNCHANGED tenants
    PROVE  SyncInv' /\ [Sync!Next]_Sync!vars
<1>1. ~MissingInitialization(held) /\ Tenant \in Tenants
  BY HeldTenant DEF IInv, ControllerInv, KnowledgeByPhase
<1>2. CASE UNCHANGED <<tenants, conns>>
  BY <1>2, SameSync, Stutters DEF UpdateUnchanged, clusterVars, watchVars, loopVars
<1>3. CASE /\ tenants' = [tenants EXCEPT ![Tenant] = held["trust"].ver]
           /\ UNCHANGED conns
  BY <1>1, <1>3, TenantWritten DEF Sync!Next
<1>4. CASE (\E c \in Connections : Rewritten(c)) /\ UNCHANGED tenants
  <2>1. PICK c \in Connections : Rewritten(c)
    BY <1>4
  <2>2. PICK t \in Tenants : t = Tenant
    BY <1>1
  <2>3. SyncInv' /\ Sync!Rekey(c, t)
    BY <1>1, <1>4, <2>1, <2>2, ConnectionWritten
  <2> QED
    BY <2>3 DEF Sync!Next
<1> QED
  BY <1>2, <1>3, <1>4

\* A restart writes nothing, and the settings stay as they are.
LEMMA RestartStutters ==
    ASSUME IInv, SyncInv, Restart, UNCHANGED <<cluster, version, remoteVars>>
    PROVE  SyncInv' /\ [Sync!Next]_Sync!vars
BY RestartSync, Stutters DEF IInv, remoteVars

\* The steps of update(): the first five make a call, the last returns.
LEMMA UpdateSync ==
    ASSUME IInv, SyncInv,
           \/ CreateTenant
           \/ UpdateTenant
           \/ \E c \in Connections : GetConnection(c) \/ UpdateConnection(c)
           \/ UpdatePolicy
           \/ UpdateReturns
    PROVE  SyncInv' /\ [Sync!Next]_Sync!vars
<1>1. CASE CreateTenant
  BY <1>1, CallSync DEF CreateTenant, Updating
<1>2. CASE UpdateTenant
  BY <1>2, CallSync DEF UpdateTenant, Updating
<1>3. ASSUME NEW c \in Connections, GetConnection(c)
      PROVE  SyncInv' /\ [Sync!Next]_Sync!vars
  BY <1>3, CallSync DEF GetConnection, GetStep, Updating, Connections, remoteVars
<1>4. ASSUME NEW c \in Connections, UpdateConnection(c)
      PROVE  SyncInv' /\ [Sync!Next]_Sync!vars
  <2>1. Updating
    BY <1>4 DEF UpdateConnection, PutStep, Updating, Connections
  <2> QED
    BY <1>4, <2>1, CallSync DEF UpdateConnection, Rewritten
<1>5. CASE UpdatePolicy
  BY <1>5, CallSync DEF UpdatePolicy, Updating
<1>6. CASE UpdateReturns
  BY <1>6, SameSync, Stutters DEF UpdateReturns, clusterVars, watchVars, remoteVars
<1> QED
  BY <1>1, <1>2, <1>3, <1>4, <1>5, <1>6

\* Publishing or deleting an object queues its newest version, or none.
LEMMA ObjectSync ==
    ASSUME IInv, SyncInv, IInv', NEW o, Publish(o) \/ Delete(o)
    PROVE  SyncInv' /\ [Sync!Next]_Sync!vars
<1>1. /\ version' = version + 1
      /\ UNCHANGED <<held, tenants, conns>>
      /\ cluster' \in [Watches -> Version]
      /\ TypeOK
  BY DEF Publish, Delete, loopVars, remoteVars, IInv, TypeOK, ClusterTypes
<1>2. \A w \in Watches :
        /\ cluster'[w] = cluster[w] \/ cluster'[w].ver = version'
        /\ \/ queue'[w] = queue[w]
           \/ /\ cluster'[w].ver = version'
              /\ queue'[w] = Append(queue[w], cluster'[w])
  <2>1. CASE Publish(o)
    <3>1. \A w \in Watches :
            IF w \in Settings(o) THEN cluster'[w].ver = version' ELSE cluster'[w] = cluster[w]
      BY <2>1 DEF Publish
    <3>2. \A w \in Watches :
            \/ queue'[w] = queue[w]
            \/ w \in Settings(o) /\ queue'[w] = Append(queue[w], cluster'[w])
      BY <2>1 DEF Publish, Enqueued
    <3> QED
      BY <3>1, <3>2
  <2>2. CASE Delete(o)
    BY <2>2 DEF Delete, watchVars
  <2> QED
    BY <2>1, <2>2
<1>3. SyncInv'
  BY <1>1, <1>2, ClusterSync
<1>4. Sync!Publish
  BY <1>1, <1>2, ClusterChanges
<1> QED
  BY <1>3, <1>4 DEF Sync!Next

\* Every step of the controller or its environment implements one of ConfigSync.
LEMMA StepSync ==
    ASSUME IInv, IInv', SyncInv, [Next]_vars
    PROVE  SyncInv' /\ [Sync!Next]_Sync!vars
<1>1. CASE WaitServices \/ RetryTick
  BY <1>1, SameSync, Stutters
     DEF WaitServices, RetryTick, clusterVars, watchVars, remoteVars
<1>2. ASSUME NEW w \in Watches, OpenWatch(w)
      PROVE  SyncInv' /\ [Sync!Next]_Sync!vars
  BY <1>2, OpenWatchSync, Stutters DEF IInv, OpenWatch, clusterVars, remoteVars
<1>3. ASSUME NEW w \in Watches, Receive(w)
      PROVE  SyncInv' /\ [Sync!Next]_Sync!vars
  BY <1>3, ReceiveSync, Stutters DEF IInv, Receive, clusterVars, remoteVars
<1>4. CASE StartFails \/ Panic \/ KillPod \/ MoveKafka
  BY <1>4, RestartStutters DEF StartFails, Panic, KillPod, MoveKafka, clusterVars
<1>5. ASSUME NEW w \in Watches, CloseWatch(w)
      PROVE  SyncInv' /\ [Sync!Next]_Sync!vars
  BY <1>5, SameSync, Stutters DEF CloseWatch, clusterVars, loopVars, remoteVars
<1>6. CASE UNCHANGED vars
  BY <1>6, SameSync, Stutters DEF vars, clusterVars, watchVars, loopVars, remoteVars
<1> QED
  BY <1>1, <1>2, <1>3, <1>4, <1>5, <1>6, UpdateSync, ObjectSync DEF Next, ControllerStep

\* The platform is installed with settings that nothing holds yet.
LEMMA InitialRefinement == Init => Sync!Init
<1> SUFFICES ASSUME Init PROVE Sync!Init
  OBVIOUS
<1>1. \A s \in {"tls", "ca", "trust"} : cluster[s].ver = 1
  BY DEF Init, Watches
<1>2. [s \in {"tls", "ca", "trust"} |-> cluster[s].ver] = [tls |-> 1, ca |-> 1, trust |-> 1]
  BY <1>1
<1>3. \A c \in Connections, t \in Tenants : conns[c][t].tls = 0 /\ conns[c][t].ca = 0
  BY DEF Init, NoConnection
<1>4. [c \in Connections |-> [t \in Tenants |->
          [tls |-> conns[c][t].tls, ca |-> conns[c][t].ca]]]
        = [c \in Connections |-> [t \in Tenants |-> [tls |-> 0, ca |-> 0]]]
  BY <1>3
<1>5. tenants = [t \in Tenants |-> 0]
  BY DEF Init
<1> QED
  BY <1>2, <1>4, <1>5, Zenon DEF Sync!Init

\* Whatever fails, and whenever the controller restarts, Hono and Ditto only
\* ever move forward through the versions the cluster published (main.go:31-226).
THEOREM RefinementTheorem == Spec => NeverRegresses
<1>1. IInv /\ SyncInv /\ [Next]_vars => SyncInv' /\ IInv' /\ [Sync!Next]_Sync!vars
  BY StepPreserves, StepSync
<1> QED
  BY <1>1, InitialInvariant, InitialSync, InitialRefinement, PTL
     DEF Spec, NeverRegresses, Sync!Spec
=============================================================================
