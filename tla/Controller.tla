----------------------------- MODULE Controller -----------------------------
(***************************************************************************)
(* The dt4mob-controller (src/services/dt4mob-controller): one process     *)
(* that watches five settings of the cluster, keeps the last usable value  *)
(* of each, and after every change writes them to Hono's device registry   *)
(* and to Ditto.  The cluster's operators, the Kubernetes watches, the     *)
(* registry and Ditto are its environment.                                 *)
(***************************************************************************)
EXTENDS Integers, Sequences

CONSTANTS
    Tenants,      \* the tenant names the config map may hold
    ObjectOf,     \* the Kubernetes object that holds each setting
    Changing,     \* the objects the operators change
    Published,    \* the contents they may give each setting
    Installed,    \* the contents each setting has at installation
    MAX_RETRIES,  \* main.go:29
    Closable,     \* the watches the API server may end
    MaxVersion,   \* bound: changes of the cluster's objects
    MaxFailures,  \* bound: calls to Hono or Ditto that fail
    MaxRestarts   \* bound: pods killed from outside

(***************************************************************************)
(* Each case of the select loop reads one setting.  What matters of a      *)
(* content is whether the controller can use it: "none" (no such object),  *)
(* "nokey" (the object lacks the key), "empty" (the key holds nothing),    *)
(* "bad" (not a key pair, not PEM), "sound", or the name of a tenant.      *)
(***************************************************************************)
Watches == {"tls", "ca", "trust", "devops", "tenant"}
Connections == {"hono", "export"}
Unusual == {"none", "nokey", "empty", "bad", "sound"}
Contents == Tenants \cup Unusual
Version == [ver : Nat, val : Contents]

ASSUME TenantsAssumption == Tenants \cap Unusual = {}
ASSUME BoundsAssumption ==
    /\ MAX_RETRIES \in Nat
    /\ MaxVersion \in Nat
    /\ MaxFailures \in Nat
    /\ MaxRestarts \in Nat
\* The contents a setting's case of the select tells apart.
Possible(w) ==
    CASE w = "tenant" -> Tenants \cup {"nokey", "empty"}
      [] w \in {"ca", "devops"} -> {"nokey", "empty", "sound"}
      [] OTHER -> {"nokey", "empty", "bad", "sound"}
ASSUME PublishedAssumption ==
    \A w \in Watches : /\ Published[w] \subseteq Possible(w)
                       /\ Installed[w] \in Possible(w) \cup {"none"}

VARIABLES
    (*********************** the cluster and the watches *******************)
    cluster,     \* each setting's current version
    watch,       \* each watch: "unopened", "open" or "closed"
    queue,       \* the versions a watch has yet to hand to the main loop
    kafka,       \* the address of the Kafka service, as a generation
    (*********************** the controller's memory ***********************)
    pc,          \* where the main goroutine is
    held,        \* state.State: the last usable version of each setting
    kafkaHost,   \* State.KafkaHost
    retries,     \* main.go:305
    retry,       \* main.go:306
    caller,      \* which of the two calls of update() is running
    shouldRetry, \* local of update()
    connection,  \* local of update(): the connection last read
    (*********************** Hono's registry and Ditto *********************)
    tenants,     \* the trusted CA of each tenant, 0 when it does not exist
    conns,       \* each connection of each tenant
    policy,      \* whether the system service's policy is installed
    (*********************** bounds ****************************************)
    version, failures, restarts

clusterVars == <<cluster, kafka, version>>
watchVars == <<watch, queue>>
loopVars == <<held, kafkaHost, retries, retry>>
updateVars == <<caller, shouldRetry, connection>>
remoteVars == <<tenants, conns, policy>>
vars == <<clusterVars, watchVars, pc, loopVars, updateVars, remoteVars,
          failures, restarts>>

Connection == [tls : Nat, ca : Nat, uri : Nat]
NoConnection == [tls |-> 0, ca |-> 0, uri |-> 0]
Unset == [ver |-> 0, val |-> "empty"]

\* Retries below zero are all alike: the code only compares them with zero.
FloorRetries == -1

Steps == {"boot", "open", "idle", "createTenant", "updateTenant",
          "getHono", "putHono", "getExport", "putExport", "policy", "return"}

ClusterTypes ==
    /\ cluster \in [Watches -> Version]
    /\ watch \in [Watches -> {"unopened", "open", "closed"}]
    /\ queue \in [Watches -> Seq(Version)]

LoopTypes ==
    /\ pc \in Steps
    /\ held \in [Watches -> Version]
    /\ retry \in BOOLEAN
    /\ caller \in {"event", "tick"}
    /\ shouldRetry \in BOOLEAN

NumberTypes ==
    /\ kafka \in Nat \ {0}
    /\ kafkaHost \in Nat
    /\ retries \in Int
    /\ version \in Nat
    /\ failures \in Nat
    /\ restarts \in Nat

RemoteTypes ==
    /\ connection \in Connection
    /\ tenants \in [Tenants -> Nat]
    /\ conns \in [Connections -> [Tenants -> Connection]]
    /\ policy \in BOOLEAN

TypeOK == ClusterTypes /\ LoopTypes /\ NumberTypes /\ RemoteTypes

-----------------------------------------------------------------------------
(* The controller's start *)

\* The memory of a fresh process: nothing is watched and nothing is known.
FreshProcess ==
    /\ watch = [w \in Watches |-> "unopened"]
    /\ queue = [w \in Watches |-> <<>>]
    /\ pc = "boot"
    /\ held = [w \in Watches |-> Unset]
    /\ kafkaHost = 0
    /\ retries = MAX_RETRIES
    /\ retry = FALSE
    /\ caller = "event"
    /\ shouldRetry = FALSE
    /\ connection = NoConnection

\* What a panic or a kill leaves: the pod is started again from nothing.
Restart ==
    /\ watch' = [w \in Watches |-> "unopened"]
    /\ queue' = [w \in Watches |-> <<>>]
    /\ pc' = "boot"
    /\ held' = [w \in Watches |-> Unset]
    /\ kafkaHost' = 0
    /\ retries' = MAX_RETRIES
    /\ retry' = FALSE
    /\ caller' = "event"
    /\ shouldRetry' = FALSE
    /\ connection' = NoConnection

Init ==
    /\ cluster = [w \in Watches |-> [ver |-> 1, val |-> Installed[w]]]
    /\ kafka = 1
    /\ version = 1
    /\ tenants = [t \in Tenants |-> 0]
    /\ conns = [c \in Connections |-> [t \in Tenants |-> NoConnection]]
    /\ policy = FALSE
    /\ failures = 0
    /\ restarts = 0
    /\ FreshProcess

\* The three services are up: only the Kafka service's address is kept.
WaitServices ==
    /\ pc = "boot"
    /\ kafkaHost' = kafka
    /\ pc' = "open"
    /\ UNCHANGED <<clusterVars, watchVars, held, retries, retry, updateVars,
                   remoteVars, failures, restarts>>

\* A service that does not exist or a watch that is refused is a panic.
StartFails ==
    /\ pc \in {"boot", "open"}
    /\ failures < MaxFailures
    /\ failures' = failures + 1
    /\ Restart
    /\ UNCHANGED <<clusterVars, remoteVars, restarts>>

Position == [tls |-> 1, ca |-> 2, trust |-> 3, devops |-> 4, tenant |-> 5]

\* Mutant: only later changes are reported.
FirstReportMissed(w) == <<>>

\* A watch opened without a resource version first reports the object there is.
FirstReport(w) == IF cluster[w].val = "none" THEN <<>> ELSE <<cluster[w]>>

OpenWatch(w) ==
    /\ pc = "open"
    /\ watch[w] = "unopened"
    /\ \A o \in Watches : Position[o] < Position[w] => watch[o] # "unopened"
    /\ watch' = [watch EXCEPT ![w] = "open"]
    /\ queue' = [queue EXCEPT ![w] = FirstReport(w)]
    /\ pc' = IF w = "tenant" THEN "idle" ELSE pc
    /\ UNCHANGED <<clusterVars, loopVars, updateVars, remoteVars, failures, restarts>>

-----------------------------------------------------------------------------
(* The select loop *)

\* update() is skipped until every setting holds something.
MissingInitialization(h) == \E w \in Watches : h[w].val = "empty"

\* The cases of the select that log and continue without touching the state.
Skipped(w, val) ==
    \/ val = "nokey"
    \/ w = "tls" /\ val \in {"empty", "bad"}

StartUpdate(by) ==
    /\ pc' = "createTenant"
    /\ caller' = by
    /\ shouldRetry' = FALSE

\* A watch hands a version over: main.go:311-362, then 375-376.
Receive(w) ==
    LET e == Head(queue[w]) IN
    /\ pc = "idle"
    /\ queue[w] # <<>>
    /\ queue' = [queue EXCEPT ![w] = Tail(@)]
    /\ \/ /\ Skipped(w, e.val)
          /\ UNCHANGED <<pc, loopVars, updateVars>>
       \/ /\ ~Skipped(w, e.val)
          /\ held' = [held EXCEPT ![w] = e]
          /\ retries' = MAX_RETRIES
          /\ \/ /\ MissingInitialization(held')
                /\ retry' = FALSE
                /\ UNCHANGED <<pc, updateVars>>
             \/ /\ ~MissingInitialization(held')
                /\ StartUpdate("event")
                /\ UNCHANGED <<retry, connection>>
          /\ UNCHANGED kafkaHost
    /\ UNCHANGED <<clusterVars, watch, remoteVars, failures, restarts>>

\* The ticker fires every five seconds and matters only while retry is set.
RetryTick ==
    /\ pc = "idle"
    /\ retry
    /\ retries' = IF retries > FloorRetries THEN retries - 1 ELSE retries
    /\ \/ /\ MissingInitialization(held)
          /\ UNCHANGED <<pc, updateVars>>
       \/ /\ ~MissingInitialization(held)
          /\ StartUpdate("tick")
          /\ UNCHANGED connection
    /\ UNCHANGED <<clusterVars, watchVars, held, kafkaHost, retry, remoteVars,
                   failures, restarts>>

-----------------------------------------------------------------------------
(* update(): every call may also fail, before or after it had its effect *)

Tenant == held["tenant"].val

Answered == UNCHANGED <<failures, shouldRetry>>

\* Mutant: a failed call is logged and nothing else.
FailsUnnoticed ==
    /\ failures < MaxFailures
    /\ failures' = failures + 1
    /\ UNCHANGED shouldRetry

Fails ==
    /\ failures < MaxFailures
    /\ failures' = failures + 1
    /\ shouldRetry' = TRUE

UpdateUnchanged == UNCHANGED <<clusterVars, watchVars, loopVars, caller, restarts>>

\* POST of the tenant: 201 when it is new, 409 when it exists.
CreateTenant ==
    LET created == [tenants EXCEPT ![Tenant] = held["trust"].ver] IN
    /\ pc = "createTenant"
    /\ held["trust"].val # "bad"
    /\ \/ /\ tenants[Tenant] = 0
          /\ tenants' = created
          /\ Answered
          /\ pc' = "getHono"
       \/ /\ tenants[Tenant] # 0
          /\ UNCHANGED tenants
          /\ Answered
          /\ pc' = "updateTenant"
       \/ /\ tenants' \in {tenants} \cup {x \in {created} : tenants[Tenant] = 0}
          /\ Fails
          /\ pc' = "getHono"
    /\ UNCHANGED <<connection, conns, policy>>
    /\ UpdateUnchanged

\* PUT of the tenant after a conflict.
UpdateTenant ==
    LET updated == [tenants EXCEPT ![Tenant] = held["trust"].ver] IN
    /\ pc = "updateTenant"
    /\ \/ tenants' = updated /\ Answered
       \/ tenants' \in {tenants, updated} /\ Fails
    /\ pc' = "getHono"
    /\ UNCHANGED <<connection, conns, policy>>
    /\ UpdateUnchanged

GetStep == [hono |-> "getHono", export |-> "getExport"]
PutStep == [hono |-> "putHono", export |-> "putExport"]
AfterConnection == [hono |-> "getExport", export |-> "policy"]

\* Mutant: the template lacks the credentials.
TemplateWithoutKey == [ca |-> 0, uri |-> kafkaHost]

\* The body used when Ditto has no such connection.
Template == [NoConnection EXCEPT !.uri = kafkaHost]

GetConnection(c) ==
    /\ pc = GetStep[c]
    /\ \/ /\ connection' = IF conns[c][Tenant] = NoConnection
                             THEN Template ELSE conns[c][Tenant]
          /\ Answered
          /\ pc' = PutStep[c]
       \/ /\ Fails
          /\ pc' = AfterConnection[c]
          /\ UNCHANGED connection
    /\ UNCHANGED remoteVars
    /\ UpdateUnchanged

\* What updateConnection overwrites of the body it was given.
Updated(body) ==
    [body EXCEPT !.tls = held["tls"].ver, !.ca = held["ca"].ver, !.uri = kafkaHost]

UpdateConnection(c) ==
    LET written == [conns EXCEPT ![c][Tenant] = Updated(connection)] IN
    /\ pc = PutStep[c]
    /\ \/ conns' = written /\ Answered
       \/ conns' \in {conns, written} /\ Fails
    /\ pc' = AfterConnection[c]
    /\ connection' = NoConnection
    /\ UNCHANGED <<tenants, policy>>
    /\ UpdateUnchanged

UpdatePolicy ==
    /\ pc = "policy"
    /\ \/ policy' = TRUE /\ (Answered \/ Fails)
       \/ UNCHANGED policy /\ Fails
    /\ pc' = "return"
    /\ UNCHANGED <<connection, tenants, conns>>
    /\ UpdateUnchanged

\* Mutant: the select loop ignores the outcome.
RetryForgotten == IF caller = "event" THEN FALSE ELSE retry

\* The select loop keeps the outcome; the ticker's case only looks at it.
RetryPending == IF caller = "event" THEN shouldRetry ELSE retry

\* update() returns to the select loop or to the ticker's case.
UpdateReturns ==
    /\ pc = "return"
    /\ ~(caller = "tick" /\ shouldRetry /\ retries = 0)
    /\ pc' = "idle"
    /\ retry' = RetryPending
    /\ caller' = "event"
    /\ shouldRetry' = FALSE
    /\ UNCHANGED <<clusterVars, watchVars, held, kafkaHost, retries, connection,
                   remoteVars, failures, restarts>>

\* The two panics of a running controller: the last retry failed, or the
\* trust certificate is not PEM and its nil block is dereferenced.
Panic ==
    /\ \/ pc = "return" /\ caller = "tick" /\ shouldRetry /\ retries = 0
       \/ pc = "createTenant" /\ held["trust"].val = "bad"
    /\ Restart
    /\ UNCHANGED <<clusterVars, remoteVars, failures, restarts>>

-----------------------------------------------------------------------------
(* The cluster *)

Settings(o) == {w \in Watches : ObjectOf[w] = o}

\* Mutant: events overtake one another.
EnqueuedFirst(w, e) == <<e>> \o queue[w]

\* Each event waits for the ones before it to be received.
Enqueued(w, e) == Append(queue[w], e)

\* An object is created or modified: its open watches report each version.
Publish(o) ==
    /\ version < MaxVersion
    /\ version' = version + 1
    /\ \E vals \in [Settings(o) -> Contents] :
        /\ \A w \in Settings(o) : vals[w] \in Published[w]
        /\ cluster' = [w \in Watches |->
                         IF w \in Settings(o)
                           THEN [ver |-> version + 1, val |-> vals[w]]
                           ELSE cluster[w]]
    /\ queue' = [w \in Watches |->
                   IF w \in Settings(o) /\ watch[w] = "open"
                     THEN Enqueued(w, cluster'[w]) ELSE queue[w]]
    /\ UNCHANGED <<kafka, watch, pc, loopVars, updateVars, remoteVars,
                   failures, restarts>>

\* A deletion is reported too, but the watch goroutine drops it.
Delete(o) ==
    /\ version < MaxVersion
    /\ version' = version + 1
    /\ cluster' = [w \in Watches |->
                     IF w \in Settings(o)
                       THEN [ver |-> version + 1, val |-> "none"]
                       ELSE cluster[w]]
    /\ UNCHANGED <<kafka, watchVars, pc, loopVars, updateVars, remoteVars,
                   failures, restarts>>

\* The API server ends a watch: the goroutine's range loop ends with it and
\* nobody opens another.
CloseWatch(w) ==
    /\ w \in Closable
    /\ watch[w] = "open"
    /\ watch' = [watch EXCEPT ![w] = "closed"]
    /\ UNCHANGED <<clusterVars, queue, pc, loopVars, updateVars, remoteVars,
                   failures, restarts>>

\* The pod is killed or evicted.
KillPod ==
    /\ restarts < MaxRestarts
    /\ restarts' = restarts + 1
    /\ Restart
    /\ UNCHANGED <<clusterVars, remoteVars, failures>>

\* A Helm upgrade that moves Kafka changes KAFKA_SERVICE: the pod is replaced.
MoveKafka ==
    /\ restarts < MaxRestarts
    /\ restarts' = restarts + 1
    /\ kafka' = kafka + 1
    /\ Restart
    /\ UNCHANGED <<cluster, version, remoteVars, failures>>

-----------------------------------------------------------------------------
ControllerStep ==
    \/ WaitServices
    \/ StartFails
    \/ \E w \in Watches : OpenWatch(w) \/ Receive(w)
    \/ RetryTick
    \/ CreateTenant
    \/ UpdateTenant
    \/ \E c \in Connections : GetConnection(c) \/ UpdateConnection(c)
    \/ UpdatePolicy
    \/ UpdateReturns
    \/ Panic

Next ==
    \/ ControllerStep
    \/ \E o \in Changing : Publish(o) \/ Delete(o)
    \/ \E w \in Watches : CloseWatch(w)
    \/ KillPod
    \/ MoveKafka

Spec == Init /\ [][Next]_vars

\* The steps of the main goroutine outside its select loop: only one is ever
\* possible, and every call returns.
StraightOn ==
    \/ WaitServices
    \/ \E w \in Watches : OpenWatch(w)
    \/ CreateTenant
    \/ UpdateTenant
    \/ \E c \in Connections : GetConnection(c) \/ UpdateConnection(c)
    \/ UpdatePolicy
    \/ UpdateReturns
    \/ Panic

\* Go's select picks among the ready cases at random, so no ready watch and no
\* tick is passed over for ever.
Fairness ==
    /\ WF_vars(StraightOn)
    /\ \A w \in Watches : SF_vars(Receive(w))
    /\ SF_vars(RetryTick)

FairSpec == Spec /\ Fairness

-----------------------------------------------------------------------------
(* Correctness *)

\* A connection of h's tenant holds h's keys and points at this Kafka.
ConnectionApplied(c, h) ==
    LET t == h["tenant"].val IN
    /\ conns[c][t].tls = h["tls"].ver
    /\ conns[c][t].ca = h["ca"].ver
    /\ conns[c][t].uri = kafkaHost

\* The registry and Ditto hold everything that h says.
Applied(h) ==
    LET t == h["tenant"].val IN
    /\ tenants[t] = h["trust"].ver
    /\ \A c \in Connections : ConnectionApplied(c, h)
    /\ policy

\* An update() that reports no failure (main.go:180-226) has written every
\* setting it was started with, to every one of the four resources.
SuccessMeansApplied ==
    pc = "return" /\ ~shouldRetry => Applied(held)

\* A content the controller can apply.
Usable(w) == /\ cluster[w].val \notin {"none", "nokey", "empty", "bad"}
             /\ w # "tenant" => cluster[w].val = "sound"

\* When the select loop (main.go:309-377) is waiting with no retry pending and
\* every watch delivered, Hono and Ditto hold what the cluster says: no change,
\* failure or restart is forgotten.
QuietMeansSynced ==
    /\ pc = "idle"
    /\ ~retry
    /\ \A w \in Watches : watch[w] = "open" /\ queue[w] = <<>> /\ Usable(w)
    => Applied(cluster)

\* Once the cluster's settings stay usable and unchanged, Hono and Ditto end up
\* holding them (docs/user-manual/en/01-introduction.md:108-111).
Converges ==
    LET AllUsable == \A w \in Watches : Usable(w) IN
    <>[]AllUsable => <>[](pc # "boot" => AllUsable /\ Applied(cluster))

\* What Hono and Ditto hold only ever moves forward through the versions the
\* cluster published, through failures, retries and restarts: ConfigSync.
Sync == INSTANCE ConfigSync WITH
    published <- [s \in {"tls", "ca", "trust"} |-> cluster[s].ver],
    trusted <- tenants,
    keys <- [c \in Connections |-> [t \in Tenants |->
                [tls |-> conns[c][t].tls, ca |-> conns[c][t].ca]]]
NeverRegresses == Sync!Spec

-----------------------------------------------------------------------------
(* The inductive invariant behind SuccessMeansApplied and QuietMeansSynced *)

Updating == pc \notin {"boot", "open", "idle"}

\* Versions hold what their setting may hold; what is held was not skipped.
PossibleVersions ==
    \A w \in Watches :
        /\ cluster[w].val \in Possible(w) \cup {"none"}
        /\ \A i \in 1 .. Len(queue[w]) : queue[w][i].val \in Possible(w)
        /\ held[w].val \in Possible(w) \ {"nokey"}

\* A process that has not reached its loop knows nothing; one that runs
\* update() knows everything.
KnowledgeByPhase ==
    /\ pc \in {"boot", "open"} => MissingInitialization(held)
    /\ Updating => ~MissingInitialization(held)
    /\ Updating /\ caller = "tick" => retry

\* While no call of this update() has failed, all those made had their effect.
AppliedSoFar ==
    Updating /\ ~shouldRetry =>
        /\ pc \notin {"createTenant", "updateTenant"}
             => tenants[Tenant] = held["trust"].ver
        /\ pc \in {"getExport", "putExport", "policy", "return"}
             => ConnectionApplied("hono", held)
        /\ pc \in {"policy", "return"} => ConnectionApplied("export", held)
        /\ pc = "return" => policy

\* A loop with no retry pending has applied what it holds.
AppliedWhenQuiet ==
    pc = "idle" /\ ~retry /\ ~MissingInitialization(held) => Applied(held)

\* An open watch still has the cluster's version on its way, or delivered it.
Delivered ==
    \A w \in Watches :
        watch[w] = "open" /\ cluster[w].val # "none" =>
            IF queue[w] = <<>>
              THEN Skipped(w, cluster[w].val) \/ held[w] = cluster[w]
              ELSE queue[w][Len(queue[w])] = cluster[w]

\* What every step preserves: it ties what is on its way, what is held and
\* what has been written (main.go:180-226, 309-377) to one another.
ControllerInv ==
    /\ PossibleVersions
    /\ KnowledgeByPhase
    /\ AppliedSoFar
    /\ AppliedWhenQuiet
    /\ Delivered
=============================================================================
