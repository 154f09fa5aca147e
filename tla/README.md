# dt4mob-platform in TLA+

These modules model the programs of the dt4mob platform that have behaviour of
their own: the services under `src/services` that keep Hono, Ditto, Kafka and
TimescaleDB in step with one another. TLC checks small instances of them; TLAPS
proves theorems about them for every instance.

Every definition that models code is listed under `map` in `PROJECT.json` with
the lines it stands for. Properties and theorems carry a comment that names the
code behaviour they are about.

## 1. The system

The platform is a Helm deployment of Eclipse Hono (device connectivity),
Eclipse Ditto (digital twins), Kafka, Keycloak and TimescaleDB, and of a few
programs that tie them together.

| component | state it keeps | operations | talks to |
|---|---|---|---|
| **dt4mob-controller** (Go, `services/dt4mob-controller`) | in memory only: the last usable key pair, CA, trust certificate, DevOps password and tenant (`state.State`), the retry budget | five Kubernetes watches, a retry ticker, `update()`: tenant, two connections, a policy | Kubernetes API (watches), Hono's device registry and Ditto (HTTP) |
| **dt4mob-historical-writer** (Python, `services/dt4mob-historical-writer`) | a batch in memory, the consumer's position; offsets in Kafka; rows in TimescaleDB | poll, parse, batch, flush in one transaction | Kafka (consumer group), TimescaleDB |
| **dt4mob-garbage-collector** (Python asyncio, `services/dt4mob-garbage-collector`) | the result of a search, the futures in `_responses`, a token, the password it read | paged search, delete command and wait, listen, refresh the token | Ditto (HTTP search, WebSocket), Keycloak |
| **dt4mob-certificate-service** (Go) | the CA key pair behind a lock | watch of the CA's secret, `IssueHandler`, readiness | Kubernetes API, devices (HTTP) |
| **dt4mob-historical-api** (Python, FastAPI, with a Swagger page) | none of its own but a default fixed at import | queries, projections, inserts and deletes on the writer's table; its documentation page | TimescaleDB, browsers |
| **keycloak-config** (shell, `images/keycloak-config/setup.sh`) | what it created in Keycloak and Kubernetes | an idempotent set-up with a retrying job | Keycloak, Kubernetes API |
| Helm charts, openslice, dashboards, manuals, CI | none | declarative | |

How they interact: the operators, cert-manager and Strimzi write secrets and
config maps; the *controller* sees them through watches and writes the result
to Hono and Ditto. The export connection it writes makes Ditto publish every
event of a thing to a Kafka topic; the *writer* moves those events into
TimescaleDB, where the *historical API* reads them. The *garbage collector*
deletes from Ditto the things whose `expiry_ts` has passed. The *certificate
service* issues device certificates whose CA the controller installs as the
tenant's trust anchor: both follow one secret, each with a watch of its own.
*keycloak-config* makes the account the garbage collector logs in with, and the
Kubernetes secret the collector's pod mounts.

What is hard, and what makes each part correct:

- **Controller.** Five watches are received in any order by one `select`, while
  `update()` makes up to seven calls each of which may fail before or after its
  effect; retries are counted; panics and evictions lose the memory; watches
  end. Correct means: success is only reported when everything was written, a
  loop at rest has forgotten nothing, nothing written is ever replaced by
  something older, and the cluster's settings arrive in the end.
- **Writer.** Offsets are committed by a thread of librdkafka that knows nothing
  of the batch; the batch is cleared whatever became of its transaction;
  consumers are killed, closed and dropped from their group. Correct means:
  every event has a known fate, in order, with duplicates bounded by
  redeliveries, and nothing stays undecided.
- **Garbage collector.** Three tasks share a map of futures; an answer may race
  its timeout; the index the search reads lags behind; pages are read while
  things change; sockets and tokens end. Correct means: no command is sent twice
  in a round, an answer resolves only its own future, searches are bounded,
  runs end, and only what has expired is deleted.
- **Certificate service.** A request reads the CA while the watch replaces it;
  the secret is read once and then watched by another goroutine; watches end;
  hours are multiplied into 64-bit nanoseconds. Correct means: a certificate is
  of one CA, no later request gets an older one, it lives as long as was asked for,
  beyond the limit only for an administrator, and programs at rest agree on the CA
  that signs and that Hono trusts.
- **Historical API.** It changes a table that the writer is filling from a batch
  it cannot see; a default is evaluated at import; its page is loaded piece by
  piece while the process may restart. Correct means: what was deleted stays
  deleted, unless the writer still held it; a page that opens is shown.
- **keycloak-config.** A failing or dying command, a retry of the whole script,
  upgrades, and secrets an operator deletes. Correct means: nothing that works
  is broken, success left nothing out, and the collector gets in.
- **The token's lease.** A supervisor sleeps by a half-life that concurrent
  searches move. Correct means: the socket's lease never ends while the
  supervisor lives, and no expired token is handed out from the cache.

The full list of hazards, each at its line and with the properties that cover
it, is in `PROJECT.json`.

## 2. The modules

| module | what it is |
|---|---|
| `Controller` | the controller with its environment (cluster, watches, Hono, Ditto) |
| `ConfigSync` | what the controller promises: an abstract specification that `Controller` implements (`Sync` / `NeverRegresses`) |
| `MCController` | instances for TLC |
| `Controller_proof` | theorems about `Controller` and their proofs, among them that it implements `ConfigSync` |
| `HistoricalWriter`, `MCHistoricalWriter` | the writer, Kafka's offsets and the table; instances |
| `EventStore` | what the writer promises of its table: an abstract specification that `HistoricalWriter` implements (`Store` / `StoresInTurn`) |
| `HistoricalWriter_proof` | theorems about `HistoricalWriter` and their proofs, among them that it implements `EventStore` |
| `GarbageCollector`, `MCGarbageCollector` | the job, Ditto and its index; instances |
| `GarbageCollector_proof` | theorems about `GarbageCollector` and their proofs |
| `LeaseTimes` | the times the lease depends on, and the assumption on them |
| `TokenLease` | the collector's cached token, its supervisor and the socket's lease |
| `TokenLease_proof` | the proof that the lease holds and cached tokens are usable |
| `KeycloakConfig` | the script `setup.sh` and the job that runs it |
| `KeycloakConfig_proof` | theorems about `KeycloakConfig` and their proofs |
| `SystemAccounts`, `MCSystemAccounts` | composition: `KeycloakConfig` makes the account and the secret, `TokenLease` logs in with them; instance |
| `SystemAccounts_proof` | the parts' theorems carried over to the composition, and one about both |
| `CertificateService` | the certificate service with the secret it follows |
| `DeviceTrust`, `MCDeviceTrust` | composition: `CertificateService` and `Controller` over one secret; instance |
| `DeviceTrust_proof` | theorems about `CertificateService` alone and in the composition, and their proofs |
| `HistoricalAPI`, `MCHistoricalAPI` | composition: the API, the writer of `HistoricalWriter` and their table, and the page; instances |
| `SwaggerPage` | the API's documentation page in a browser |
| `HistoricalAPI_proof` | theorems about `HistoricalAPI` and the page, with those of the writer carried over |

Each specification module declares its parameters as `CONSTANTS` with named
assumptions, one action per handler or step of a handler, and ends with its
properties. Operators under a comment `Mutant:` are faulty variants of the
definition that follows them. They are used by no specification: they document
which mistake in the code each property would expose.

### Controller

| model | code |
|---|---|
| `cluster`, `watch`, `queue` | the objects in Kubernetes; the goroutines of `utils/utils.go:58-104` and their channels |
| `held`, `kafkaHost`, `retries`, `retry` | `state.State` and the locals of `main()` (`main.go:299-307`) |
| `pc`, `caller`, `shouldRetry`, `connection` | where `update()` is, for which case of the `select`, and its locals |
| `tenants`, `conns`, `policy` | what Hono's registry and Ditto hold |
| `WaitServices`, `OpenWatch`, `StartFails` | start-up, in its order, and its panics |
| `Receive(w)`, `RetryTick` | the cases of the `select` (`main.go:309-377`) |
| `CreateTenant`, `UpdateTenant`, `GetConnection(c)`, `UpdateConnection(c)`, `UpdatePolicy`, `UpdateReturns` | one HTTP call of `update()` each |
| `Panic`, `KillPod`, `MoveKafka` | what restarts the process |
| `Publish(o)`, `Delete(o)`, `CloseWatch(w)` | operators and the API server |

A setting is a version number and what the code tells apart of its content:
absent, without the key, empty, unparsable, sound, or a tenant's name. Keys,
URLs and JSON bodies are left out. `Fails` gives every call two outcomes, with
and without the effect, which covers refused requests, errors of the server and
lost answers. A Kubernetes object may hold several settings (`ObjectOf`):
by default `tls.crt` and `ca.crt` come from one secret through two watches.

`retries` is kept above `FloorRetries`, below which the code cannot tell values
apart.

### HistoricalWriter

| model | code |
|---|---|
| `log`, `committed` | Kafka's partitions and the group's offsets |
| `position`, `stored` | the consumer inside librdkafka |
| `batch`, `due` | `batch` and `last_flush` of `kafka_consumer.py:16-18` |
| `rows` | table `dittoevent`, in the order of its identity column |
| `dropped` | a history variable: the messages given up |
| `PollMessage`, `PollNothing`, `KeepCollecting`, `FlushStores`, `FlushFails`, `FlushUnconfirmed` | the loop of `consume()` and `write_batch()` |
| `AutoCommit` | librdkafka's thread: `enable.auto.commit` is left at its default |
| `Start`, `Crash`, `Close`, `Rejoin` | container start, SIGTERM or SIGKILL, the `finally` block, a rebalance |

A message is an address (partition, offset) with a kind: an event, an event
whose row the database refuses, a malformed one, a tombstone.

### GarbageCollector

| model | code |
|---|---|
| `expiry`, `index`, `clock` | Ditto's things, its search index, the time |
| `commands`, `replies` | delete commands and answers on the WebSocket |
| `pc`, `cutoff`, `cursor`, `ids`, `envelopes`, `current` | `main()`, `get_expired_envelops()`, `get_things_expired_lt()` |
| `responses` | `DittoClient._responses` with the state of each future |
| `socket`, `listening`, `refreshing` | the socket and the two background tasks |
| `Connect`, `SearchPage`, `StartRound`, `EndRound`, `Finish`, `Send`, `SendRaises`, `Timeout`, `Resume` | `main()` from one await to the next |
| `Listen(i)` | one message in `_listen_loop()` |
| `SocketDrops`, `LeaseExpires`, `RefreshFails`, `JobFails`, `SearchAnswersError` | what goes wrong |

`Timeout` and `Resume` are two steps because `wait_for` cancels the future in a
timer callback and its task runs later: the listener can run in between.
Correlation ids are drawn from a small set and reused once nothing refers to
them, which is what fresh UUIDs look like to the code.

### TokenLease

Time is counted in seconds, and every call to Keycloak or Ditto takes up to
`Latency` of them. A token is dated from the moment Keycloak issues it, at any
time between the request and the answer; `refresh()` reckons its half-life from
its own clock, later.

| model | code |
|---|---|
| `expires`, `halfLife` | `_token`, by its real end, and `_expires_in` (`auth/__init__.py:48-50`) |
| `main`, `sent` | `connect()` and the searches' `get_token()` (`auth/__init__.py:32-36`) |
| `supervisor`, `since`, `wake`, `fresh` | `_token_refresh_loop()` (`ditto_api.py:39-66`) |
| `lease` | how long Ditto trusts the WebSocket |
| `Interval` | `max(5.0, time_left - 5.0)` (`ditto_api.py:46`) |

`GarbageCollector` leaves time out: there `LeaseExpires` is only possible once
the supervisor has died, which is what `ExpiresTheorem` establishes here.

### KeycloakConfig and SystemAccounts

| model | code |
|---|---|
| `job`, `attempts` | the hook's job and its `backoffLimit` (`config-job.yaml`) |
| `line`, `position`, `found`, `generated` | where the script is, and its variables |
| `made`, `users`, `members`, `password` | Keycloak |
| `secret` | the accounts' Kubernetes secrets |
| `cut` | a history variable: accounts whose attempt was cut off between `setup.sh:78` and `:81` |
| `Get`, `Create`, `CreateConflicts`, `Update`, `Profile` | the realm, the client and its roles (`setup.sh:13-60`), one object after the other |
| `GetUser` ... `SetPassword` | the loop over the accounts (`setup.sh:62-83`) |
| `Dies`, and the second outcome of `Then` | a command fails, or the pod dies, before or after its effect |
| `mounted` | what the collector's process read at its start (`settings/auth.py:44-58`) |

`set -e` ends the script with the first failing command, except inside a
condition or before `|| true`: there a failure reads as an answer (`Answers`, and
the second disjunct of `GetSecret`).

### CertificateService and DeviceTrust

| model | code |
|---|---|
| `pc`, `fetched` | `main()` (`main.go:62-178`) |
| `watcher`, `queue` | the goroutine of `main.go:78-91` and the watch of `k8s/client.go:39-60` |
| `tlsCert` | `Handler.tlsCert` behind its lock |
| `calls` | one `IssueHandler` per request, from reading the CA to signing |
| `Asked`, `WithinLimit`, `Wrapped` | `time.Duration(hours) * time.Hour` and its comparison (`handler.go:127-133`), in integers of `2 * Half` values |
| `Exit`, `StartupProbeFails`, `ReadSecret` | what ends the process, and its restart |
| `cluster`, `watch`, `reports`, ... `restarts` of `DeviceTrust` | the variables of `Controller`, some under another name: `queue` is `reports`, `pc` is `loop`, `failures` is `mishaps` |
| `SameSecret` | `charts/dt4mob/templates/tenant-ca-issuer.yaml`: one object, self-signed, so that `tls.crt` (which the service loads) and `ca.crt` (which the controller does) are one certificate |
| `SecretChanges`, `ServiceRuns`, `ControllerRuns` | cert-manager or an operator changes the secret, which is `Rotate` of the service and `Publish` or `Delete` of the controller at once; a step of either program |
| `Anchor` | the CA by which Hono trusts the devices of the configured tenant |

`DeviceTrust` takes the controller as it is, with its five watches, failures,
retries and panics; nothing is assumed of it but what its own module says.

### HistoricalAPI and SwaggerPage

| model | code |
|---|---|
| `rows` (of the writer), `gone`, `posted` | table `dittoevent`: what the writer stored, what the API deleted of it, how many events the API inserted for each time |
| `stamps`, `now`, `imported` | the events' times, the clock, the start of the API |
| `erased` | a history variable: events in a deleted range that the writer was done with, until they are handed to it again |
| `DeleteEvents`, `InsertEvents`, `Found` | `events_service.py`; every query compares times as `InRange` does |
| `page`, `requested`, `executed` | a browser that loads the page, its three scripts and the description |

## 3. The runs

Runs that pass:

| run | instance and bounds | shows |
|---|---|---|
| `controller_tenant` | 2 tenants; tenant and trust certificate change up to twice, be it to unusable contents, or are deleted; the tenant's watch may end; 1 failing call, 1 restart; `MAX_RETRIES = 2` | `TypeOK`, `SuccessMeansApplied`, `QuietMeansSynced`, `ControllerInv`, and that it implements `ConfigSync` (`NeverRegresses`) |
| `controller_rotation` | the secret with client certificate and CA, and the trust certificate, change up to twice in all, also to contents that are skipped or that the process dies of; 2 failing calls, `MAX_RETRIES = 1`, so the budget can run out | `QuietMeansSynced`, `NeverRegresses`, and under fairness `Converges` |
| `writer_redelivery` | 2 partitions of 2 messages; `latest`, as shipped; batches of 2; a failing transaction, 2 redeliveries | `TypeOK`, `Accounted`, `BatchBounded`, `FirstRowsInOrder`, `RowsBoundedByDeliveries`, and that it implements `EventStore` (`StoresInTurn`) |
| `history` | 1 partition with 1 message that may be refused; `latest`; batches of 2; 2 redeliveries; a clock of 2 times; 1 delete or insert; 2 starts of the API; 1 page; under fairness | `ApiTypeOK`, `ErasedStaysErased`, `BrokenOnlyIfAway`, `EveryEventSettles`, `PageShown` |
| `gc_runs` | 3 things, one of which cannot be deleted; pages of 1, limit 2, threshold 1; 2 correlation ids; a clock of 2 times; 1 renewal, 1 drop of the socket; under fairness | `TypeOK`, `FoundOnce`, `SearchBounded`, `ResolvedByOwnAnswer`, `AnswerStillComing`, `RunEnds` |
| `certificates` | both programs on the CA's secret, which starts unusable to the service or a key pair and changes once, to one of these, to one unusable to both, or to none; 2 requests, interchangeable; 9 and 26 hours of 10 units in integers of 8 bits: beyond the limit, and wrapped to little; 1 failure, of either program (`OneFailure`), the end of the service's watch among them; `MAX_RETRIES = 0`; the other settings installed | `TrustTypeOK`, `SignedByOneCA`, `LifetimeAllowed`, `AnchorsQuiet`, `NeverSignsWithOlder` |
| `accounts` | realm, client and a role, the collector's account; 1 failing command, 2 releases, 1 deleted secret; tokens of 8 seconds, sleep, margin and latency of 1, 10 seconds a run, 1 failing call; under fairness | `TypeOK`, `SecretsWork`, `SuccessIsComplete`, `LeaseHolds`, `CachedTokenUsable`, `RefusedForAReason`, the action property `StaysIn`, `CollectorGetsIn` |

Runs that violate what the repository says (each is a finding):

| run | property | what happens |
|---|---|---|
| `controller_watch_ends` | `Converges` | the API server ends the tenant's watch, the range loop of the goroutine ends, nobody opens another: later changes are never applied |
| `writer_at_least_once` | `AtLeastOnce` | librdkafka's thread commits the offset of an event in the batch, the process is killed, and the next one reads on behind it (the instance never shuts down in order, `Interrupted = FALSE`, which would commit too) |
| `gc_renewed` | `DeletesOnlyExpired` | a thing is renewed after the search has begun; the index hears of it after the page that shows it expired was read, but before Ditto executes the command, which carries no condition: the thing is deleted all the same |
| `api_projection` | `ProjectionByDefault` | a projection without `until` uses the time the module was imported (`events_service.py:118`), so nothing newer is found |
| `gc_listener` | `ListenerSurvives` | the listener sets the result of a future that `wait_for` has cancelled, and ends |

Other differences met while modelling, not among the runs: the loop of
`main.py:13` ends with exactly five things left, where `README_DEV.md:133` says
"fewer than 5 envelopes remain", and so at most five expired things are never
deleted; the limit of a search is compared before a page is requested, so it can
be overshot by a page (`SearchBounded` states the real bound; `README_DEV.md:129`
gives 500); without the exception for a lost socket `RunEnds` is violated, since
every send raises, is logged, and the search finds the same things again; an
update that completed in the ticker's case is run again on each tick; a flush
with one refused row gives up the storable rows of its batch
(`DEVELOPER_MANUAL_EN.md:97-101` shows one write per message); an
update that completes on the very tick that exhausts the budget leaves `retry`
set, so the budget goes below zero and the panic of `main.go:368-370`, which asks
for exactly zero, no longer comes; a connection that
exists keeps the `bootstrapServers` it was created with (`main.go:91-133` updates
the rest); a system account whose attempt is cut off between `setup.sh:78` and
`:81` keeps a secret with a password that Keycloak never got, for good, since the
next attempt skips what has a secret (`cut` in `SecretsWork` and
`RefusedForAReason`); the default lifetime of a certificate is not compared with
the maximum, which `README.md:45` of the service calls the "Maximum allowed
validity duration for non-admin users" (`LifetimeAllowed` is about requests that
name hours); `setup.sh:77` generates a password with `tr ... </dev/urandom |
head -c 16` under `pipefail`, where `tr` ends by SIGPIPE: on the usual reading of
`set -euo pipefail` the script ends there for every account without a secret, and
no job succeeds that has one to make. `GetSecret` allows both, since what follows
that line is the code's intention and must be right as well; hours whose product
with an hour does not fit 64 bits of nanoseconds wrap to another, possibly negative,
duration and pass the comparison (`handler.go:129`), so that the certificate does not
live for "The number of hours until the certificate expires." (`handler.go:79`), and
`LifetimeAllowed` is about the hours that fit; the goroutine of `k8s/client.go:48`
ends with the watch, as the controller's does, and `main.go:78-91` of the service
opens no other: a rotation it has not handed over by then never reaches the service,
which "Generates signed certifcates based on the tenant's device CA root certificate"
(`README.md:3`) with the CA before it. `AnchorsQuiet` asks for open watches.

**Bounds.** Every unbounded counter has a bound in the guard that raises it:
`MaxVersion` (changes of the cluster's objects), `MaxFailures`, `MaxRestarts`,
`MaxLog`, `MaxRedeliveries`, `MaxClock`, `MaxRenewals`, `MaxDrops`, `MaxTime`,
`MaxErrors`, `MaxReleases`, `MaxDeletions`, `MaxNow`, `MaxChanges`, `MaxStarts`,
`MaxPages`, `MaxMishaps` (`MaxFailures` of the controller in `DeviceTrust`). Two changes are enough for one setting to overtake another, for a version to be
published while an older one is being written, and for an object to be broken
and repaired. Two failures exhaust a budget of one retry. A batch of two over two
messages per partition gives full, partial and mixed batches. One page fewer
things than the search finds gives a second page, and a limit reached in the
middle of a search. The constants of the code that only set a scale
(`MAX_RETRIES = 5`, 500 messages, threshold 5, pages of 200) are parameters.
Two releases give an upgrade over whatever the first left, and a deleted secret
with one failing command reaches every line of the script from an unusual state.
A lifetime of 8 with a half of 4 lets the supervisor wake twice within 10 seconds,
and lets searches move the half-life in between. `Half = 128` and `Hour = 10` keep
the proportions of 2^63 and 3.6 * 10^12 nanoseconds small enough that 26 hours
wrap. `Interrupted` and `WatchMayEnd` are not bounds but behaviours an instance may
leave out, as `writer_at_least_once` does to show another by itself. In `certificates` one
change is enough for the secret to rotate while the service is between its read and
its watch, and for a request to be handled across it.
The proofs of the run's properties hold for every content and number of changes.
Two requests are needed to compare the CA of one with a later one's.
Deadlock checking is off because the bounded environments stop; in the
controller an unusable setting may also leave nothing to do.

Symmetry is used for the requests of `certificates`, a run without liveness that
names none of them. Elsewhere there is none: tenants and partitions are named in the
instances, things are ordered.

**Fairness.** Controller: weak fairness of the main goroutine outside its `select`
(`StraightOn`), since every call returns in the model; strong fairness of `Receive(w)` and
`RetryTick`, since Go's `select` picks at random among the ready cases. None of
operators, failures or restarts. Writer: `poll()` returns within a second
(`PollNothing`), hands over every partition in the end (strong, because it may
return another one's message each time), the clock advances, a flush returns,
and Kubernetes restarts a container. Garbage collector: asyncio runs every task
that is ready, the ten-second timer fires, the schedule comes round, Ditto
processes the commands it received and its index catches up. Accounts: the
script's next command returns, Kubernetes starts the collector's pod once it can
mount the secret, and the collector's calls return; nothing obliges the job to be
released. Historical API: the
writer's fairness, Kubernetes restarts the process, and a browser requests what
its page needs. The process may still stop again and again.

## 4. The proofs

### Controller

`Controller_proof` proves, from the named assumptions `TenantsAssumption`,
`BoundsAssumption` and `PublishedAssumption` alone, for any tenants, objects,
contents, watches that may end, and bounds:

| theorem | states |
|---|---|
| `TypeCorrectness` | `Spec => []TypeOK` |
| `InvariantTheorem` | `Spec => []ControllerInv` |
| `SuccessTheorem` | `Spec => []SuccessMeansApplied` |
| `QuietTheorem` | `Spec => []QuietMeansSynced` |
| `RefinementTheorem` | `Spec => NeverRegresses`, where `NeverRegresses` is `ConfigSync`'s `Spec` under the refinement mapping |

Neither `SuccessMeansApplied` nor `QuietMeansSynced` is inductive: both speak of
the moment an update is over and say nothing of the calls that lead there.
`ControllerInv` adds what is true on the way:

- `PossibleVersions`: what is queued and held is something the watch can deliver
  and the loop can keep, so a held version was not skipped;
- `KnowledgeByPhase`: before the loop nothing is known, in `update()` everything
  is, and a tick's update runs only while `retry` is set;
- `AppliedSoFar`: while no call of this update has failed, each call made so far
  has had its effect on the tenant held now, since `held` cannot change before
  `update()` returns;
- `AppliedWhenQuiet`: a loop without a pending retry has applied what it holds;
- `Delivered`: an open watch either still has the cluster's version last in its
  queue, or has delivered it, and then it is held or was skipped.

The invariant is proved with one lemma per action; the actions that fall into
update() disturb `AppliedSoFar`, those of the cluster `Delivered`, and a restart
re-establishes everything trivially. `AppliedSoFar` with `pc = "return"` is
`SuccessMeansApplied`; `AppliedWhenQuiet` and `Delivered` together give
`QuietMeansSynced`, since a usable version is one that is not skipped.

The refinement needs an invariant of its own, `SyncInv`. A step of the
controller writes the versions it *holds*, and `ConfigSync` lets it do so only if
these are neither older than what Hono and Ditto have nor newer than the cluster:

- `VersionsInOrder`: the versions of a setting only grow from the held one
  through the queue to the cluster's;
- `RemoteBehind`: what a tenant or a connection has is no newer than the held
  version, or, while nothing is held, than anything a watch can still deliver.
  The second half is what makes it inductive through a restart: the memory is
  empty again, and the queue starts with the cluster's version.

Each action then maps to `Publish`, `Trust`, `Rekey` or a stutter of
`ConfigSync` (`CallSync`, `ObjectSync`, `Stutters`, `RestartStutters`).

### HistoricalWriter

`HistoricalWriter_proof` proves, from `ConstantsAssumption` alone, for any
partitions, batch size, kinds of messages, either offset reset and any bounds:

| theorem | states |
|---|---|
| `TypeCorrectness` | `Spec => []TypeOK` |
| `AccountedTheorem` | `Spec => []Accounted` |
| `BatchTheorem` | `Spec => []BatchBounded` |
| `OrderTheorem` | `Spec => []FirstRowsInOrder` |
| `CopiesTheorem` | `Spec => []RowsBoundedByDeliveries` |
| `RefinementTheorem` | `Spec => StoresInTurn`, where `StoresInTurn` is `EventStore`'s `Spec` over the writer's log, table, dropped messages and redeliveries |

`Accounted` is not inductive: it speaks of the committed offset while the writer
is down and of the position while it runs, and a start, a stop or a rebalance
changes from one to the other. `Inv` adds

- `OffsetsInOrder`: no offset passes the end of its partition, what librdkafka
  is about to commit is the position it handed out last, and while the writer
  runs nothing beyond the position is committed. A stop thus only shrinks what
  was read, and a commit never covers an event without a fate;
- `BatchHasRoom`: at `poll()` the batch has room for one more message, and a
  process that is down has no batch. The first half is what makes `BatchBounded`
  inductive, also for a consumer that rejoins with its batch.

A start without a committed offset is the one step that raises what was read
past without reading it (`JoinAccounts`): with the reset at `latest` it passes
over messages, which `Skipped` adds to the dropped ones.

The two theorems about rows need more than `Inv`, because what is wrong in the
table was wrong in the batch before. `RowsOrdered` says of the table *followed by
the batch* that every event has its predecessors, or they were given up: a flush
then moves the border between the two and changes nothing. `CopiesBounded` counts
an event in the same sequence, against `Deliveries`: the redeliveries so far, and
one more once the running consumer has passed it. A poll at the event's offset
raises both sides; a stop takes one delivery back and counts a redelivery.

`EventStore` says the same step by step, to those who query the table and know
nothing of consumers and offsets. A flush is its `Store`: `RowsOrdered` gives each
row its turn, `CopiesBounded` bounds its repetitions (`FlushIsStore`). A failed
flush, a crash or a shutdown is `LoseBatch`: what is newly dropped is in the batch,
and a batch has no more elements than it is long (`BatchHasRoom`, `ElementsCount`).
A start or a rebalance is `Reset`, or `LoseBatch` without a loss where the offsets
are reset to `earliest` (`JoinIsReset`); what is passed over was never stored, or
was given up before. That only published messages are given up takes an invariant
of its own, `DroppedPublished`.

### GarbageCollector

`GarbageCollector_proof` proves, from `ConstantsAssumption`, for any things,
ids, page size, limit, threshold and bounds:

| theorem | states |
|---|---|
| `TypeCorrectness` | `Spec => []TypeOK` |
| `SearchTheorem` | `Spec => []FoundOnce` |
| `BoundedTheorem` | `Spec => []SearchBounded` |
| `OwnAnswerTheorem` | `Spec => []ResolvedByOwnAnswer` |
| `StillComingTheorem` | `Spec => []AnswerStillComing` |

`SearchSound` adds that everything found so far lies before the cursor, which no
change of the index can undo, and that a search in progress is below its limit, so
that the next page overshoots it by less than a page. `OneFuture` and `WireSound`
say that only the awaited command has a future and that an id belongs to one
command or one answer, not both: an answer that is late carries an id without a
future, or one that is not reused while the answer is on its way.

### TokenLease

`TokenLease_proof` proves `LeaseHolds` and `CachedTokenUsable` from
`LifetimeAssumption`, which bounds the latency of a call: the shortest sleep and
four calls fit into a lifetime, and four calls into what the supervisor leaves of
it. Outside these times the properties are false. `LeaseCovers` is the core of the
invariant: at each of the supervisor's three places, what is left of the lease
covers the calls still to come. It needs `TokenAged`, which dates the cached token
and its half-life even when they come from two different answers. `ExpiresTheorem`
states the consequence that `GarbageCollector` uses as the guard of its own
`LeaseExpires`: the lease only ever ends under a socket whose supervisor has ended,
since an open socket has had its supervisor started (`SocketSupervised`), and while
that one lives the lease is covered.

### KeycloakConfig

`KeycloakConfig_proof` proves, from `SetupAssumption`, for any objects, accounts
and numbers of failures, attempts, releases and deletions, `SecretsWork`,
`SuccessIsComplete`, and that only members have secrets (`MembersTheorem`).
`Place` says that everything before the script's place is done, `AtAccount` what
is done for the account it is at. The difficulty is that a misread answer sends
the script to a command for something that exists; the proof shows that the
command then fails or repeats what is there.

### SystemAccounts

`SystemAccounts_proof` carries both parts' theorems over to their composition:
each step of it is a step of one part and leaves the other's variables alone
(`SetupAlone`, `LeaseAlone`), and `TokenLease` leaves it open when credentials are
accepted, so that the job may decide it. It also proves the composition's
`TypeOK`, and `RefusedForAReason`, which neither part can state: a collector whose
password is in its secret, was set and was not replaced is a user whom Keycloak
accepts. `StaysInTheorem` proves the action property `StaysIn`: a collector that is
accepted stays accepted until its secret is replaced. It rests on `AtAccount`
(`PasswordStep`): where the script sets a password, the account's secret is gone or
holds what was generated for it.

### CertificateService and DeviceTrust

`DeviceTrust_proof` proves, from `ServiceAssumption` and, for the composition,
`TrustAssumption` (the three assumptions of `Controller`), for any requests, bounds,
limits and widths of a duration:

| theorem | states |
|---|---|
| `SignedTheorem`, `LifetimeTheorem`, `NotOlderTheorem` | of the service alone: `[]SignedByOneCA`, `[]LifetimeAllowed` (for every width of a duration), and the action property `NeverSignsWithOlder` |
| `TypeCorrectness` | `TrustSpec => []TrustTypeOK` |
| `AnchorsQuietTheorem` | `TrustSpec => []AnchorsQuiet`: at rest, Hono trusts the CA the service signs with |
| `TogetherTheorem` | the three properties of the service and the controller's `SuccessMeansApplied`, of `TrustSpec` |

`FollowsSecret` orders what the process read, holds and is about to hear, and
`CallsSound` puts the CA of every request below all of it, also below what a new
process reads after a restart. `LifetimeAllowed` compares the life issued with the
hours asked for, multiplied as integers without a width: that the two agree where
they fit is `NotWrapped`.

In the composition every step is one of the service, one of the controller, or a
change of the secret, which is a step of each (`ServiceAlone`, `ControllerAlone`);
`SameController` says that the controller composed here is the one
`Controller_proof` is about. `AnchorsQuiet` needs both programs: `QuietTheorem`
brings Hono to the cluster's version of the secret, `ServiceDelivered` says of the
service that an open watch has the key pair on its way or has delivered it, and
`OneSecret` that the two mean one object.

### HistoricalAPI and SwaggerPage

`HistoricalAPI_proof` extends the writer's proofs and adds:

| theorem | states |
|---|---|
| `ApiTypeCorrectness` | `ApiSpec => []ApiTypeOK` |
| `ErasedTheorem` | `ApiSpec => []ErasedStaysErased` |
| `PageTheorem` | `ApiSpec => []BrokenOnlyIfAway` |
| `WriterTheorem` | the writer's properties, `StoresInTurn` among them, of `ApiSpec` |

`WriterAlone` shows that the composition only takes steps of the writer or leaves
its variables alone, so that its invariants can be used here. `ErasedStaysErased` is
about the table; what could bring a row back is the batch. `ErasedDone` therefore
says that the consumer is past every erased event and does not hold it: a poll
brings what lies at the position and is not yet erased, a flush adds what the batch
holds, and when the position falls back, what it falls behind leaves `erased`.
`LoadedSoFar` says of a page that met no outage that all scripts requested so far
have run, which is what makes the initializer find Swagger UI defined.

### Only model-checked

The liveness properties `Converges`, `EveryEventSettles`, `RunEnds`,
`CollectorGetsIn` and `PageShown`, since liveness under fairness and
ENABLED are beyond the prover. Every other property of a passing run has a theorem.
No module uses a RECURSIVE operator.

## 5. What is not modelled

- Historical API: SQL, the JSONPath projections and the aggregation, which
  TimescaleDB computes and the code only passes on; the role checks; the race of
  two processes that create the table at import, whose loser is restarted.
- Certificate service: the cryptography and the content of tokens; two pods that
  serve side by side during a rolling update; a readiness probe answered before
  the port is open.
- Rolling updates of the controller and the writer: both are Deployments of one
  replica with the default strategy (`charts/dt4mob-controller/templates/deployment.yaml`),
  which starts the new pod before the old one has ended. `KillPod`, `MoveKafka`,
  `Crash` and `Close` replace the process at once, and `Rejoin` is about the one
  consumer there is. Two controllers that overlap may each write what they hold, and
  `NeverRegresses` is not claimed of them; two consumers divide the partitions.
- The controller's HTTP client has no timeout; a call that never returns is not
  in the model, which would make every liveness property false for one reason.
  `WaitService` may return without a ready pod; the calls that follow may fail
  in the model anyway.
- Operators who edit a Ditto connection between the controller's read and write,
  the list of bootstrap servers, and the tenant a rename leaves behind, which the
  code never removes.
- `setup.sh`: what its commands write (descriptions, redirect URIs), and the
  account without a name that an empty `SYSTEM_ACCOUNTS` would make.
- Helm itself: hooks whose jobs failed, the order of releases.
- The parsing of topics, timestamps and payloads in the writer, and of tokens in
  the garbage collector: abstracted to their outcomes.
- Swagger UI itself, a vendored script, and the page's wording.
- Charts, dashboards, manuals, openslice: nothing that runs. What the charts set
  (replicas, restart policy, `concurrencyPolicy: Forbid`, back-off limit, offset
  reset) is used.

## 6. Plan

*Done:* every program of the platform has a module, the interacting ones are
composed (`Controller` with `CertificateService` in `DeviceTrust`;
`KeycloakConfig` with `TokenLease` in `SystemAccounts`; `HistoricalWriter` with
`HistoricalAPI` and `SwaggerPage`), the controller and the writer implement
abstract specifications, and the safety and action properties of all of them are
proved.

What is left, in this order:

1. An abstract specification of a round of the garbage collector (what it deletes,
   and what it leaves), implemented by `GarbageCollector`, with a proof.
2. `GarbageCollector` over `TokenLease`, in one instance: today the first takes
   `ExpiresTheorem` of the second as a guard of its `LeaseExpires`.
3. Two pods of the certificate service, or of the controller, during a rolling
   update, and a statement of what holds across them.
