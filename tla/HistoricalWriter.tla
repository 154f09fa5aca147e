-------------------------- MODULE HistoricalWriter --------------------------
(***************************************************************************)
(* The historical writer (src/services/dt4mob-historical-writer): one      *)
(* Kafka consumer that collects Ditto's events in a batch and stores each  *)
(* batch in TimescaleDB in one transaction.  The offsets it was handed are *)
(* committed by librdkafka's own thread, because as_dict() leaves          *)
(* enable.auto.commit at its default.                                      *)
(***************************************************************************)
EXTENDS Integers, Sequences, FiniteSets

CONSTANTS
    Partitions,       \* of the exports topic
    BatchSize,        \* kafka_consumer.py:16
    AutoOffsetReset,  \* where to start when nothing was committed
    Kinds,            \* the kinds of messages Ditto publishes
    Interrupted,      \* whether an interrupt or an exception may end the loop
    MaxLog,           \* bound: messages per partition
    MaxFailures,      \* bound: transactions that fail for no fault of a message
    MaxRedeliveries   \* bound: crashes, shutdowns and lost group memberships

\* An event parses and can be stored; one that is "rejected" parses, but the
\* database refuses its row; "malformed" and "tombstone" are never batched.
AllKinds == {"event", "rejected", "malformed", "tombstone"}

ASSUME ConstantsAssumption ==
    /\ BatchSize \in Nat \ {0}
    /\ AutoOffsetReset \in {"earliest", "latest"}
    /\ Kinds \subseteq AllKinds
    /\ Interrupted \in BOOLEAN
    /\ MaxLog \in Nat
    /\ MaxFailures \in Nat
    /\ MaxRedeliveries \in Nat

VARIABLES
    log,          \* the messages of each partition
    committed,    \* the group's committed offset, or NoOffset
    pc,           \* "down", "poll" or "check"
    position,     \* messages of each partition handed to this consumer
    stored,       \* the offset librdkafka commits next, or NoOffset
    batch,        \* kafka_consumer.py:17, as the messages' addresses
    due,          \* five seconds have passed since the last flush
    rows,         \* dittoevent, in the order of its identity column
    dropped,      \* history: the messages that were given up
    failures, redeliveries

kafkaVars == <<log, committed>>
consumerVars == <<position, stored>>
vars == <<kafkaVars, pc, consumerVars, batch, due, rows, dropped, failures,
          redeliveries>>

NoOffset == -1
Address == Partitions \X (Nat \ {0})
Messages == UNION {{p} \X (1 .. Len(log[p])) : p \in Partitions}
Kind(m) == log[m[1]][m[2]]
Parsed(kind) == kind \in {"event", "rejected"}
Elements(s) == {s[i] : i \in 1 .. Len(s)}

TypeOK ==
    /\ log \in [Partitions -> Seq(Kinds)]
    /\ committed \in [Partitions -> Nat \cup {NoOffset}]
    /\ pc \in {"down", "poll", "check"}
    /\ position \in [Partitions -> Nat]
    /\ stored \in [Partitions -> Nat \cup {NoOffset}]
    /\ batch \in Seq(Address)
    /\ due \in BOOLEAN
    /\ rows \in Seq(Address)
    /\ dropped \subseteq Address
    /\ failures \in Nat
    /\ redeliveries \in Nat

Init ==
    /\ log = [p \in Partitions |-> <<>>]
    /\ committed = [p \in Partitions |-> NoOffset]
    /\ pc = "down"
    /\ position = [p \in Partitions |-> 0]
    /\ stored = [p \in Partitions |-> NoOffset]
    /\ batch = <<>>
    /\ due = FALSE
    /\ rows = <<>>
    /\ dropped = {}
    /\ failures = 0
    /\ redeliveries = 0

-----------------------------------------------------------------------------
(* Kafka *)

\* Ditto's export connection publishes an event.
Publish(p) ==
    /\ Len(log[p]) < MaxLog
    /\ \E kind \in Kinds : log' = [log EXCEPT ![p] = Append(@, kind)]
    /\ UNCHANGED <<committed, pc, consumerVars, batch, due, rows, dropped,
                   failures, redeliveries>>

\* Mutant: the missing offset is taken for a position.
ResumedFromNothing(p) == committed[p]

\* Where a consumer is placed when it joins the group.
Resumed(p) ==
    IF committed[p] # NoOffset THEN committed[p]
    ELSE IF AutoOffsetReset = "earliest" THEN 0
    ELSE Len(log[p])

\* The messages a reset to the end of the log passes over.
Skipped ==
    {m \in Messages : committed[m[1]] = NoOffset /\ m[2] <= Resumed(m[1])}
        \ (Elements(rows) \cup Elements(batch))

Join ==
    /\ position' = [p \in Partitions |-> Resumed(p)]
    /\ stored' = [p \in Partitions |-> NoOffset]

\* librdkafka's background thread commits what the application was handed.
AutoCommitted ==
    [p \in Partitions |-> IF stored[p] = NoOffset THEN committed[p] ELSE stored[p]]

AutoCommit ==
    /\ pc # "down"
    /\ committed' = AutoCommitted
    /\ UNCHANGED <<log, pc, consumerVars, batch, due, rows, dropped, failures,
                   redeliveries>>

-----------------------------------------------------------------------------
(* The consumer *)

\* The process starts, or its container is restarted.
Start ==
    /\ pc = "down"
    /\ pc' = "poll"
    /\ Join
    /\ dropped' = dropped \cup Skipped
    /\ due' = FALSE
    /\ UNCHANGED <<kafkaVars, batch, rows, failures, redeliveries>>

\* Mutant: the newest message goes first.
BatchedFirst(m) == <<m>> \o batch

Batched(m) == Append(batch, m)

\* poll() hands over the next message of p: it is parsed and batched, or
\* logged and forgotten.
PollMessage(p) ==
    LET next == position[p] + 1 IN
    /\ pc = "poll"
    /\ next <= Len(log[p])
    /\ position' = [position EXCEPT ![p] = next]
    /\ stored' = [stored EXCEPT ![p] = next]
    /\ batch' = IF Parsed(log[p][next]) THEN Batched(<<p, next>>) ELSE batch
    /\ pc' = "check"
    /\ UNCHANGED <<kafkaVars, due, rows, dropped, failures, redeliveries>>

\* poll() times out, or returns an error that is only logged.
PollNothing ==
    /\ pc = "poll"
    /\ pc' = "check"
    /\ UNCHANGED <<kafkaVars, consumerVars, batch, due, rows, dropped, failures,
                   redeliveries>>

TimePasses ==
    /\ pc # "down"
    /\ ~due
    /\ due' = TRUE
    /\ UNCHANGED <<kafkaVars, pc, consumerVars, batch, rows, dropped, failures,
                   redeliveries>>

\* Mutants: one message too late; only full batches.
FlushesLate == batch # <<>> /\ (Len(batch) > BatchSize \/ due)
FlushesFull == Len(batch) >= BatchSize

MustFlush == batch # <<>> /\ (Len(batch) >= BatchSize \/ due)

KeepCollecting ==
    /\ pc = "check"
    /\ ~MustFlush
    /\ pc' = "poll"
    /\ UNCHANGED <<kafkaVars, consumerVars, batch, due, rows, dropped, failures,
                   redeliveries>>

\* Mutant: the batch is not cleared.
FlushedAndKept ==
    /\ pc = "check"
    /\ MustFlush
    /\ due' = FALSE
    /\ pc' = "poll"
    /\ UNCHANGED <<kafkaVars, consumerVars, batch, redeliveries>>

\* Whatever became of the transaction, the batch is forgotten.
Flushed ==
    /\ pc = "check"
    /\ MustFlush
    /\ batch' = <<>>
    /\ due' = FALSE
    /\ pc' = "poll"
    /\ UNCHANGED <<kafkaVars, consumerVars, redeliveries>>

Storable == \A m \in Elements(batch) : Kind(m) = "event"

\* Mutant: the loop over the batch starts one too far.
StoresAllButFirst ==
    /\ Flushed
    /\ Storable
    /\ rows' = rows \o Tail(batch)
    /\ UNCHANGED <<dropped, failures>>

FlushStores ==
    /\ Flushed
    /\ Storable
    /\ rows' = rows \o batch
    /\ UNCHANGED <<dropped, failures>>

\* The database is unreachable, or refuses a row: the transaction is rolled back.
FlushFails ==
    /\ Flushed
    /\ \/ ~Storable /\ UNCHANGED failures
       \/ failures < MaxFailures /\ failures' = failures + 1
    /\ dropped' = dropped \cup Elements(batch)
    /\ UNCHANGED rows

\* The commit succeeds but its confirmation is lost: the writer sees a failure.
FlushUnconfirmed ==
    /\ Flushed
    /\ Storable
    /\ failures < MaxFailures
    /\ failures' = failures + 1
    /\ rows' = rows \o batch
    /\ UNCHANGED dropped

Redelivers ==
    /\ redeliveries < MaxRedeliveries
    /\ redeliveries' = redeliveries + 1

Stops(offsets) ==
    /\ Redelivers
    /\ pc' = "down"
    /\ batch' = <<>>
    /\ committed' = offsets
    /\ dropped' = dropped \cup {m \in Elements(batch) : m[2] <= offsets[m[1]]}
    /\ UNCHANGED <<log, consumerVars, due, rows, failures>>

\* The process is killed: SIGTERM and SIGKILL skip the finally block.
Crash ==
    /\ pc # "down"
    /\ Stops(committed)

\* A KeyboardInterrupt or an error of poll() closes the consumer, which
\* commits what was handed over, flushed or not.
Close ==
    /\ pc # "down"
    /\ Interrupted
    /\ Stops(AutoCommitted)

\* The group drops a consumer it no longer hears of; it rejoins from the
\* committed offset with its batch still in memory.
Rejoin ==
    /\ Redelivers
    /\ pc # "down"
    /\ Join
    /\ dropped' = dropped \cup Skipped
    /\ UNCHANGED <<kafkaVars, pc, batch, due, rows, failures>>

Next ==
    \/ \E p \in Partitions : Publish(p) \/ PollMessage(p)
    \/ AutoCommit
    \/ Start
    \/ PollNothing
    \/ TimePasses
    \/ KeepCollecting
    \/ FlushStores
    \/ FlushFails
    \/ FlushUnconfirmed
    \/ Crash
    \/ Close
    \/ Rejoin

Spec == Init /\ [][Next]_vars

\* poll() returns within a second and takes from every partition in the end;
\* the clock advances; a stopped container is started again.
Fairness ==
    /\ WF_vars(Start)
    /\ \A p \in Partitions : SF_vars(PollMessage(p))
    /\ WF_vars(PollNothing)
    /\ WF_vars(TimePasses)
    /\ WF_vars(KeepCollecting \/ FlushStores \/ FlushFails \/ FlushUnconfirmed)

FairSpec == Spec /\ Fairness

-----------------------------------------------------------------------------
(* Correctness *)

Settled(m) == m \in Elements(rows) \cup dropped

\* Every event the consumer has read past (kafka_consumer.py:20-52) is stored,
\* still in the batch, or among those given up: by a failed transaction, by a
\* shutdown after its offset was committed, or by a reset.
Accounted ==
    \A p \in Partitions :
        \A o \in 1 .. IF pc = "down" THEN committed[p] ELSE position[p] :
            Parsed(log[p][o]) =>
                Settled(<<p, o>>) \/ <<p, o>> \in Elements(batch)

FirstRow(i) == \A k \in 1 .. i - 1 : rows[k] # rows[i]

\* The identity column follows the order of each partition: an event first
\* stored after a later one had been given up before (ditto_events.py:21-23).
FirstRowsInOrder ==
    \A j \in 1 .. Len(rows) : \A i \in 1 .. j :
        /\ FirstRow(j)
        /\ rows[i][1] = rows[j][1]
        /\ rows[i][2] > rows[j][2]
        => rows[j] \in dropped

\* An event has one row for each time Kafka delivered it, no more: the primary
\* key (time, index) never rejects a second row (ditto_events.py:20-23).
RowsBoundedByDeliveries ==
    \A i \in 1 .. Len(rows) :
        Cardinality({j \in 1 .. Len(rows) : rows[j] = rows[i]}) <= 1 + redeliveries

\* The batch, which a crash loses, never exceeds batch_size (kafka_consumer.py:16).
BatchBounded == Len(batch) <= BatchSize

Store == INSTANCE EventStore

\* What the table promises to those who query it, batch by batch: rows are only
\* added, at most a batch at once, and each event after those published before it
\* and not given up; a failed flush, a crash or a shutdown gives up no more than a
\* batch.  A start or a rebalance without a committed offset is bounded only if
\* the reset is "earliest": "latest" gives up whatever was published before
\* (kafka_consumer.py:39-52, ditto_events_manager.py:14-25).
StoresInTurn == Store!Spec

\* Every message that parses is stored or given up in the end.
EveryEventSettles ==
    \A p \in Partitions : \A o \in 1 .. MaxLog :
        (o <= Len(log[p]) /\ Parsed(log[p][o])) ~> Settled(<<p, o>>)

\* "manual synchronous commit ensures at-least-once delivery": an event that
\* was handed to the writer is stored in the end (DEVELOPER_MANUAL_EN.md:101).
AtLeastOnce ==
    \A p \in Partitions : \A o \in 1 .. MaxLog :
        (pc # "down" /\ o <= position[p] /\ log[p][o] = "event")
            ~> <<p, o>> \in Elements(rows)
=============================================================================
