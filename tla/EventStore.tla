----------------------------- MODULE EventStore -----------------------------
(***************************************************************************)
(* What the historical writer promises about the table dittoevent, to those*)
(* who query it: nothing of consumers, offsets and batches is in here.     *)
(* Rows are only ever added, an event may be in the table more than once,  *)
(* and some never get there; but each event comes after those published    *)
(* before it in its partition, repetitions are bounded by redeliveries, and*)
(* no single mishap costs more than a batch.                               *)
(***************************************************************************)
EXTENDS Naturals, Sequences, FiniteSets

CONSTANTS
    Partitions,
    Kinds,
    BatchSize,
    AutoOffsetReset

VARIABLES
    log,          \* the messages of each partition
    rows,         \* the table, in the order of its identity column
    dropped,      \* the messages that were given up
    redeliveries  \* how often Kafka started over

vars == <<log, rows, dropped, redeliveries>>

Init ==
    /\ log = [p \in Partitions |-> <<>>]
    /\ rows = <<>>
    /\ dropped = {}
    /\ redeliveries = 0

Published == UNION {{p} \X (1 .. Len(log[p])) : p \in Partitions}

Publish ==
    /\ \E p \in Partitions, kind \in Kinds : log' = [log EXCEPT ![p] = Append(@, kind)]
    /\ UNCHANGED <<rows, dropped, redeliveries>>

\* Every message p has before offset o was stored above row j, unless it was
\* given up or nothing can be made of it.
InTurn(p, o, j) ==
    \A e \in 1 .. o - 1 :
        \/ log[p][e] \in {"malformed", "tombstone"}
        \/ <<p, e>> \in dropped
        \/ \E i \in 1 .. j - 1 : rows'[i] = <<p, e>>

\* Row j may be added: it is an event, in its turn, and not more often than
\* Kafka can have delivered it.
Storable(j) ==
    \E p \in Partitions : \E o \in 1 .. Len(log[p]) :
        /\ rows'[j] = <<p, o>>
        /\ log[p][o] = "event"
        /\ InTurn(p, o, j)
        /\ Cardinality({i \in 1 .. Len(rows') : rows'[i] = <<p, o>>}) <= 1 + redeliveries

\* One transaction adds a batch to the end of the table.
Store ==
    /\ Len(rows') \in Len(rows) + 1 .. Len(rows) + BatchSize
    /\ \A i \in 1 .. Len(rows) : rows'[i] = rows[i]
    /\ \A j \in Len(rows) + 1 .. Len(rows') : Storable(j)
    /\ UNCHANGED <<log, dropped, redeliveries>>

\* Messages are given up, and Kafka may start over.
Lose ==
    /\ dropped \subseteq dropped'
    /\ dropped' \subseteq Published
    /\ redeliveries' \in {redeliveries, redeliveries + 1}
    /\ UNCHANGED <<log, rows>>

\* No failure and no crash costs more than a batch.
LoseBatch == Lose /\ Cardinality(dropped' \ dropped) <= BatchSize

\* A reset to the end of the log may pass over any number of messages, but of
\* none that was stored.
Reset ==
    /\ AutoOffsetReset = "latest"
    /\ Lose
    /\ \A i \in 1 .. Len(rows) : rows[i] \in dropped' => rows[i] \in dropped

Next == Publish \/ Store \/ LoseBatch \/ Reset

Spec == Init /\ [][Next]_vars
=============================================================================
