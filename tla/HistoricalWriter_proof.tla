----------------------- MODULE HistoricalWriter_proof -----------------------
(***************************************************************************)
(* Proofs about HistoricalWriter, for every set of partitions, every size  *)
(* of a batch, both resets of the offset and every value of the bounds.    *)
(***************************************************************************)
EXTENDS HistoricalWriter, SequenceTheorems, FiniteSetTheorems, TLAPS

\* The offset up to which the group has read p.
Read(p) == IF pc = "down" THEN committed[p] ELSE position[p]

Fate(m) == Settled(m) \/ m \in Elements(batch)

\* No offset points past the end of its partition; what librdkafka commits is
\* what it handed over last, and never behind what was committed before.
OffsetsInOrder ==
    \A p \in Partitions :
        /\ committed[p] <= Len(log[p])
        /\ position[p] <= Len(log[p])
        /\ pc # "down" => /\ stored[p] \in {NoOffset, position[p]}
                          /\ committed[p] <= position[p]

\* A batch is only collected while there is room for one more message.
BatchHasRoom ==
    /\ Len(batch) <= BatchSize
    /\ pc = "poll" => Len(batch) < BatchSize
    /\ pc = "down" => batch = <<>>

Inv == TypeOK /\ OffsetsInOrder /\ BatchHasRoom /\ Accounted

-----------------------------------------------------------------------------
(* The elements of a sequence *)

\* Appending adds one element, concatenation adds those of both parts.
LEMMA ElementsGrow ==
    ASSUME NEW S, NEW s \in Seq(S), NEW t \in Seq(S), NEW e \in S
    PROVE  /\ Elements(Append(s, e)) = Elements(s) \cup {e}
           /\ Elements(s \o t) = Elements(s) \cup Elements(t)
           /\ Elements(s) \subseteq S
           /\ Elements(<<>>) = {}
<1>1. Elements(Append(s, e)) = Elements(s) \cup {e}
  <2>1. /\ Len(Append(s, e)) = Len(s) + 1
        /\ Len(s) \in Nat
        /\ Append(s, e)[Len(s) + 1] = e
        /\ \A i \in 1 .. Len(s) : Append(s, e)[i] = s[i]
    OBVIOUS
  <2> QED
    BY <2>1 DEF Elements
<1>2. Elements(s \o t) = Elements(s) \cup Elements(t)
  <2>1. /\ Len(s \o t) = Len(s) + Len(t)
        /\ Len(s) \in Nat /\ Len(t) \in Nat
        /\ \A i \in 1 .. Len(s) : (s \o t)[i] = s[i]
        /\ \A i \in 1 .. Len(t) : (s \o t)[Len(s) + i] = t[i]
        /\ \A i \in 1 .. Len(s) + Len(t) :
             i \in 1 .. Len(s) \/ i - Len(s) \in 1 .. Len(t)
    OBVIOUS
  <2>2. Elements(s) \cup Elements(t) \subseteq Elements(s \o t)
    <3>1. \A i \in 1 .. Len(t) : Len(s) + i \in 1 .. Len(s) + Len(t)
      BY <2>1
    <3>2. \A i \in 1 .. Len(s) : i \in 1 .. Len(s) + Len(t)
      BY <2>1
    <3> QED
      BY <2>1, <3>1, <3>2 DEF Elements
  <2>3. Elements(s \o t) \subseteq Elements(s) \cup Elements(t)
    <3> SUFFICES ASSUME NEW i \in 1 .. Len(s) + Len(t)
                 PROVE  (s \o t)[i] \in Elements(s) \cup Elements(t)
      BY <2>1 DEF Elements
    <3>1. CASE i \in 1 .. Len(s)
      BY <2>1, <3>1 DEF Elements
    <3>2. CASE i - Len(s) \in 1 .. Len(t)
      <4>1. (s \o t)[i] = t[i - Len(s)]
        BY <2>1, <3>2
      <4> QED
        BY <3>2, <4>1 DEF Elements
    <3> QED
      BY <2>1, <3>1, <3>2
  <2> QED
    BY <2>2, <2>3
<1>3. Elements(s) \subseteq S /\ Elements(<<>>) = {}
  BY DEF Elements
<1> QED
  BY <1>1, <1>2, <1>3

-----------------------------------------------------------------------------
(* Kafka *)

\* A message is an offset of a partition, within its log.
LEMMA IsMessage ==
    ASSUME TypeOK
    PROVE  /\ Messages \subseteq Address
           /\ \A p \in Partitions : \A o \in 1 .. Len(log[p]) : <<p, o>> \in Messages
<1> DEFINE Of(p) == {p} \X (1 .. Len(log[p]))
<1>1. \A p \in Partitions : Len(log[p]) \in Nat
  BY DEF TypeOK
<1>2. \A p \in Partitions : Of(p) \subseteq Address
  BY <1>1 DEF Address
<1>3. \A p \in Partitions : \A o \in 1 .. Len(log[p]) : <<p, o>> \in Of(p)
  OBVIOUS
<1>4. Messages = UNION {Of(p) : p \in Partitions}
  BY Zenon DEF Messages
<1> HIDE DEF Of
<1> QED
  BY <1>2, <1>3, <1>4

\* What resets and resumptions do to the position (settings/kafka.py:20-29).
LEMMA JoinPosition ==
    ASSUME Inv, Join
    PROVE  /\ Skipped \subseteq Address
           /\ position' \in [Partitions -> Nat]
           /\ stored' = [p \in Partitions |-> NoOffset]
           /\ \A p \in Partitions :
                /\ position'[p] <= Len(log[p])
                /\ committed[p] <= position'[p]
                /\ committed[p] # NoOffset => position'[p] = committed[p]
                /\ committed[p] = NoOffset =>
                     \A o \in 1 .. position'[p] :
                        <<p, o>> \in Skipped \cup Elements(rows) \cup Elements(batch)
<1> USE DEF Inv, TypeOK, Join
<1>1. ASSUME NEW p \in Partitions
      PROVE  /\ Resumed(p) \in Nat
             /\ Resumed(p) <= Len(log[p])
             /\ committed[p] <= Resumed(p)
             /\ committed[p] # NoOffset => Resumed(p) = committed[p]
  <2>1. Len(log[p]) \in Nat /\ committed[p] \in Nat \cup {NoOffset}
    OBVIOUS
  <2> QED
    BY <2>1 DEF Resumed, OffsetsInOrder, NoOffset
<1>2. Skipped \subseteq Address
  BY IsMessage DEF Skipped
<1>3. ASSUME NEW p \in Partitions, committed[p] = NoOffset, NEW o \in 1 .. Resumed(p)
      PROVE  <<p, o>> \in Skipped \cup Elements(rows) \cup Elements(batch)
  <2>1. o \in 1 .. Len(log[p])
    BY <1>1
  <2> HIDE DEF Inv, TypeOK
  <2>2. <<p, o>> \in Messages
    <3>1. \A q \in Partitions : \A i \in 1 .. Len(log[q]) : <<q, i>> \in Messages
      BY IsMessage DEF Inv
    <3> QED
      BY <2>1, <3>1
  <2>3. o <= Resumed(p)
    BY <1>1
  <2>4. <<p, o>>[1] = p /\ <<p, o>>[2] = o
    OBVIOUS
  <2> DEFINE m == <<p, o>>
  <2>5. m \in Messages /\ committed[m[1]] = NoOffset /\ m[2] <= Resumed(m[1])
    BY <1>3, <2>2, <2>3, <2>4
  <2> HIDE DEF m
  <2>6. m \in Skipped \cup Elements(rows) \cup Elements(batch)
    BY <2>5 DEF Skipped
  <2> QED
    BY <2>6 DEF m
<1>4. /\ position' = [p \in Partitions |-> Resumed(p)]
      /\ stored' = [p \in Partitions |-> NoOffset]
  OBVIOUS
<1> HIDE DEF Inv, TypeOK, Join
<1>5. \A p \in Partitions : position'[p] = Resumed(p)
  BY <1>4
<1>6. position' \in [Partitions -> Nat]
  BY <1>1, <1>4
<1> QED
  BY <1>1, <1>2, <1>3, <1>4, <1>5, <1>6

\* Whoever has a fate keeps it as long as rows and dropped only grow and the
\* batch loses nothing that they do not gain.
LEMMA AccountedStays ==
    ASSUME Inv, UNCHANGED log,
           \A p \in Partitions : Read(p)' \in Int /\ Read(p)' <= Read(p),
           \A p \in Partitions : \A o \in 1 .. Read(p)' :
               Fate(<<p, o>>) => Fate(<<p, o>>)'
    PROVE  Accounted'
<1> SUFFICES ASSUME NEW p \in Partitions, NEW o \in 1 .. Read(p)', Parsed(log[p][o])
             PROVE  Fate(<<p, o>>)'
  BY DEF Accounted, Read, Fate
<1>1. Read(p) \in Int
  BY DEF Inv, TypeOK, Read, NoOffset
<1>2. o \in 1 .. Read(p)
  BY <1>1
<1> QED
  BY <1>2 DEF Inv, Accounted, Fate, Read

\* A step that touches neither offsets nor fates keeps the accounts.
LEMMA SameAccounts ==
    ASSUME Inv, UNCHANGED <<log, committed, position, batch, rows, dropped>>,
           pc = "down" <=> pc' = "down"
    PROVE  Accounted'
BY DEF Inv, Accounted, Settled

\* The consumer that joins again starts at the committed offset, or passes over
\* what the reset skips.
LEMMA JoinAccounts ==
    ASSUME Inv, Join, UNCHANGED <<log, committed, batch, rows>>,
           dropped' = dropped \cup Skipped, pc' # "down"
    PROVE  Accounted'
<1> SUFFICES ASSUME NEW p \in Partitions, NEW o \in 1 .. position'[p], Parsed(log[p][o])
             PROVE  Fate(<<p, o>>)'
  BY DEF Accounted, Fate
<1>1. CASE committed[p] = NoOffset
  BY <1>1, JoinPosition DEF Fate, Settled
<1>2. CASE committed[p] # NoOffset
  <2>1. o \in 1 .. committed[p] /\ committed[p] \in Nat
    BY <1>2, JoinPosition DEF Inv, TypeOK
  <2>2. o \in 1 .. Read(p)
    BY <2>1 DEF Inv, TypeOK, OffsetsInOrder, Read
  <2> QED
    BY <2>2 DEF Inv, Accounted, Read, Fate, Settled
<1> QED
  BY <1>1, <1>2

\* Nothing is read before the writer is installed.
LEMMA InitialInv == Init => Inv
<1> SUFFICES ASSUME Init PROVE Inv
  OBVIOUS
<1> USE DEF Init, NoOffset
<1>1. <<>> \in Seq(Kinds) /\ <<>> \in Seq(Address) /\ Len(<<>>) = 0
  OBVIOUS
<1>2. TypeOK
  BY <1>1 DEF TypeOK
<1>3. OffsetsInOrder /\ Accounted
  BY <1>1 DEF OffsetsInOrder, Accounted
<1>4. BatchHasRoom
  BY <1>1, ConstantsAssumption DEF BatchHasRoom
<1> QED
  BY <1>2, <1>3, <1>4 DEF Inv

\* Ditto publishes behind everything that was read.
LEMMA PublishPreserves == ASSUME Inv, NEW p \in Partitions, Publish(p) PROVE Inv'
<1> USE DEF Publish, consumerVars
<1>1. PICK kind \in Kinds : log' = [log EXCEPT ![p] = Append(@, kind)]
  OBVIOUS
<1>2. log \in [Partitions -> Seq(Kinds)]
  BY DEF Inv, TypeOK
<1>3. log' \in [Partitions -> Seq(Kinds)]
  <2>1. Append(log[p], kind) \in Seq(Kinds)
    BY <1>2, AppendProperties
  <2> QED
    BY <1>1, <1>2, <2>1
<1>4. \A q \in Partitions :
        /\ Len(log[q]) \in Nat /\ Len(log'[q]) \in Nat /\ Len(log[q]) <= Len(log'[q])
        /\ \A o \in 1 .. Len(log[q]) : log'[q][o] = log[q][o]
  <2> TAKE q \in Partitions
  <2>1. CASE q = p
    <3>1. log'[p] = Append(log[p], kind) /\ log[p] \in Seq(Kinds)
      BY <1>1, <1>2
    <3> QED
      BY <2>1, <3>1
  <2>2. CASE q # p
    BY <1>1, <1>2, <2>2
  <2> QED
    BY <2>1, <2>2
<1>5. TypeOK'
  BY <1>3 DEF Inv, TypeOK
<1>6. OffsetsInOrder'
  BY <1>4 DEF Inv, TypeOK, OffsetsInOrder, NoOffset
<1>7. BatchHasRoom'
  BY DEF Inv, BatchHasRoom
<1>8. Accounted'
  <2> SUFFICES ASSUME NEW q \in Partitions, NEW o \in 1 .. Read(q), Parsed(log'[q][o])
               PROVE  Fate(<<q, o>>)'
    BY DEF Accounted, Fate, Read
  <2>1. o \in 1 .. Len(log[q])
    BY <1>4 DEF Inv, TypeOK, OffsetsInOrder, Read, NoOffset
  <2> QED
    BY <1>4, <2>1 DEF Inv, Accounted, Read, Fate, Settled
<1> QED
  BY <1>5, <1>6, <1>7, <1>8 DEF Inv

\* librdkafka commits what was handed over, which is what was read.
LEMMA AutoCommitPreserves == ASSUME Inv, AutoCommit PROVE Inv'
<1> USE DEF AutoCommit, AutoCommitted, consumerVars
<1>1. \A p \in Partitions :
        /\ committed'[p] \in Nat \cup {NoOffset}
        /\ committed'[p] <= position[p]
  BY DEF Inv, TypeOK, OffsetsInOrder, NoOffset
<1>2. TypeOK'
  BY <1>1 DEF Inv, TypeOK
<1>3. OffsetsInOrder'
  <2>1. \A p \in Partitions : Len(log[p]) \in Nat /\ position[p] \in Nat
    BY DEF Inv, TypeOK
  <2> QED
    BY <1>1, <2>1 DEF Inv, OffsetsInOrder, NoOffset
<1>4. BatchHasRoom'
  BY DEF Inv, BatchHasRoom
<1>5. Accounted'
  BY DEF Inv, Accounted, Settled
<1> QED
  BY <1>2, <1>3, <1>4, <1>5 DEF Inv

-----------------------------------------------------------------------------
(* The consumer *)

\* A consumer that joins finds its positions within the logs, and is handed
\* nothing yet (kafka_consumer.py:11-18).
LEMMA JoinKeepsOrder ==
    ASSUME Inv, Join, UNCHANGED <<log, committed>>
    PROVE  OffsetsInOrder'
<1>1. \A p \in Partitions :
        /\ position'[p] <= Len(log[p])
        /\ committed[p] <= position'[p]
        /\ stored'[p] = NoOffset
  BY JoinPosition
<1>2. \A p \in Partitions : committed[p] <= Len(log[p])
  BY DEF Inv, OffsetsInOrder
<1> QED
  BY <1>1, <1>2 DEF OffsetsInOrder

\* A consumer that starts reads on where the group was, or skips to the end.
LEMMA StartPreserves == ASSUME Inv, Start PROVE Inv'
<1> USE DEF Start, kafkaVars
<1>1. TypeOK'
  <2>1. /\ Skipped \subseteq Address
        /\ position' \in [Partitions -> Nat]
        /\ stored' = [p \in Partitions |-> NoOffset]
    BY JoinPosition
  <2>2. stored' \in [Partitions -> Nat \cup {NoOffset}]
    BY <2>1
  <2> QED
    BY <2>1, <2>2 DEF Inv, TypeOK
<1>2. OffsetsInOrder'
  BY JoinKeepsOrder
<1>3. BatchHasRoom'
  BY ConstantsAssumption DEF Inv, BatchHasRoom
<1>4. Accounted'
  BY JoinAccounts
<1> QED
  BY <1>1, <1>2, <1>3, <1>4 DEF Inv

\* A consumer that rejoins does the same with a batch in its memory.
LEMMA RejoinPreserves == ASSUME Inv, Rejoin PROVE Inv'
<1> USE DEF Rejoin, Redelivers, kafkaVars
<1>1. TypeOK'
  <2>1. /\ Skipped \subseteq Address
        /\ position' \in [Partitions -> Nat]
        /\ stored' = [p \in Partitions |-> NoOffset]
    BY JoinPosition
  <2>2. stored' \in [Partitions -> Nat \cup {NoOffset}]
    BY <2>1
  <2> QED
    BY <2>1, <2>2 DEF Inv, TypeOK
<1>2. OffsetsInOrder'
  BY JoinKeepsOrder
<1>3. BatchHasRoom'
  BY DEF Inv, BatchHasRoom
<1>4. Accounted'
  BY JoinAccounts
<1> QED
  BY <1>1, <1>2, <1>3, <1>4 DEF Inv

\* The message handed over is the one after the position: batched if it
\* parses, and the batch had room for it.
LEMMA PollMessagePreserves ==
    ASSUME Inv, NEW p \in Partitions, PollMessage(p) PROVE Inv'
<1> DEFINE next == position[p] + 1
<1>1. /\ pc = "poll" /\ pc' = "check"
      /\ next <= Len(log[p])
      /\ position' = [position EXCEPT ![p] = next]
      /\ stored' = [stored EXCEPT ![p] = next]
      /\ batch' = IF Parsed(log[p][next]) THEN Append(batch, <<p, next>>) ELSE batch
      /\ UNCHANGED <<log, committed, due, rows, dropped, failures, redeliveries>>
  BY DEF PollMessage, Batched, kafkaVars
<1>2. /\ log \in [Partitions -> Seq(Kinds)] /\ batch \in Seq(Address)
      /\ position \in [Partitions -> Nat]
      /\ stored \in [Partitions -> Nat \cup {NoOffset}]
  BY DEF Inv, TypeOK
<1>3. next \in Nat \ {0} /\ <<p, next>> \in Address
  BY <1>2 DEF Address
<1>4. /\ position'[p] = next /\ stored'[p] = next
      /\ \A q \in Partitions \ {p} : position'[q] = position[q] /\ stored'[q] = stored[q]
  BY <1>1, <1>2
<1>5. /\ Elements(batch) \subseteq Elements(batch')
      /\ Parsed(log[p][next]) => <<p, next>> \in Elements(batch')
  BY <1>1, <1>2, <1>3, ElementsGrow
<1>6. batch' \in Seq(Address) /\ Len(batch') <= Len(batch) + 1 /\ Len(batch) \in Nat
      /\ Len(batch') \in Nat
  BY <1>1, <1>2, <1>3
<1> HIDE DEF next
<1>7. TypeOK'
  <2>1. /\ position' \in [Partitions -> Nat]
        /\ stored' \in [Partitions -> Nat \cup {NoOffset}]
    BY <1>1, <1>2, <1>3
  <2> QED
    BY <1>1, <1>6, <2>1 DEF Inv, TypeOK
<1>8. OffsetsInOrder'
  <2> SUFFICES ASSUME NEW q \in Partitions
               PROVE  /\ committed[q] <= Len(log[q])
                      /\ position'[q] <= Len(log[q])
                      /\ stored'[q] \in {NoOffset, position'[q]}
                      /\ committed[q] <= position'[q]
    BY <1>1 DEF OffsetsInOrder
  <2>1. /\ committed[q] <= Len(log[q])
        /\ position[q] <= Len(log[q])
        /\ stored[q] \in {NoOffset, position[q]}
        /\ committed[q] <= position[q]
    BY <1>1 DEF Inv, OffsetsInOrder
  <2>2. committed[q] \in Int /\ position[q] \in Int
    BY DEF Inv, TypeOK, NoOffset
  <2>3. CASE q = p
    BY <1>1, <1>4, <2>1, <2>2, <2>3 DEF next
  <2>4. CASE q # p
    BY <1>4, <2>1, <2>4
  <2> QED
    BY <2>3, <2>4
<1>9. BatchHasRoom'
  BY <1>1, <1>6, ConstantsAssumption DEF Inv, BatchHasRoom
<1>10. Accounted'
  <2> SUFFICES ASSUME NEW q \in Partitions, NEW o \in 1 .. position'[q], Parsed(log[q][o])
               PROVE  Fate(<<q, o>>)'
    BY <1>1 DEF Accounted, Fate
  <2>1. CASE q = p /\ o = next
    BY <1>5, <2>1 DEF Fate
  <2>2. CASE ~(q = p /\ o = next)
    <3>1. o \in 1 .. position[q]
      BY <1>2, <1>4, <2>2 DEF next
    <3>2. Fate(<<q, o>>)
      BY <1>1, <3>1 DEF Inv, Accounted, Fate
    <3> QED
      BY <1>1, <1>5, <3>2 DEF Fate, Settled
  <2> QED
    BY <2>1, <2>2
<1> QED
  BY <1>7, <1>8, <1>9, <1>10 DEF Inv

\* A poll that hands over nothing and a loop that goes on collecting leave the
\* batch with its room; the clock touches nothing.
LEMMA WaitingPreserves ==
    ASSUME Inv, PollNothing \/ TimePasses \/ KeepCollecting PROVE Inv'
<1> USE DEF PollNothing, TimePasses, KeepCollecting, kafkaVars, consumerVars
<1>1. TypeOK'
  BY DEF Inv, TypeOK
<1>2. OffsetsInOrder'
  BY DEF Inv, OffsetsInOrder
<1>3. BatchHasRoom'
  <2>1. batch \in Seq(Address) /\ Len(batch) \in Nat
    BY DEF Inv, TypeOK
  <2>2. KeepCollecting => Len(batch) < BatchSize
    <3>1. batch = <<>> => Len(batch) = 0
      BY <2>1
    <3> QED
      BY <2>1, <3>1, ConstantsAssumption DEF MustFlush
  <2> QED
    BY <2>1, <2>2 DEF Inv, BatchHasRoom
<1>4. Accounted'
  BY SameAccounts
<1> QED
  BY <1>1, <1>2, <1>3, <1>4 DEF Inv

\* Whatever becomes of the transaction, what the batch held is in the rows or
\* among the dropped once the batch is forgotten (kafka_consumer.py:42-52).
LEMMA FlushPreserves ==
    ASSUME Inv, FlushStores \/ FlushFails \/ FlushUnconfirmed PROVE Inv'
<1>1. /\ pc = "check" /\ pc' = "poll" /\ batch' = <<>> /\ due' = FALSE
      /\ UNCHANGED <<log, committed, position, stored, redeliveries>>
  BY DEF FlushStores, FlushFails, FlushUnconfirmed, Flushed, kafkaVars, consumerVars
<1>2. \/ rows' = rows \o batch /\ dropped' = dropped
      \/ rows' = rows /\ dropped' = dropped \cup Elements(batch)
  BY DEF FlushStores, FlushFails, FlushUnconfirmed
<1>3. failures' \in Nat
  BY DEF Inv, TypeOK, FlushStores, FlushFails, FlushUnconfirmed
<1>4. rows \in Seq(Address) /\ batch \in Seq(Address) /\ dropped \subseteq Address
  BY DEF Inv, TypeOK
<1>5. /\ Elements(batch) \subseteq Address
      /\ Elements(rows \o batch) = Elements(rows) \cup Elements(batch)
      /\ rows \o batch \in Seq(Address)
  <2>1. CASE Address = {}
    <3>1. batch = <<>> /\ rows = <<>>
      BY <1>4, <2>1
    <3> QED
      BY <1>4, <3>1 DEF Elements
  <2>2. CASE Address # {}
    BY <1>4, <2>2, ElementsGrow
  <2> QED
    BY <2>1, <2>2
<1>6. TypeOK'
  <2>1. rows' \in Seq(Address) /\ dropped' \subseteq Address
    BY <1>2, <1>4, <1>5
  <2>2. <<>> \in Seq(Address)
    OBVIOUS
  <2> QED
    BY <1>1, <1>3, <2>1, <2>2 DEF Inv, TypeOK
<1>7. OffsetsInOrder'
  BY <1>1 DEF Inv, OffsetsInOrder
<1>8. BatchHasRoom'
  BY <1>1, ConstantsAssumption DEF BatchHasRoom
<1>9. Accounted'
  <2>1. Elements(rows) \cup Elements(batch) \cup dropped \subseteq (Elements(rows) \cup dropped)'
    BY <1>2, <1>5
  <2> QED
    BY <1>1, <2>1 DEF Inv, Accounted, Settled
<1> QED
  BY <1>6, <1>7, <1>8, <1>9 DEF Inv

\* Stopping forgets the batch: the part of it behind the offset that the group
\* keeps is never delivered again, and is given up.
LEMMA StopPreserves ==
    ASSUME Inv, NEW offsets,
           offsets \in [Partitions -> Nat \cup {NoOffset}],
           \A p \in Partitions : offsets[p] <= position[p],
           Redelivers, pc # "down", pc' = "down", batch' = <<>>,
           committed' = offsets,
           dropped' = dropped \cup {m \in Elements(batch) : m[2] <= offsets[m[1]]},
           UNCHANGED <<log, consumerVars, due, rows, failures>>
    PROVE  Inv'
<1> USE DEF Redelivers, consumerVars
<1>1. batch \in Seq(Address) /\ Elements(batch) \subseteq Address
  BY DEF Inv, TypeOK, Elements
<1>2. TypeOK'
  <2>1. <<>> \in Seq(Address)
    OBVIOUS
  <2>2. redeliveries' \in Nat
    BY DEF Inv, TypeOK
  <2> QED
    BY <1>1, <2>1, <2>2 DEF Inv, TypeOK
<1>3. OffsetsInOrder'
  <2>1. \A p \in Partitions : /\ position[p] <= Len(log[p]) /\ position[p] \in Int
                              /\ Len(log[p]) \in Int /\ offsets[p] \in Int
    BY DEF Inv, TypeOK, OffsetsInOrder, NoOffset
  <2> QED
    BY <2>1 DEF OffsetsInOrder
<1>4. BatchHasRoom'
  BY ConstantsAssumption DEF BatchHasRoom
<1>5. Accounted'
  <2> SUFFICES ASSUME NEW p \in Partitions, NEW o \in 1 .. offsets[p], Parsed(log[p][o])
               PROVE  Settled(<<p, o>>)'
    BY DEF Accounted
  <2>1. o \in 1 .. position[p] /\ o <= offsets[p]
    <3>1. offsets[p] \in Int /\ position[p] \in Int /\ offsets[p] <= position[p]
      BY DEF Inv, TypeOK, NoOffset
    <3> QED
      BY <3>1
  <2>2. Settled(<<p, o>>) \/ <<p, o>> \in Elements(batch)
    BY <2>1 DEF Inv, Accounted
  <2>3. <<p, o>>[1] = p /\ <<p, o>>[2] = o
    OBVIOUS
  <2> DEFINE m == <<p, o>>
  <2>4. m \in Elements(batch) => m \in dropped'
    BY <2>1, <2>3
  <2> HIDE DEF m
  <2>5. (Settled(m) \/ m \in Elements(batch)) => Settled(m)'
    BY <2>4 DEF Settled
  <2> QED
    BY <2>2, <2>5 DEF m
<1> QED
  BY <1>2, <1>3, <1>4, <1>5 DEF Inv

\* Each way of stopping leaves offsets that lie behind the position.
LEMMA StopsPreserves == ASSUME Inv, Crash \/ Close PROVE Inv'
<1>1. CASE Crash
  <2>1. PICK offsets : offsets = committed
    OBVIOUS
  <2>2. /\ offsets \in [Partitions -> Nat \cup {NoOffset}]
        /\ \A p \in Partitions : offsets[p] <= position[p]
    BY <1>1, <2>1 DEF Inv, TypeOK, OffsetsInOrder, Crash, Stops
  <2>3. /\ Redelivers /\ pc # "down" /\ pc' = "down" /\ batch' = <<>>
        /\ committed' = offsets
        /\ dropped' = dropped \cup {m \in Elements(batch) : m[2] <= offsets[m[1]]}
        /\ UNCHANGED <<log, consumerVars, due, rows, failures>>
    BY <1>1, <2>1 DEF Crash, Stops
  <2> QED
    BY <2>2, <2>3, StopPreserves
<1>2. CASE Close
  <2>1. PICK offsets : offsets = AutoCommitted
    OBVIOUS
  <2>2. /\ Redelivers /\ pc # "down" /\ pc' = "down" /\ batch' = <<>>
        /\ committed' = offsets
        /\ dropped' = dropped \cup {m \in Elements(batch) : m[2] <= offsets[m[1]]}
        /\ UNCHANGED <<log, consumerVars, due, rows, failures>>
    BY <1>2, <2>1 DEF Close, Stops
  <2>3. /\ offsets \in [Partitions -> Nat \cup {NoOffset}]
        /\ \A p \in Partitions : offsets[p] <= position[p]
    <3>1. /\ committed \in [Partitions -> Nat \cup {NoOffset}]
          /\ stored \in [Partitions -> Nat \cup {NoOffset}]
          /\ position \in [Partitions -> Nat]
          /\ \A p \in Partitions : /\ stored[p] \in {NoOffset, position[p]}
                                   /\ committed[p] <= position[p]
      BY <2>2 DEF Inv, TypeOK, OffsetsInOrder
    <3> QED
      BY <2>1, <3>1 DEF AutoCommitted
  <2> QED
    BY <2>2, <2>3, StopPreserves
<1> QED
  BY <1>1, <1>2

-----------------------------------------------------------------------------
(* The writer *)

\* A step that changes nothing keeps everything.
LEMMA StutterPreserves == ASSUME Inv, UNCHANGED vars PROVE Inv'
<1> USE DEF vars, kafkaVars, consumerVars
<1>1. TypeOK'
  BY DEF Inv, TypeOK
<1>2. OffsetsInOrder' /\ BatchHasRoom'
  BY DEF Inv, OffsetsInOrder, BatchHasRoom
<1>3. Accounted'
  BY SameAccounts
<1> QED
  BY <1>1, <1>2, <1>3 DEF Inv

\* Every step of Kafka and of the consumer keeps the invariant.
LEMMA StepPreserves == ASSUME Inv, [Next]_vars PROVE Inv'
<1>1. ASSUME NEW p \in Partitions, Publish(p) \/ PollMessage(p)
      PROVE  Inv'
  BY <1>1, PublishPreserves, PollMessagePreserves
<1>2. CASE AutoCommit
  BY <1>2, AutoCommitPreserves
<1>3. CASE Start
  BY <1>3, StartPreserves
<1>4. CASE PollNothing \/ TimePasses \/ KeepCollecting
  BY <1>4, WaitingPreserves
<1>5. CASE FlushStores \/ FlushFails \/ FlushUnconfirmed
  BY <1>5, FlushPreserves
<1>6. CASE Crash \/ Close
  BY <1>6, StopsPreserves
<1>7. CASE Rejoin
  BY <1>7, RejoinPreserves
<1>8. CASE UNCHANGED vars
  BY <1>8, StutterPreserves
<1> QED
  BY <1>1, <1>2, <1>3, <1>4, <1>5, <1>6, <1>7, <1>8 DEF Next

\* The inductive invariant of the consumer (kafka_consumer.py:11-56).
THEOREM InvariantTheorem == Spec => []Inv
<1> QED
  BY InitialInv, StepPreserves, PTL DEF Spec

\* Every variable of the writer keeps its type, the batch and the rows hold
\* addresses of messages only (kafka_consumer.py:11-19).
THEOREM TypeCorrectness == Spec => []TypeOK
<1>1. Inv => TypeOK
  BY DEF Inv
<1> QED
  BY <1>1, InvariantTheorem, PTL

\* Every event the consumer read past (kafka_consumer.py:20-52) is stored, in
\* the batch or given up, whatever fails and however often it is restarted.
THEOREM AccountedTheorem == Spec => []Accounted
<1>1. Inv => Accounted
  BY DEF Inv
<1> QED
  BY <1>1, InvariantTheorem, PTL

\* The batch never exceeds batch_size (kafka_consumer.py:16), even if the
\* consumer rejoins with a batch in its memory.
THEOREM BatchTheorem == Spec => []BatchBounded
<1>1. Inv => BatchBounded
  BY DEF Inv, BatchHasRoom, BatchBounded
<1> QED
  BY <1>1, InvariantTheorem, PTL

-----------------------------------------------------------------------------
(* The order of the rows *)

\* At k, s may have the event at offset n of q: all events before it in its
\* partition have come, but for those that were given up.
Follows(s, l, d, k, q, n) ==
    /\ n \in 1 .. Len(l[q])
    /\ Parsed(l[q][n])
    /\ \A o \in 1 .. n - 1 :
          Parsed(l[q][o]) =>
              <<q, o>> \in d \/ \E i \in 1 .. k - 1 : s[i] = <<q, o>>

Ordered(s, l, d) == \A k \in 1 .. Len(s) : Follows(s, l, d, k, s[k][1], s[k][2])

\* The table, followed by what the next flush adds to it.
RowsOrdered == Ordered(rows \o batch, log, dropped)

\* Forgetting the end of the sequence, or giving up more, keeps it ordered.
LEMMA OrderedPrefix ==
    ASSUME NEW l, NEW d, NEW e, d \subseteq e,
           NEW r \in Seq(Address), NEW b \in Seq(Address), Ordered(r \o b, l, d)
    PROVE  Ordered(r, l, e)
<1> SUFFICES ASSUME NEW k \in 1 .. Len(r)
             PROVE  Follows(r, l, e, k, r[k][1], r[k][2])
  BY DEF Ordered
<1> DEFINE s == r \o b
<1>1. /\ k \in 1 .. Len(s) /\ s[k] = r[k]
      /\ \A i \in 1 .. k - 1 : s[i] = r[i]
  OBVIOUS
<1> HIDE DEF s
<1>2. Follows(s, l, d, k, r[k][1], r[k][2])
  BY <1>1 DEF Ordered, s
<1> QED
  BY <1>1, <1>2, Zenon DEF Follows

\* Messages published later change nothing.
LEMMA OrderedPublish ==
    ASSUME TypeOK, NEW p \in Partitions, NEW kind \in Kinds,
           NEW s \in Seq(Address), Ordered(s, log, dropped)
    PROVE  Ordered(s, [log EXCEPT ![p] = Append(@, kind)], dropped)
<1> DEFINE l == [log EXCEPT ![p] = Append(@, kind)]
<1>1. \A q \in Partitions :
          /\ Len(log[q]) \in Nat
          /\ Len(log[q]) <= Len(l[q])
          /\ \A o \in 1 .. Len(log[q]) : l[q][o] = log[q][o]
  BY DEF TypeOK
<1> HIDE DEF l
<1> SUFFICES ASSUME NEW k \in 1 .. Len(s)
             PROVE  Follows(s, l, dropped, k, s[k][1], s[k][2])
  BY DEF Ordered, l
<1>2. Follows(s, log, dropped, k, s[k][1], s[k][2])
  BY DEF Ordered
<1>3. PICK q \in Partitions, n \in Nat \ {0} : s[k][1] = q /\ s[k][2] = n
  <2>1. s[k] \in Address
    OBVIOUS
  <2> QED BY <2>1 DEF Address
<1>4. Follows(s, log, dropped, k, q, n)
  BY <1>2, <1>3
<1>5. /\ n \in 1 .. Len(l[q]) /\ n \in 1 .. Len(log[q])
      /\ \A o \in 1 .. n - 1 : o \in 1 .. Len(log[q])
  BY <1>1, <1>4 DEF Follows
<1>6. Follows(s, l, dropped, k, q, n)
  BY <1>1, <1>4, <1>5, Zenon DEF Follows
<1> QED
  BY <1>3, <1>6

\* What poll() hands over comes after everything it handed over before, and that
\* has a fate.
LEMMA OrderedPoll ==
    ASSUME Inv, RowsOrdered, NEW p \in Partitions, PollMessage(p)
    PROVE  RowsOrdered'
<1> DEFINE next == position[p] + 1
           m == <<p, next>>
<1>1. /\ rows \in Seq(Address) /\ batch \in Seq(Address) /\ position[p] \in Nat
      /\ m \in Address /\ Len(log[p]) \in Nat
  BY DEF Inv, TypeOK, Address
<1>2. /\ pc = "poll" /\ next <= Len(log[p]) /\ UNCHANGED <<rows, log, dropped>>
      /\ batch' = IF Parsed(log[p][next]) THEN Append(batch, m) ELSE batch
  BY DEF PollMessage, Batched, kafkaVars
<1>3. CASE ~Parsed(log[p][next])
  BY <1>2, <1>3 DEF RowsOrdered
<1>4. CASE Parsed(log[p][next])
  <2> DEFINE s == rows \o batch
             t == rows \o Append(batch, m)
  <2>1. /\ s \in Seq(Address) /\ Len(s) \in Nat /\ Len(t) = Len(s) + 1
        /\ t[Len(s) + 1] = m
        /\ \A i \in 1 .. Len(s) : t[i] = s[i]
    BY <1>1
  <2>2. Elements(s) = Elements(rows) \cup Elements(batch)
    BY <1>1, ElementsGrow
  <2>3. \A o \in 1 .. position[p] :
            Parsed(log[p][o]) =>
                <<p, o>> \in dropped \/ \E i \in 1 .. Len(s) : s[i] = <<p, o>>
    <3> SUFFICES ASSUME NEW o \in 1 .. position[p], Parsed(log[p][o])
                 PROVE  <<p, o>> \in dropped \cup Elements(s)
      BY DEF Elements
    <3>1. Settled(<<p, o>>) \/ <<p, o>> \in Elements(batch)
      BY <1>2 DEF Inv, Accounted
    <3> QED BY <2>2, <3>1 DEF Settled
  <2> HIDE DEF s, t
  <2>4. Ordered(s, log, dropped)
    BY DEF RowsOrdered, s
  <2>5. Ordered(t, log, dropped)
    <3> SUFFICES ASSUME NEW k \in 1 .. Len(t)
                 PROVE  Follows(t, log, dropped, k, t[k][1], t[k][2])
      BY DEF Ordered
    <3>1. CASE k \in 1 .. Len(s)
      <4>1. t[k] = s[k] /\ \A i \in 1 .. k - 1 : t[i] = s[i]
        BY <2>1, <3>1
      <4>2. Follows(s, log, dropped, k, s[k][1], s[k][2])
        BY <2>4, <3>1 DEF Ordered
      <4> QED BY <4>1, <4>2, Zenon DEF Follows
    <3>2. CASE k = Len(s) + 1
      <4>1. t[k] = m /\ next - 1 = position[p] /\ k - 1 = Len(s) /\ next \in 1 .. Len(log[p])
        BY <1>1, <1>2, <2>1, <3>2
      <4>2. \A i \in 1 .. k - 1 : t[i] = s[i]
        BY <2>1, <4>1
      <4>3. Follows(t, log, dropped, k, p, next)
        <5> HIDE DEF m, next
        <5> QED BY <1>4, <2>3, <4>1, <4>2, Zenon DEF Follows, next
      <4> QED BY <4>1, <4>3
    <3>3. k \in 1 .. Len(s) \/ k = Len(s) + 1
      BY <2>1
    <3> QED BY <3>1, <3>2, <3>3
  <2>6. rows' \o batch' = t
    BY <1>2, <1>4 DEF t
  <2> QED BY <1>2, <2>5, <2>6 DEF RowsOrdered
<1> QED BY <1>3, <1>4

LEMMA OrderedStep == ASSUME Inv, RowsOrdered, [Next]_vars PROVE RowsOrdered'
<1>1. rows \in Seq(Address) /\ batch \in Seq(Address)
  BY DEF Inv, TypeOK
<1>2. ASSUME UNCHANGED log, dropped \subseteq dropped',
             \/ UNCHANGED <<rows, batch>>
             \/ rows' = rows \o batch /\ batch' = <<>>
             \/ UNCHANGED rows /\ batch' = <<>>
      PROVE  RowsOrdered'
  <2>1. CASE rows' \o batch' = rows \o batch
    <3>1. rows \o batch \in Seq(Address) /\ (rows \o batch) \o <<>> = rows \o batch
      BY <1>1
    <3>2. Ordered((rows \o batch) \o <<>>, log, dropped)
      BY <3>1 DEF RowsOrdered
    <3>3. <<>> \in Seq(Address)
      OBVIOUS
    <3>4. Ordered(rows \o batch, log, dropped')
      BY <1>2, <3>1, <3>2, <3>3, OrderedPrefix
    <3> QED BY <1>2, <2>1, <3>4 DEF RowsOrdered
  <2>2. CASE UNCHANGED rows /\ batch' = <<>>
    <3>1. rows' \o batch' = rows
      BY <1>1, <2>2
    <3>2. Ordered(rows, log, dropped')
      BY <1>1, <1>2, OrderedPrefix DEF RowsOrdered
    <3> QED BY <1>2, <3>1, <3>2 DEF RowsOrdered
  <2>3. CASE rows' = rows \o batch /\ batch' = <<>>
    <3>1. rows' \o batch' = rows \o batch
      BY <1>1, <2>3
    <3> QED BY <2>1, <3>1
  <2> QED BY <1>2, <2>1, <2>2, <2>3
<1> USE DEF kafkaVars, consumerVars
<1>3. ASSUME NEW p \in Partitions, Publish(p) PROVE RowsOrdered'
  <2>1. PICK kind \in Kinds : log' = [log EXCEPT ![p] = Append(@, kind)]
    BY <1>3 DEF Publish
  <2>2. rows \o batch \in Seq(Address) /\ UNCHANGED <<rows, batch, dropped>>
    BY <1>1, <1>3 DEF Publish
  <2>3. Ordered(rows \o batch, log', dropped)
    BY <2>1, <2>2, OrderedPublish DEF Inv, RowsOrdered
  <2> QED BY <2>2, <2>3 DEF RowsOrdered
<1>4. ASSUME NEW p \in Partitions, PollMessage(p) PROVE RowsOrdered'
  BY <1>4, OrderedPoll
<1>5. CASE AutoCommit \/ PollNothing \/ TimePasses \/ KeepCollecting \/ UNCHANGED vars
  BY <1>2, <1>5 DEF AutoCommit, PollNothing, TimePasses, KeepCollecting, vars
<1>6. CASE Start \/ Rejoin
  BY <1>2, <1>6 DEF Start, Rejoin
<1>7. CASE FlushStores \/ FlushFails \/ FlushUnconfirmed
  BY <1>2, <1>7 DEF FlushStores, FlushFails, FlushUnconfirmed, Flushed
<1>8. CASE Crash \/ Close
  BY <1>2, <1>8 DEF Crash, Close, Stops
<1> QED BY <1>3, <1>4, <1>5, <1>6, <1>7, <1>8 DEF Next

\* The first row of an event that overtook another one's says that the other was
\* given up.
LEMMA OrderedRows == ASSUME Inv, RowsOrdered PROVE FirstRowsInOrder
<1>1. rows \in Seq(Address) /\ batch \in Seq(Address)
  BY DEF Inv, TypeOK
<1>2. Ordered(rows, log, dropped)
  BY <1>1, OrderedPrefix DEF RowsOrdered
<1> SUFFICES ASSUME NEW j \in 1 .. Len(rows), NEW i \in 1 .. j,
                    FirstRow(j), rows[i][1] = rows[j][1], rows[i][2] > rows[j][2]
             PROVE  rows[j] \in dropped
  BY DEF FirstRowsInOrder
<1>3. PICK q \in Partitions, n \in Nat \ {0} : rows[j] = <<q, n>>
  <2>1. rows[j] \in Address
    BY <1>1
  <2> QED BY <2>1 DEF Address
<1>4. PICK o \in Nat \ {0} : rows[i] = <<q, o>> /\ n < o
  <2>1. rows[i] \in Address
    BY <1>1
  <2> QED BY <1>3, <2>1 DEF Address
<1>5. i \in 1 .. Len(rows) /\ n \in 1 .. o - 1
  BY <1>1, <1>4
<1>6. Follows(rows, log, dropped, j, q, n) /\ Follows(rows, log, dropped, i, q, o)
  <2>1. /\ Follows(rows, log, dropped, j, rows[j][1], rows[j][2])
        /\ Follows(rows, log, dropped, i, rows[i][1], rows[i][2])
    BY <1>2, <1>5 DEF Ordered
  <2>2. rows[j][1] = q /\ rows[j][2] = n /\ rows[i][1] = q /\ rows[i][2] = o
    BY <1>3, <1>4
  <2> QED BY <2>1, <2>2
<1>7. <<q, n>> \in dropped \/ \E k \in 1 .. i - 1 : rows[k] = <<q, n>>
  BY <1>5, <1>6 DEF Follows
<1>8. \A k \in 1 .. i - 1 : k \in 1 .. j - 1 /\ rows[k] # rows[j]
  BY <1>1 DEF FirstRow
<1> QED BY <1>3, <1>7, <1>8

\* The first rows of a partition's events are in the order Kafka has them, but
\* for events given up before, through any crashes, rebalances and failed
\* transactions (kafka_consumer.py:20-52, ditto_events.py:21-23).
THEOREM OrderTheorem == Spec => []FirstRowsInOrder
<1>1. Init => RowsOrdered
  BY DEF Init, RowsOrdered, Ordered
<1>2. Inv /\ RowsOrdered /\ [Next]_vars => RowsOrdered'
  BY OrderedStep
<1>3. Inv /\ RowsOrdered => FirstRowsInOrder
  BY OrderedRows
<1> QED
  BY <1>1, <1>2, <1>3, InvariantTheorem, PTL DEF Spec

-----------------------------------------------------------------------------
(* The number of rows of an event *)

Copies(s, m) == {j \in 1 .. Len(s) : s[j] = m}

\* How often Kafka may have delivered m so far: once if the consumer has passed
\* it, and once more for each redelivery.
Deliveries(m) ==
    IF pc # "down" /\ m[2] <= position[m[1]] THEN 1 + redeliveries ELSE redeliveries

CopiesBounded ==
    \A m \in Address : Cardinality(Copies(rows \o batch, m)) <= Deliveries(m)

\* One more message adds at most one copy, and a prefix has no more.
LEMMA CopiesGrow ==
    ASSUME NEW s \in Seq(Address), NEW t \in Seq(Address), NEW e \in Address, NEW m
    PROVE  /\ Cardinality(Copies(s, m)) \in Nat
           /\ Cardinality(Copies(Append(s, e), m)) =
                Cardinality(Copies(s, m)) + (IF e = m THEN 1 ELSE 0)
           /\ Cardinality(Copies(s, m)) <= Cardinality(Copies(s \o t, m))
<1>1. Len(s) \in Nat /\ Len(s \o t) \in Nat
  OBVIOUS
<1>2. IsFiniteSet(1 .. Len(s)) /\ IsFiniteSet(1 .. Len(s \o t))
  BY <1>1, FS_Interval
<1>3. /\ Copies(s, m) \in SUBSET (1 .. Len(s))
      /\ Copies(s \o t, m) \in SUBSET (1 .. Len(s \o t))
  BY DEF Copies
<1>4. IsFiniteSet(Copies(s, m)) /\ IsFiniteSet(Copies(s \o t, m))
  BY <1>2, <1>3, FS_Subset
<1>5. Cardinality(Copies(s, m)) \in Nat
  BY <1>4, FS_CardinalityType
<1>6. Cardinality(Copies(s, m)) <= Cardinality(Copies(s \o t, m))
  <2>1. Copies(s, m) \in SUBSET Copies(s \o t, m)
    BY DEF Copies
  <2> QED BY <1>4, <2>1, FS_Subset
<1>7. /\ Len(Append(s, e)) = Len(s) + 1 /\ Append(s, e)[Len(s) + 1] = e
      /\ \A j \in 1 .. Len(s) : Append(s, e)[j] = s[j]
  OBVIOUS
<1>8. CASE e = m
  <2>1. Copies(Append(s, e), m) = Copies(s, m) \cup {Len(s) + 1}
    BY <1>1, <1>7, <1>8 DEF Copies
  <2>2. Len(s) + 1 \notin Copies(s, m)
    BY <1>1 DEF Copies
  <2> QED BY <1>4, <1>5, <1>6, <1>8, <2>1, <2>2, FS_AddElement
<1>9. CASE e # m
  <2>1. Copies(Append(s, e), m) = Copies(s, m)
    BY <1>1, <1>7, <1>9 DEF Copies
  <2> QED BY <1>5, <1>6, <1>9, <2>1
<1> QED BY <1>8, <1>9

LEMMA InitialCopies == Init => CopiesBounded
<1> SUFFICES ASSUME Init, NEW m \in Address
             PROVE  Cardinality(Copies(rows \o batch, m)) <= Deliveries(m)
  BY DEF CopiesBounded
<1>1. Copies(rows \o batch, m) = {} /\ Deliveries(m) = 0
  BY DEF Init, Copies, Deliveries
<1> QED BY <1>1, FS_EmptySet

LEMMA CopiesStep == ASSUME Inv, CopiesBounded, [Next]_vars PROVE CopiesBounded'
<1>1. /\ rows \in Seq(Address) /\ batch \in Seq(Address) /\ redeliveries \in Nat
      /\ position \in [Partitions -> Nat]
  BY DEF Inv, TypeOK
<1> SUFFICES ASSUME NEW m \in Address
             PROVE  Cardinality(Copies(rows' \o batch', m)) <= Deliveries(m)'
  BY DEF CopiesBounded
<1>2. PICK q \in Partitions, n \in Nat \ {0} : m = <<q, n>>
  BY DEF Address
<1>3. /\ Cardinality(Copies(rows \o batch, m)) <= Deliveries(m)
      /\ Cardinality(Copies(rows \o batch, m)) \in Nat
      /\ Cardinality(Copies(rows, m)) \in Nat
      /\ Cardinality(Copies(rows, m)) <= Deliveries(m)
      /\ Deliveries(m) \in Nat
  <2>1. Deliveries(m) \in Nat
    BY <1>1 DEF Deliveries
  <2>2. /\ Cardinality(Copies(rows \o batch, m)) \in Nat
        /\ Cardinality(Copies(rows, m)) \in Nat
        /\ Cardinality(Copies(rows, m)) <= Cardinality(Copies(rows \o batch, m))
    <3>1. rows \o batch \in Seq(Address)
      BY <1>1
    <3> QED BY <1>1, <3>1, CopiesGrow
  <2> QED BY <2>1, <2>2 DEF CopiesBounded
<1>4. ASSUME \/ UNCHANGED <<rows, batch>>
             \/ rows' = rows \o batch /\ batch' = <<>>
             \/ UNCHANGED rows /\ batch' = <<>>,
             Deliveries(m) <= Deliveries(m)', Deliveries(m)' \in Nat
      PROVE  Cardinality(Copies(rows' \o batch', m)) <= Deliveries(m)'
  <2>1. rows' \o batch' = rows \o batch \/ rows' \o batch' = rows
    <3>1. rows \o <<>> = rows /\ (rows \o batch) \o <<>> = rows \o batch
      BY <1>1
    <3> QED BY <1>4, <3>1
  <2>2. CASE rows' \o batch' = rows \o batch
    BY <1>3, <1>4, <2>2
  <2>3. CASE rows' \o batch' = rows
    BY <1>3, <1>4, <2>3
  <2> QED BY <2>1, <2>2, <2>3
<1> USE DEF kafkaVars, consumerVars
<1>5. CASE \E p \in Partitions : PollMessage(p)
  <2>1. PICK p \in Partitions : PollMessage(p)
    BY <1>5
  <2> DEFINE e == <<p, position[p] + 1>>
  <2>2. /\ pc = "poll" /\ pc' = "check" /\ UNCHANGED <<rows, redeliveries>>
        /\ batch' = batch \/ batch' = Append(batch, e)
        /\ position' = [position EXCEPT ![p] = position[p] + 1]
        /\ e \in Address
    <3>1. position[p] \in Nat
      BY <1>1
    <3>2. e \in Address
      BY <3>1 DEF Address
    <3> QED BY <2>1, <3>2 DEF PollMessage, Batched
  <2>3. rows \o Append(batch, e) = Append(rows \o batch, e) /\ rows \o batch \in Seq(Address)
    BY <1>1, <2>2
  <2>4. /\ Deliveries(m) <= Deliveries(m)' /\ Deliveries(m)' \in Nat
        /\ e = m => Deliveries(m) + 1 <= Deliveries(m)'
    <3>1. /\ m[1] = q /\ m[2] = n /\ position[q] \in Nat /\ position[p] \in Nat
          /\ position'[q] = IF q = p THEN position[p] + 1 ELSE position[q]
      BY <1>1, <1>2, <2>2
    <3>2. Deliveries(m) = IF n <= position[q] THEN 1 + redeliveries ELSE redeliveries
      BY <2>2, <3>1 DEF Deliveries
    <3>3. Deliveries(m)' = IF n <= position'[q] THEN 1 + redeliveries ELSE redeliveries
      BY <2>2, <3>1 DEF Deliveries
    <3>4. e = m => q = p /\ n = position[p] + 1
      BY <1>2
    <3> QED BY <1>1, <3>1, <3>2, <3>3, <3>4
  <2>5. CASE batch' = batch
    BY <1>4, <2>2, <2>4, <2>5
  <2>6. CASE batch' = Append(batch, e)
    <3>1. Cardinality(Copies(Append(rows \o batch, e), m)) =
             Cardinality(Copies(rows \o batch, m)) + (IF e = m THEN 1 ELSE 0)
      BY <2>2, <2>3, CopiesGrow
    <3>2. rows' \o batch' = Append(rows \o batch, e)
      BY <2>2, <2>3, <2>6
    <3> HIDE DEF e
    <3> QED BY <1>3, <2>4, <3>1, <3>2
  <2> QED BY <2>2, <2>5, <2>6
<1>6. CASE \/ \E p \in Partitions : Publish(p)
           \/ AutoCommit \/ PollNothing \/ TimePasses \/ KeepCollecting
           \/ UNCHANGED vars
  <2>1. /\ UNCHANGED <<rows, batch, position, redeliveries>>
        /\ (pc' # "down") = (pc # "down")
    BY <1>6 DEF Publish, AutoCommit, PollNothing, TimePasses, KeepCollecting, vars
  <2>2. Deliveries(m)' = Deliveries(m)
    BY <2>1 DEF Deliveries
  <2> QED BY <1>3, <1>4, <2>1, <2>2
<1>7. CASE FlushStores \/ FlushFails \/ FlushUnconfirmed
  <2>1. /\ pc = "check" /\ pc' = "poll" /\ UNCHANGED <<position, redeliveries>>
        /\ batch' = <<>> /\ rows' \in {rows, rows \o batch}
    BY <1>7 DEF FlushStores, FlushFails, FlushUnconfirmed, Flushed
  <2>2. Deliveries(m)' = Deliveries(m)
    BY <2>1 DEF Deliveries
  <2> QED BY <1>3, <1>4, <2>1, <2>2
<1>8. CASE Start
  <2>1. pc = "down" /\ UNCHANGED <<rows, batch, redeliveries>>
    BY <1>8 DEF Start
  <2>2. Deliveries(m) <= Deliveries(m)' /\ Deliveries(m)' \in Nat
    BY <1>1, <2>1 DEF Deliveries
  <2> QED BY <1>4, <2>1, <2>2
<1>9. CASE Crash \/ Close \/ Rejoin
  <2>1. redeliveries' = redeliveries + 1 /\ UNCHANGED rows /\ batch' \in {batch, <<>>}
    BY <1>9 DEF Crash, Close, Stops, Rejoin, Redelivers
  <2>2. Deliveries(m) <= Deliveries(m)' /\ Deliveries(m)' \in Nat
    BY <1>1, <2>1 DEF Deliveries
  <2> QED BY <1>4, <2>1, <2>2
<1> QED BY <1>5, <1>6, <1>7, <1>8, <1>9 DEF Next

\* Nothing identifies an event that is delivered again, but its rows are no more
\* than its deliveries (kafka_consumer.py:20-52, ditto_events.py:20-23).
THEOREM CopiesTheorem == Spec => []RowsBoundedByDeliveries
<1>1. Init => CopiesBounded
  BY InitialCopies
<1>2. Inv /\ CopiesBounded /\ [Next]_vars => CopiesBounded'
  BY CopiesStep
<1>3. Inv /\ CopiesBounded => RowsBoundedByDeliveries
  <2> SUFFICES ASSUME Inv, CopiesBounded, NEW i \in 1 .. Len(rows)
               PROVE  Cardinality(Copies(rows, rows[i])) <= 1 + redeliveries
    BY DEF RowsBoundedByDeliveries, Copies
  <2>1. /\ rows \in Seq(Address) /\ batch \in Seq(Address) /\ redeliveries \in Nat
        /\ rows[i] \in Address
    BY DEF Inv, TypeOK
  <2>2. /\ Cardinality(Copies(rows, rows[i])) <= Cardinality(Copies(rows \o batch, rows[i]))
        /\ Cardinality(Copies(rows, rows[i])) \in Nat
        /\ Cardinality(Copies(rows \o batch, rows[i])) \in Nat
    <3>1. rows \o batch \in Seq(Address)
      BY <2>1
    <3> QED BY <2>1, <3>1, CopiesGrow
  <2>3. Cardinality(Copies(rows \o batch, rows[i])) <= Deliveries(rows[i])
    BY <2>1 DEF CopiesBounded
  <2>4. Deliveries(rows[i]) \in {redeliveries, 1 + redeliveries}
    BY DEF Deliveries
  <2> QED BY <2>1, <2>2, <2>3, <2>4
<1> QED
  BY <1>1, <1>2, <1>3, InvariantTheorem, PTL DEF Spec

-----------------------------------------------------------------------------
(* What the writer promises those who query its table *)

\* The log only grows.
LEMMA WriterLog ==
    ASSUME Inv, Next
    PROVE  Messages \subseteq Messages'
<1>1. log \in [Partitions -> Seq(Kinds)]
  BY DEF Inv, TypeOK
<1>2. \A p \in Partitions : Len(log[p]) \in Nat /\ Len(log'[p]) \in Nat /\ Len(log[p]) <= Len(log'[p])
  <2>1. CASE log' = log
    BY <1>1, <2>1
  <2>2. ASSUME NEW q \in Partitions, Publish(q)
        PROVE  \A p \in Partitions : Len(log[p]) \in Nat /\ Len(log'[p]) \in Nat
                                     /\ Len(log[p]) <= Len(log'[p])
    <3>1. PICK kind \in Kinds : log' = [log EXCEPT ![q] = Append(@, kind)]
      BY <2>2 DEF Publish
    <3> QED BY <1>1, <3>1
  <2>3. log' = log \/ \E q \in Partitions : Publish(q)
    BY DEF Next, PollMessage, AutoCommit, Start, PollNothing, TimePasses, KeepCollecting,
       FlushStores, FlushFails, FlushUnconfirmed, Flushed, Crash, Close, Stops, Rejoin,
       kafkaVars
  <2> QED BY <2>1, <2>2, <2>3
<1> SUFFICES ASSUME NEW p \in Partitions, NEW m \in {p} \X (1 .. Len(log[p]))
             PROVE  m \in {p} \X (1 .. Len(log'[p]))
  BY DEF Messages
<1> QED BY <1>2

\* A sequence has no more elements than it is long.
LEMMA ElementsCount ==
    ASSUME NEW S, NEW s \in Seq(S)
    PROVE  /\ IsFiniteSet(Elements(s))
           /\ Cardinality(Elements(s)) \in Nat
           /\ Cardinality(Elements(s)) <= Len(s)
<1> DEFINE f == [i \in 1 .. Len(s) |-> s[i]]
<1>1. Len(s) \in Nat
  OBVIOUS
<1>2. IsFiniteSet(1 .. Len(s)) /\ Cardinality(1 .. Len(s)) = Len(s)
  BY <1>1, FS_Interval
<1>3. f \in Surjection(1 .. Len(s), Elements(s))
  BY DEF Surjection, Elements
<1>4. IsFiniteSet(Elements(s)) /\ Cardinality(Elements(s)) <= Len(s)
  BY <1>2, <1>3, FS_Surjection
<1> QED BY <1>4, FS_CardinalityType

\* EventStore counts as this module does.
LEMMA SameCardinality == \A S : Store!Cardinality(S) = Cardinality(S)
BY DEF Store!Cardinality, Cardinality

DroppedPublished == dropped \subseteq Messages

\* What the batch holds was published.
LEMMA BatchPublished ==
    ASSUME Inv, RowsOrdered
    PROVE  Elements(batch) \subseteq Messages
<1> SUFFICES ASSUME NEW i \in 1 .. Len(batch) PROVE batch[i] \in Messages
  BY DEF Elements
<1>1. /\ rows \in Seq(Address) /\ batch \in Seq(Address)
      /\ Len(rows) + i \in 1 .. Len(rows \o batch)
      /\ (rows \o batch)[Len(rows) + i] = batch[i]
  BY DEF Inv, TypeOK
<1>2. PICK p \in Partitions, o \in Nat \ {0} : batch[i] = <<p, o>>
  <2>1. batch[i] \in Address
    BY <1>1
  <2> QED BY <2>1 DEF Address
<1>3. o \in 1 .. Len(log[p])
  <2>1. LET m == batch[i]
        IN  Follows(rows \o batch, log, dropped, Len(rows) + i, m[1], m[2])
    BY <1>1 DEF RowsOrdered, Ordered
  <2> QED BY <1>2, <2>1 DEF Follows
<1> QED BY <1>2, <1>3, IsMessage DEF Inv

\* A flush that succeeds adds each event of the batch in its turn.
LEMMA FlushIsStore ==
    ASSUME Inv, RowsOrdered, CopiesBounded, FlushStores \/ FlushUnconfirmed
    PROVE  Store!Store
<1>1. /\ rows' = rows \o batch /\ UNCHANGED <<log, dropped, redeliveries>>
      /\ Storable /\ batch # <<>>
  BY DEF FlushStores, FlushUnconfirmed, Flushed, MustFlush, kafkaVars
<1>2. /\ rows \in Seq(Address) /\ batch \in Seq(Address) /\ redeliveries \in Nat
      /\ log \in [Partitions -> Seq(Kinds)]
      /\ BatchSize \in Nat /\ Len(batch) <= BatchSize
  BY ConstantsAssumption DEF Inv, TypeOK, BatchHasRoom
<1>3. /\ Len(rows') \in Len(rows) + 1 .. Len(rows) + BatchSize
      /\ \A i \in 1 .. Len(rows) : rows'[i] = rows[i]
  BY <1>1, <1>2
<1>4. ASSUME NEW j \in Len(rows) + 1 .. Len(rows') PROVE Store!Storable(j)
  <2>1. /\ j \in 1 .. Len(rows') /\ j - Len(rows) \in 1 .. Len(batch)
        /\ rows'[j] = batch[j - Len(rows)]
    BY <1>1, <1>2
  <2>2. rows'[j] \in Elements(batch) /\ rows'[j] \in Address
    BY <1>2, <2>1 DEF Elements
  <2>3. PICK p \in Partitions, o \in Nat \ {0} : rows'[j] = <<p, o>>
    BY <2>2 DEF Address
  <2>4. Follows(rows', log, dropped, j, p, o)
    BY <1>1, <2>1, <2>3 DEF RowsOrdered, Ordered
  <2>5. o \in 1 .. Len(log[p])
    BY <2>4 DEF Follows
  <2>6. log[p][o] = "event"
    BY <1>1, <2>2, <2>3 DEF Storable, Kind
  <2>7. Store!InTurn(p, o, j)
    <3> SUFFICES ASSUME NEW e \in 1 .. o - 1,
                        log[p][e] \notin {"malformed", "tombstone"}
                 PROVE  <<p, e>> \in dropped \/ \E i \in 1 .. j - 1 : rows'[i] = <<p, e>>
      BY DEF Store!InTurn
    <3>1. log[p][e] \in AllKinds
      <4>1. log[p] \in Seq(Kinds) /\ e \in 1 .. Len(log[p])
        BY <1>2, <2>5
      <4> QED BY <4>1, ConstantsAssumption
    <3>2. Parsed(log[p][e])
      BY <3>1 DEF AllKinds, Parsed
    <3> QED BY <2>4, <3>2 DEF Follows
  <2>8. Cardinality({i \in 1 .. Len(rows') : rows'[i] = <<p, o>>}) <= 1 + redeliveries
    <3> DEFINE m == <<p, o>>
    <3>1. m \in Address
      BY <2>2, <2>3
    <3>2. rows' \in Seq(Address)
      BY <1>1, <1>2
    <3>3. /\ Cardinality(Copies(rows', m)) <= Deliveries(m)
          /\ Cardinality(Copies(rows', m)) \in Nat
      <4>1. Cardinality(Copies(rows', m)) <= Deliveries(m)
        BY <1>1, <3>1 DEF CopiesBounded
      <4>2. Cardinality(Copies(rows', m)) \in Nat
        BY <3>1, <3>2, CopiesGrow
      <4> QED BY <4>1, <4>2
    <3>4. Deliveries(m) \in {redeliveries, 1 + redeliveries}
      BY DEF Deliveries
    <3> HIDE DEF m
    <3>5. Cardinality(Copies(rows', m)) <= 1 + redeliveries
      BY <1>2, <3>3, <3>4
    <3> QED BY <3>5 DEF Copies, m
  <2> QED BY <2>3, <2>5, <2>6, <2>7, <2>8, SameCardinality DEF Store!Storable
<1> QED BY <1>1, <1>3, <1>4 DEF Store!Store

\* A flush that fails, a crash or a shutdown gives up what was in the batch.
LEMMA StopIsLoss ==
    ASSUME Inv, RowsOrdered, DroppedPublished, FlushFails \/ Crash \/ Close
    PROVE  Store!LoseBatch /\ DroppedPublished'
<1> DEFINE lost == dropped' \ dropped
<1>1. /\ dropped \subseteq dropped' /\ dropped' \subseteq dropped \cup Elements(batch)
      /\ UNCHANGED <<log, rows>>
      /\ redeliveries' \in {redeliveries, redeliveries + 1}
  BY DEF FlushFails, Flushed, Crash, Close, Stops, Redelivers, kafkaVars
<1>2. dropped' \subseteq Messages
  BY <1>1, BatchPublished DEF DroppedPublished
<1>3. Cardinality(lost) <= BatchSize
  <2>1. /\ batch \in Seq(Address) /\ Len(batch) <= BatchSize /\ BatchSize \in Nat
    BY ConstantsAssumption DEF Inv, TypeOK, BatchHasRoom
  <2>2. /\ IsFiniteSet(Elements(batch)) /\ Cardinality(Elements(batch)) \in Nat
        /\ Cardinality(Elements(batch)) <= Len(batch)
    BY <2>1, ElementsCount
  <2>3. lost \in SUBSET Elements(batch)
    BY <1>1
  <2>4. Cardinality(lost) <= Cardinality(Elements(batch)) /\ Cardinality(lost) \in Nat
    <3>1. IsFiniteSet(lost) /\ Cardinality(lost) <= Cardinality(Elements(batch))
      BY <2>2, <2>3, FS_Subset
    <3> QED BY <3>1, FS_CardinalityType
  <2> HIDE DEF lost
  <2> QED BY <2>1, <2>2, <2>4
<1>4. DroppedPublished'
  BY <1>1, <1>2 DEF DroppedPublished, Messages
<1> QED
  BY <1>1, <1>2, <1>3, <1>4, SameCardinality DEF Store!LoseBatch, Store!Lose, Store!Published, Messages

\* A consumer that joins passes over something only where the reset says so.
LEMMA JoinIsReset ==
    ASSUME Inv, DroppedPublished, Start \/ Rejoin
    PROVE  (Store!LoseBatch \/ Store!Reset) /\ DroppedPublished'
<1>1. /\ dropped' = dropped \cup Skipped /\ UNCHANGED <<log, rows>>
      /\ redeliveries' \in {redeliveries, redeliveries + 1}
  BY DEF Start, Rejoin, Redelivers, kafkaVars
<1>2. Skipped \subseteq Messages /\ \A i \in 1 .. Len(rows) : rows[i] \notin Skipped
  BY DEF Skipped, Elements
<1>3. DroppedPublished' /\ Store!Lose
  BY <1>1, <1>2 DEF DroppedPublished, Messages, Store!Lose, Store!Published
<1>4. CASE AutoOffsetReset = "latest"
  BY <1>1, <1>2, <1>3, <1>4 DEF Store!Reset
<1>5. CASE AutoOffsetReset = "earliest"
  <2>1. Skipped = {}
    <3> SUFFICES ASSUME NEW m \in Messages, committed[m[1]] = NoOffset,
                        m[2] <= Resumed(m[1])
                 PROVE  FALSE
      BY DEF Skipped
    <3>1. m[2] \in Nat \ {0}
      <4>1. m \in Address
        BY IsMessage DEF Inv
      <4> QED BY <4>1 DEF Address
    <3>2. Resumed(m[1]) = 0
      BY <1>5 DEF Resumed
    <3> QED BY <3>1, <3>2
  <2>2. dropped' \ dropped = {}
    BY <1>1, <2>1
  <2>3. Cardinality(dropped' \ dropped) <= BatchSize
    BY <2>2, FS_EmptySet, ConstantsAssumption
  <2> QED BY <1>3, <2>3, SameCardinality DEF Store!LoseBatch
<1> QED BY <1>3, <1>4, <1>5, ConstantsAssumption

LEMMA StoreStep ==
    ASSUME Inv, RowsOrdered, CopiesBounded, DroppedPublished, [Next]_vars
    PROVE  [Store!Next]_Store!vars /\ DroppedPublished'
<1>1. CASE FlushStores \/ FlushUnconfirmed
  <2>1. Store!Store
    BY <1>1, FlushIsStore
  <2>2. UNCHANGED <<log, dropped>>
    BY <1>1 DEF FlushStores, FlushUnconfirmed, Flushed, kafkaVars
  <2> QED BY <2>1, <2>2 DEF Store!Next, DroppedPublished, Messages
<1>2. CASE FlushFails \/ Crash \/ Close
  BY <1>2, StopIsLoss DEF Store!Next
<1>3. CASE Start \/ Rejoin
  BY <1>3, JoinIsReset DEF Store!Next
<1>4. ASSUME NEW p \in Partitions, Publish(p)
      PROVE  [Store!Next]_Store!vars /\ DroppedPublished'
  <2>1. Store!Publish /\ dropped' = dropped
    BY <1>4 DEF Publish, Store!Publish
  <2>2. Messages \subseteq Messages'
    BY <1>4, WriterLog DEF Next
  <2> QED BY <2>1, <2>2 DEF Store!Next, DroppedPublished
<1>5. CASE \/ \E p \in Partitions : PollMessage(p)
           \/ AutoCommit \/ PollNothing \/ TimePasses \/ KeepCollecting
           \/ UNCHANGED vars
  <2>1. UNCHANGED <<log, rows, dropped, redeliveries>>
    BY <1>5 DEF PollMessage, AutoCommit, PollNothing, TimePasses, KeepCollecting,
       kafkaVars, vars
  <2> QED BY <2>1 DEF Store!vars, DroppedPublished, Messages
<1> QED BY <1>1, <1>2, <1>3, <1>4, <1>5 DEF Next

\* The writer implements EventStore, for any partitions, batch size, reset, failures
\* and redeliveries: rows are only added, batch by batch, each event in its turn, and
\* no mishap but a reset costs more than a batch (kafka_consumer.py:20-52,
\* ditto_events_manager.py:14-25).
THEOREM RefinementTheorem == Spec => StoresInTurn
<1>1. Init => Store!Init /\ DroppedPublished /\ RowsOrdered
  BY DEF Init, Store!Init, DroppedPublished, RowsOrdered, Ordered
<1>2. Inv /\ RowsOrdered /\ [Next]_vars => RowsOrdered'
  BY OrderedStep
<1>3. Inv /\ CopiesBounded /\ [Next]_vars => CopiesBounded'
  BY CopiesStep
<1>4. Inv /\ RowsOrdered /\ CopiesBounded /\ DroppedPublished /\ [Next]_vars
          => [Store!Next]_Store!vars /\ DroppedPublished'
  BY StoreStep
<1> QED
  BY <1>1, <1>2, <1>3, <1>4, InitialCopies, InvariantTheorem, PTL
     DEF Spec, StoresInTurn, Store!Spec
=============================================================================
