------------------------ MODULE HistoricalAPI_proof ------------------------
(***************************************************************************)
(* Theorems about HistoricalAPI, for every instance: the writer keeps what *)
(* it promises beside an API that changes its table, what the API deleted  *)
(* comes back only from the writer, and its page breaks only with it.      *)
(***************************************************************************)
EXTENDS HistoricalAPI, HistoricalWriter_proof

\* The API leaves the writer's rows and everything else of it alone.
LEMMA WriterAlone == ApiSpec => Spec
<1>1. ApiInit => Init
  BY DEF ApiInit
<1>2. [ApiNext]_allVars => [Next]_vars
  BY DEF ApiNext, WriterStep, PublishNow, Next, Tick, ApiStep, ApiStarts, ApiStops,
     DeleteEvents, InsertEvents, PageOpens, PageLoads, allVars
<1> QED BY <1>1, <1>2, PTL DEF ApiSpec, Spec

\* What the steps of the writer do to the table.
LEMMA WriterRows ==
    ASSUME Inv, Next
    PROVE  \/ rows' = rows
           \/ rows' = rows \o batch /\ batch' = <<>> /\ position' = position
<1> USE DEF consumerVars
<1>1. CASE FlushStores \/ FlushFails \/ FlushUnconfirmed
  BY <1>1 DEF FlushStores, FlushFails, FlushUnconfirmed, Flushed
<1>2. CASE ~(FlushStores \/ FlushFails \/ FlushUnconfirmed)
  BY <1>2 DEF Next, Publish, PollMessage, AutoCommit, Start, PollNothing, TimePasses,
     KeepCollecting, Crash, Close, Stops, Rejoin
<1> QED BY <1>1, <1>2

\* What they do to the batch: only what comes next in its partition is added.
LEMMA WriterBatch ==
    ASSUME Inv, Next, NEW m \in Elements(batch')
    PROVE  m \in Elements(batch) \/ m[2] > position[m[1]]
<1>1. batch \in Seq(Address) /\ position \in [Partitions -> Nat]
  BY DEF Inv, TypeOK
<1>2. CASE batch' \in {batch, <<>>}
  BY <1>2 DEF Elements
<1>3. ASSUME NEW p \in Partitions, PollMessage(p)
      PROVE  m \in Elements(batch) \/ m[2] > position[m[1]]
  <2> DEFINE e == <<p, position[p] + 1>>
  <2>1. batch' = batch \/ batch' = Append(batch, e)
    BY <1>3 DEF PollMessage, Batched
  <2>2. CASE batch' = Append(batch, e)
    <3>1. e \in Address
      BY <1>1 DEF Address
    <3>2. Elements(batch') = Elements(batch) \cup {e}
      BY <1>1, <2>2, <3>1, ElementsGrow
    <3> QED BY <1>1, <3>2
  <2> QED BY <1>2, <2>1, <2>2
<1>4. \/ batch' \in {batch, <<>>}
      \/ \E p \in Partitions : PollMessage(p)
  BY DEF Next, Publish, AutoCommit, Start, PollNothing, TimePasses, KeepCollecting,
     FlushStores, FlushFails, FlushUnconfirmed, Flushed, Crash, Close, Stops, Rejoin
<1> QED BY <1>2, <1>3, <1>4

-----------------------------------------------------------------------------
(* What was deleted *)

\* The writer is done with what was deleted, until it is handed it again.
ErasedDone ==
    \A m \in erased : m[2] <= position[m[1]] /\ m \notin Elements(batch)

LEMMA ErasedByWriter ==
    ASSUME Inv, ErasedDone, ErasedStaysErased, WriterStep
    PROVE  ErasedDone' /\ ErasedStaysErased'
<1>1. Next
  BY DEF WriterStep, PublishNow, Next
<1>2. /\ erased' = {m \in erased : m[2] <= position'[m[1]]}
      /\ gone' = gone
      /\ rows \in Seq(Address) /\ batch \in Seq(Address)
  BY DEF WriterStep, ComesBack, Inv, TypeOK
<1>3. ErasedDone'
  <2> SUFFICES ASSUME NEW m \in erased', m \in Elements(batch')
               PROVE  FALSE
    BY <1>2 DEF ErasedDone
  <2>1. m \in erased /\ m[2] <= position[m[1]] /\ m \notin Elements(batch)
    BY <1>2 DEF ErasedDone
  <2>2. m[2] > position[m[1]]
    BY <1>1, <2>1, WriterBatch
  <2>3. m[2] \in Int /\ position[m[1]] \in Int
    <3>1. m \in Address
      <4>1. batch' \in Seq(Address)
        BY <1>1, StepPreserves DEF Inv, TypeOK
      <4> QED BY <4>1 DEF Elements
    <3> QED BY <3>1 DEF Address, Inv, TypeOK
  <2> QED BY <2>1, <2>2, <2>3
<1>4. ErasedStaysErased'
  <2>1. CASE rows' = rows
    BY <1>2, <2>1 DEF ErasedStaysErased
  <2>2. CASE rows' = rows \o batch
    <3> SUFFICES ASSUME NEW i \in (1 .. Len(rows')) \ gone PROVE rows'[i] \notin erased
      BY <1>2 DEF ErasedStaysErased
    <3>1. CASE i <= Len(rows)
      <4>1. i \in (1 .. Len(rows)) \ gone /\ rows'[i] = rows[i]
        BY <1>2, <2>2, <3>1
      <4> QED BY <4>1 DEF ErasedStaysErased
    <3>2. CASE i > Len(rows)
      <4>1. rows'[i] = batch[i - Len(rows)] /\ i - Len(rows) \in 1 .. Len(batch)
        BY <1>2, <2>2, <3>2
      <4>2. rows'[i] \in Elements(batch)
        BY <4>1 DEF Elements
      <4> QED BY <4>2 DEF ErasedDone
    <3> QED BY <3>1, <3>2
  <2> QED BY <1>1, <2>1, <2>2, WriterRows
<1> QED BY <1>3, <1>4

LEMMA ErasedByDelete ==
    ASSUME Inv, ErasedDone, ErasedStaysErased,
           NEW since \in Times, NEW until \in Times, DeleteEvents(since, until)
    PROVE  ErasedDone' /\ ErasedStaysErased'
<1>1. /\ gone' = gone \cup Found(since, until)
      /\ erased' = erased \cup {m \in Messages : Erasable(m, since, until)}
      /\ UNCHANGED <<rows, batch, position>>
  BY DEF DeleteEvents, vars, consumerVars
<1>2. ErasedDone'
  BY <1>1 DEF ErasedDone, Erasable
<1>3. ErasedStaysErased'
  <2> SUFFICES ASSUME NEW i \in (1 .. Len(rows)) \ gone, i \notin Found(since, until),
                      Erasable(rows[i], since, until)
               PROVE  FALSE
    BY <1>1 DEF ErasedStaysErased
  <2> QED BY DEF Found, InRange, Erasable
<1> QED BY <1>2, <1>3

LEMMA ErasedStep ==
    Inv /\ ErasedDone /\ ErasedStaysErased /\ [ApiNext]_allVars
        => ErasedDone' /\ ErasedStaysErased'
<1> SUFFICES ASSUME Inv, ErasedDone, ErasedStaysErased, [ApiNext]_allVars
             PROVE  ErasedDone' /\ ErasedStaysErased'
  OBVIOUS
<1>1. CASE UNCHANGED <<rows, batch, position, gone, erased>>
  BY <1>1 DEF ErasedDone, ErasedStaysErased
<1>2. CASE WriterStep
  BY <1>2, ErasedByWriter
<1>3. ASSUME NEW since \in Times, NEW until \in Times, DeleteEvents(since, until)
      PROVE  ErasedDone' /\ ErasedStaysErased'
  BY <1>3, ErasedByDelete
<1>4. CASE \/ Tick \/ ApiStarts \/ ApiStops \/ PageOpens \/ PageLoads
           \/ \E t \in Times : InsertEvents(t)
           \/ UNCHANGED allVars
  <2>1. UNCHANGED <<vars, gone, erased>>
    BY <1>4 DEF Tick, ApiStarts, ApiStops, PageOpens, PageLoads, InsertEvents, allVars,
       tableVars
  <2> QED BY <1>1, <2>1 DEF vars, consumerVars
<1> QED BY <1>2, <1>3, <1>4 DEF ApiNext, ApiStep

\* What the API deleted is not found again, unless the writer still held it or is
\* handed it once more (events_service.py:96-110, kafka_consumer.py:44-52).
THEOREM ErasedTheorem == ApiSpec => []ErasedStaysErased
<1>1. ApiInit => ErasedDone /\ ErasedStaysErased
  BY DEF ApiInit, ErasedDone, ErasedStaysErased
<1> QED BY <1>1, ErasedStep, WriterAlone, InvariantTheorem, PTL DEF ApiSpec

-----------------------------------------------------------------------------
(* The page *)

\* While a page loads and the API never was away, it has the scripts that it
\* asked for.
LoadedSoFar ==
    /\ requested \in 0 .. 3
    /\ page # "loading" => requested = 0
    /\ ~lost =>
        /\ page = "loading" =>
              \A k \in 1 .. requested : Browser!Scripts[k] \in executed
        /\ page \notin {"error", "blank"}

LEMMA ScriptsServed ==
    /\ Len(Browser!Scripts) = 3
    /\ Browser!Bundle = Browser!Scripts[1]
    /\ Browser!Initializer = Browser!Scripts[3]
    /\ \A k \in 1 .. 3 : Serving => Browser!Served(Browser!Scripts[k])
    /\ Serving => Browser!Served(Browser!Description)
<1>1. Len(Browser!Scripts) = 3 /\ \A k \in 1 .. 3 : Head(Browser!Scripts[k]) = "historic"
  BY DEF Browser!Scripts
<1>2. Head(Browser!Description) = "historic"
  BY DEF Browser!Description
<1> QED BY <1>1, <1>2 DEF Browser!Served, Browser!Bundle, Browser!Initializer

LEMMA PageStep == LoadedSoFar /\ [ApiNext]_allVars => LoadedSoFar'
<1> SUFFICES ASSUME LoadedSoFar, [ApiNext]_allVars PROVE LoadedSoFar'
  OBVIOUS
<1>1. CASE UNCHANGED pageVars
  BY <1>1 DEF pageVars, LoadedSoFar
<1>2. CASE PageOpens
  <2>1. page' = "loading" /\ requested' = 0
    BY <1>2 DEF PageOpens, Browser!Open, LoadedSoFar
  <2>2. 1 .. 0 = {}
    OBVIOUS
  <2> QED BY <2>1, <2>2 DEF LoadedSoFar
<1>3. CASE PageLoads /\ Browser!LoadScript
  <2>1. /\ page = "loading" /\ page' = page
        /\ requested < 3 /\ requested' = requested + 1
        /\ lost' = (lost \/ ~Serving)
    BY <1>3, ScriptsServed DEF Browser!LoadScript
  <2>2. requested' \in 1 .. 3
    BY <2>1 DEF LoadedSoFar
  <2>3. ASSUME ~lost' PROVE \A k \in 1 .. requested' : Browser!Scripts[k] \in executed'
    <3>1. Browser!Scripts[requested'] \in executed'
      <4>1. Browser!Served(Browser!Scripts[requested'])
        BY <2>1, <2>2, <2>3, ScriptsServed
      <4> QED BY <1>3, <2>1, <4>1 DEF Browser!LoadScript
    <3>2. executed \subseteq executed'
      BY <1>3 DEF Browser!LoadScript
    <3>3. \A k \in 1 .. requested : Browser!Scripts[k] \in executed
      BY <2>1, <2>3 DEF LoadedSoFar
    <3>4. \A k \in 1 .. requested' : k \in 1 .. requested \/ k = requested'
      BY <2>1, <2>2 DEF LoadedSoFar
    <3> QED BY <3>1, <3>2, <3>3, <3>4
  <2> QED BY <2>1, <2>2, <2>3 DEF LoadedSoFar
<1>4. CASE PageLoads /\ Browser!Initialize
  <2>1. /\ page = "loading" /\ requested = 3
        /\ page' = IF {Browser!Bundle, Browser!Initializer} \subseteq executed
                     THEN "describing" ELSE "blank"
        /\ requested' = 0 /\ lost' = lost
    BY <1>4, ScriptsServed DEF Browser!Initialize
  <2>2. ~lost => {Browser!Bundle, Browser!Initializer} \subseteq executed
    <3>1. 1 \in 1 .. 3 /\ 3 \in 1 .. 3
      OBVIOUS
    <3> QED BY <2>1, <3>1, ScriptsServed DEF LoadedSoFar
  <2> QED BY <2>1, <2>2 DEF LoadedSoFar
<1>5. CASE PageLoads /\ Browser!Describe
  BY <1>5, ScriptsServed DEF PageLoads, Browser!Describe, LoadedSoFar
<1>6. CASE ~PageOpens /\ ~PageLoads
  BY <1>1, <1>6 DEF ApiNext, WriterStep, Tick, ApiStep, ApiStarts, ApiStops,
     DeleteEvents, InsertEvents, allVars
<1> QED BY <1>2, <1>3, <1>4, <1>5, <1>6 DEF PageLoads, Browser!Browse

\* A page breaks only if the API was away when a part of it was requested, however
\* often it stopped meanwhile (main.py:34-36, swagger-initializer.js:1-5).
THEOREM PageTheorem == ApiSpec => []BrokenOnlyIfAway
<1>1. ApiInit => LoadedSoFar
  BY DEF ApiInit, Browser!Init, LoadedSoFar
<1>2. LoadedSoFar => BrokenOnlyIfAway
  BY DEF LoadedSoFar, BrokenOnlyIfAway, Browser!BrokenOnlyIfAway
<1> QED BY <1>1, <1>2, PageStep, PTL DEF ApiSpec

-----------------------------------------------------------------------------
(* Types *)

StampsType ==
    /\ stamps \in [Partitions -> Seq(Times)]
    /\ \A p \in Partitions : Len(stamps[p]) = Len(log[p])

TableType ==
    /\ gone \subseteq 1 .. Len(rows)
    /\ posted \in [Times -> Nat]
    /\ erased \subseteq Messages
    /\ changes \in 0 .. MaxChanges

ProcessType ==
    /\ now \in Times
    /\ imported \in Times \cup {Down}
    /\ starts \in 0 .. MaxStarts

LEMMA StampsStep ==
    ASSUME Inv, StampsType, now \in Times, [ApiNext]_allVars
    PROVE  StampsType'
<1>1. log \in [Partitions -> Seq(Kinds)]
  BY DEF Inv, TypeOK
<1>2. CASE UNCHANGED <<log, stamps>>
  BY <1>2 DEF StampsType
<1>3. ASSUME NEW p \in Partitions, PublishNow(p) PROVE StampsType'
  <2>1. PICK kind \in Kinds : log' = [log EXCEPT ![p] = Append(@, kind)]
    BY <1>3 DEF PublishNow, Publish
  <2>2. stamps' = [stamps EXCEPT ![p] = Append(@, now)]
    BY <1>3 DEF PublishNow
  <2>3. stamps' \in [Partitions -> Seq(Times)]
    BY <2>2 DEF StampsType
  <2>4. \A q \in Partitions : Len(stamps'[q]) = Len(log'[q])
    <3> SUFFICES ASSUME NEW q \in Partitions PROVE Len(stamps'[q]) = Len(log'[q])
      OBVIOUS
    <3>1. CASE q = p
      <4>1. stamps'[q] = Append(stamps[q], now) /\ log'[q] = Append(log[q], kind)
        BY <1>1, <2>1, <2>2, <3>1 DEF StampsType
      <4>2. /\ stamps[q] \in Seq(Times) /\ log[q] \in Seq(Kinds)
            /\ Len(stamps[q]) = Len(log[q])
        BY <1>1 DEF StampsType
      <4> QED BY <4>1, <4>2
    <3>2. CASE q # p
      BY <1>1, <2>1, <2>2, <3>2 DEF StampsType
    <3> QED BY <3>1, <3>2
  <2> QED BY <2>3, <2>4 DEF StampsType
<1>4. UNCHANGED <<log, stamps>> \/ \E p \in Partitions : PublishNow(p)
  BY DEF ApiNext, WriterStep, Tick, ApiStep, ApiStarts, ApiStops, DeleteEvents,
     InsertEvents, PageOpens, PageLoads, PollMessage, AutoCommit, Start, PollNothing,
     TimePasses, KeepCollecting, FlushStores, FlushFails, FlushUnconfirmed, Flushed,
     Crash, Close, Stops, Rejoin, kafkaVars, vars, allVars
<1> QED BY <1>2, <1>3, <1>4

LEMMA TableStep ==
    ASSUME Inv, TableType, [ApiNext]_allVars
    PROVE  TableType'
<1>1. MaxChanges \in Nat
  BY ApiAssumption
<1>2. rows \in Seq(Address) /\ batch \in Seq(Address)
  BY DEF Inv, TypeOK
<1>3. CASE WriterStep
  <2>1. Next
    BY <1>3 DEF WriterStep, PublishNow, Next
  <2>2. Len(rows) <= Len(rows') /\ Len(rows) \in Nat /\ Len(rows') \in Nat
    BY <1>2, <2>1, WriterRows
  <2>3. gone' = gone /\ posted' = posted /\ changes' = changes /\ erased' \subseteq erased
    BY <1>3 DEF WriterStep, ComesBack
  <2>4. Messages \subseteq Messages'
    BY <2>1, WriterLog
  <2> QED BY <2>2, <2>3, <2>4 DEF TableType
<1>4. CASE UNCHANGED <<vars, tableVars>>
  <2>1. Messages' = Messages
    BY <1>4 DEF vars, kafkaVars, Messages
  <2> QED BY <1>4, <2>1 DEF vars, tableVars, TableType
<1>5. ASSUME NEW since \in Times, NEW until \in Times, DeleteEvents(since, until)
      PROVE  TableType'
  <2>1. Messages' = Messages /\ rows' = rows
    BY <1>5 DEF DeleteEvents, vars, kafkaVars, Messages
  <2>2. gone' \subseteq 1 .. Len(rows)
    BY <1>5 DEF DeleteEvents, Found, TableType
  <2>3. posted' \in [Times -> Nat]
    BY <1>5 DEF DeleteEvents, TableType
  <2>4. erased' \subseteq Messages
    BY <1>5 DEF DeleteEvents, TableType
  <2>5. changes' \in 0 .. MaxChanges
    BY <1>1, <1>5 DEF DeleteEvents, Changes, TableType
  <2> QED BY <2>1, <2>2, <2>3, <2>4, <2>5 DEF TableType
<1>6. ASSUME NEW t \in Times, InsertEvents(t) PROVE TableType'
  <2>1. Messages' = Messages /\ rows' = rows /\ gone' = gone /\ erased' = erased
    BY <1>6 DEF InsertEvents, vars, kafkaVars, Messages
  <2>2. posted' \in [Times -> Nat]
    BY <1>6 DEF InsertEvents, TableType
  <2>3. changes' \in 0 .. MaxChanges
    BY <1>1, <1>6 DEF InsertEvents, Changes, TableType
  <2> QED BY <2>1, <2>2, <2>3 DEF TableType
<1>7. CASE Tick \/ ApiStarts \/ ApiStops \/ PageOpens \/ PageLoads \/ UNCHANGED allVars
  BY <1>4, <1>7 DEF Tick, ApiStarts, ApiStops, PageOpens, PageLoads, allVars
<1> QED BY <1>3, <1>5, <1>6, <1>7 DEF ApiNext, ApiStep

LEMMA ProcessStep ==
    ASSUME ProcessType, [ApiNext]_allVars
    PROVE  ProcessType'
<1>1. MaxNow \in Nat /\ MaxStarts \in Nat
  BY ApiAssumption
<1>2. CASE UNCHANGED <<now, imported, starts>>
  BY <1>2 DEF ProcessType
<1>3. CASE Tick
  BY <1>1, <1>3 DEF Tick, ProcessType, Times, apiVars
<1>4. CASE ApiStarts \/ ApiStops
  BY <1>1, <1>4 DEF ApiStarts, ApiStops, ProcessType
<1>5. CASE ~(Tick \/ ApiStarts \/ ApiStops)
  BY <1>2, <1>5 DEF ApiNext, WriterStep, ApiStep, DeleteEvents, InsertEvents,
     PageOpens, PageLoads, allVars, apiVars
<1> QED BY <1>3, <1>4, <1>5

LEMMA BrowserStep ==
    ASSUME Browser!TypeOK, [ApiNext]_allVars
    PROVE  Browser!TypeOK'
<1>1. MaxPages \in Nat
  BY ApiAssumption
<1>2. Len(Browser!Scripts) = 3 /\ Browser!Elements(Browser!Scripts)' = Browser!Elements(Browser!Scripts)
  BY DEF Browser!Scripts, Browser!Elements
<1>3. CASE UNCHANGED pageVars
  BY <1>3 DEF pageVars, Browser!TypeOK, Browser!Elements, Browser!Scripts
<1>4. CASE PageOpens
  <2>1. page' = "loading" /\ lost' = FALSE /\ pages' \in 0 .. MaxPages
    BY <1>1, <1>4 DEF PageOpens, Browser!Open, Browser!TypeOK
  <2>2. requested' = requested /\ executed' = executed
    BY <1>4 DEF PageOpens, Browser!Open
  <2> QED BY <1>2, <2>1, <2>2 DEF Browser!TypeOK
<1>5. CASE PageLoads /\ Browser!LoadScript
  <2>1. requested + 1 \in 1 .. Len(Browser!Scripts)
    BY <1>2, <1>5 DEF Browser!LoadScript, Browser!TypeOK
  <2>2. Browser!Scripts[requested + 1] \in Browser!Elements(Browser!Scripts)
    BY <2>1 DEF Browser!Elements
  <2>3. lost' \in BOOLEAN
    BY <1>5 DEF Browser!LoadScript
  <2> QED BY <1>2, <1>5, <2>1, <2>2, <2>3 DEF Browser!LoadScript, Browser!TypeOK
<1>6. CASE PageLoads /\ Browser!Initialize
  BY <1>2, <1>6 DEF Browser!Initialize, Browser!TypeOK
<1>7. CASE PageLoads /\ Browser!Describe
  <2>1. lost' \in BOOLEAN
    BY <1>7 DEF Browser!Describe
  <2> QED BY <1>2, <1>7, <2>1 DEF Browser!Describe, Browser!TypeOK
<1>8. CASE ~PageOpens /\ ~PageLoads
  BY <1>3, <1>8 DEF ApiNext, WriterStep, Tick, ApiStep, ApiStarts, ApiStops,
     DeleteEvents, InsertEvents, allVars
<1> QED BY <1>4, <1>5, <1>6, <1>7, <1>8 DEF PageLoads, Browser!Browse

LEMMA ApiTypesStep ==
    Inv /\ StampsType /\ TableType /\ ProcessType /\ Browser!TypeOK /\ [ApiNext]_allVars
        => StampsType' /\ TableType' /\ ProcessType' /\ Browser!TypeOK'
BY StampsStep, TableStep, ProcessStep, BrowserStep DEF ProcessType

\* Every variable of the writer, of the API and of the page keeps its type, and
\* what is deleted is a row (events_service.py:91-110).
THEOREM ApiTypeCorrectness == ApiSpec => []ApiTypeOK
<1>1. ApiInit => StampsType /\ TableType /\ ProcessType /\ Browser!TypeOK
  <2> SUFFICES ASSUME ApiInit PROVE StampsType /\ TableType /\ ProcessType /\ Browser!TypeOK
    OBVIOUS
  <2>1. {MaxNow, MaxChanges, MaxStarts, MaxPages} \subseteq Nat
    BY ApiAssumption
  <2>2. StampsType
    BY DEF ApiInit, Init, StampsType
  <2>3. TableType /\ ProcessType
    BY <2>1 DEF ApiInit, Init, TableType, ProcessType, Times
  <2>4. Browser!TypeOK
    <3>1. 0 \in 0 .. Len(Browser!Scripts) /\ 0 \in 0 .. MaxPages
      BY <2>1, ScriptsServed
    <3> QED BY <3>1 DEF ApiInit, Browser!Init, Browser!TypeOK
  <2> QED BY <2>2, <2>3, <2>4
<1>2. Inv /\ StampsType /\ TableType /\ ProcessType /\ Browser!TypeOK => ApiTypeOK
  BY DEF Inv, StampsType, TableType, ProcessType, ApiTypeOK
<1> QED BY <1>1, <1>2, ApiTypesStep, WriterAlone, InvariantTheorem, PTL DEF ApiSpec

-----------------------------------------------------------------------------
\* The writer keeps beside the API what it keeps alone: every event has a fate,
\* rows are bounded by deliveries, and those it adds come in the turn of their
\* partition, whatever the API deletes and inserts meanwhile
\* (kafka_consumer.py:11-56, events_service.py:91-110).
THEOREM WriterTheorem ==
    ApiSpec => /\ [](Accounted /\ FirstRowsInOrder /\ RowsBoundedByDeliveries)
               /\ StoresInTurn
BY WriterAlone, AccountedTheorem, OrderTheorem, CopiesTheorem, RefinementTheorem, PTL
=============================================================================
