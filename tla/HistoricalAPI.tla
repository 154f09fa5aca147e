--------------------------- MODULE HistoricalAPI ---------------------------
(***************************************************************************)
(* The historical API (src/services/dt4mob-historical-api) beside the      *)
(* writer: both work on the table dittoevent, the API reads it, deletes    *)
(* from it and inserts into it, one transaction per request, and serves    *)
(* the page of SwaggerPage.  The rows the writer inserted stay in "rows";  *)
(* those the API deleted are the ones in "gone".                           *)
(***************************************************************************)
EXTENDS HistoricalWriter

CONSTANTS
    MaxNow,      \* bound: the clock
    MaxChanges,  \* bound: requests that delete or insert
    MaxStarts,   \* bound: starts of the API
    MaxPages

ASSUME ApiAssumption == {MaxNow, MaxChanges, MaxStarts, MaxPages} \subseteq Nat

VARIABLES
    now,
    stamps,    \* the time Ditto gave each message
    imported,  \* when the API imported events_service.py, or Down
    gone,      \* the rows that were deleted
    posted,    \* how many events the API inserted for each time
    erased,    \* history: messages in the range of a delete, see Erasable
    changes, starts,
    page, requested, executed, lost, pages

tableVars == <<gone, posted, erased, changes>>
apiVars == <<imported, starts>>
pageVars == <<page, requested, executed, lost, pages>>
allVars == <<vars, now, stamps, tableVars, apiVars, pageVars>>

Down == -1
Serving == imported # Down

Browser == INSTANCE SwaggerPage WITH serving <- Serving

Times == 0 .. MaxNow
Time(m) == stamps[m[1]][m[2]]

ApiTypeOK ==
    /\ TypeOK
    /\ now \in Times
    /\ stamps \in [Partitions -> Seq(Times)]
    /\ \A p \in Partitions : Len(stamps[p]) = Len(log[p])
    /\ imported \in Times \cup {Down}
    /\ gone \subseteq 1 .. Len(rows)
    /\ posted \in [Times -> Nat]
    /\ erased \subseteq Messages
    /\ changes \in 0 .. MaxChanges /\ starts \in 0 .. MaxStarts
    /\ Browser!TypeOK

ApiInit ==
    /\ Init
    /\ now = 0
    /\ stamps = [p \in Partitions |-> <<>>]
    /\ imported = Down
    /\ gone = {}
    /\ posted = [t \in Times |-> 0]
    /\ erased = {}
    /\ changes = 0
    /\ starts = 0
    /\ Browser!Init

-----------------------------------------------------------------------------
(* The writer, whose messages carry the time they were published *)

\* A message the writer is going to be handed again comes back.
ComesBack == erased' = {m \in erased : m[2] <= position'[m[1]]}

PublishNow(p) ==
    /\ Publish(p)
    /\ stamps' = [stamps EXCEPT ![p] = Append(@, now)]

WriterStep ==
    /\ \/ \E p \in Partitions : PublishNow(p)
       \/ \E p \in Partitions : PollMessage(p) /\ UNCHANGED stamps
       \/ AutoCommit /\ UNCHANGED stamps
       \/ Start /\ UNCHANGED stamps
       \/ PollNothing /\ UNCHANGED stamps
       \/ TimePasses /\ UNCHANGED stamps
       \/ KeepCollecting /\ UNCHANGED stamps
       \/ FlushStores /\ UNCHANGED stamps
       \/ FlushFails /\ UNCHANGED stamps
       \/ FlushUnconfirmed /\ UNCHANGED stamps
       \/ Crash /\ UNCHANGED stamps
       \/ Close /\ UNCHANGED stamps
       \/ Rejoin /\ UNCHANGED stamps
    /\ ComesBack
    /\ UNCHANGED <<now, apiVars, gone, posted, changes, pageVars>>

Tick ==
    /\ now < MaxNow
    /\ now' = now + 1
    /\ UNCHANGED <<vars, stamps, tableVars, apiVars, pageVars>>

-----------------------------------------------------------------------------
(* The API *)

\* The process starts and imports its modules, which makes the tables.
ApiStarts ==
    /\ ~Serving
    /\ starts < MaxStarts
    /\ imported' = now
    /\ starts' = starts + 1
    /\ UNCHANGED <<vars, now, stamps, tableVars, pageVars>>

ApiStops ==
    /\ Serving
    /\ imported' = Down
    /\ UNCHANGED <<vars, now, stamps, tableVars, starts, pageVars>>

\* Mutant: the end of the range is left out.
UntilBefore(t, since, until) == since <= t /\ t < until

\* How every query compares an event's time.
InRange(t, since, until) == since <= t /\ t <= until

\* What a query that starts at since and ends at until finds of the writer's rows.
Found(since, until) ==
    {i \in (1 .. Len(rows)) \ gone : InRange(Time(rows[i]), since, until)}

FoundPosts(since, until) ==
    [t \in Times |-> IF InRange(t, since, until) THEN posted[t] ELSE 0]

\* A message of the range that the writer is done with: handed over, and no
\* longer in the batch.
Erasable(m, since, until) ==
    /\ since <= Time(m) /\ Time(m) <= until
    /\ m[2] <= position[m[1]]
    /\ m \notin Elements(batch)

Changes ==
    /\ Serving
    /\ changes < MaxChanges
    /\ changes' = changes + 1

\* delete_events(): one statement, committed.
DeleteEvents(since, until) ==
    /\ Changes
    /\ gone' = gone \cup Found(since, until)
    /\ posted' = [t \in Times |-> IF InRange(t, since, until) THEN 0 ELSE posted[t]]
    /\ erased' = erased \cup {m \in Messages : Erasable(m, since, until)}
    /\ UNCHANGED <<vars, now, stamps, apiVars, pageVars>>

\* insert_events(): the client says when the event happened.
InsertEvents(t) ==
    /\ Changes
    /\ posted' = [posted EXCEPT ![t] = @ + 1]
    /\ UNCHANGED <<vars, now, stamps, gone, erased, apiVars, pageVars>>

PageOpens == Browser!Open /\ UNCHANGED <<vars, now, stamps, tableVars, apiVars>>

PageLoads == Browser!Browse /\ UNCHANGED <<vars, now, stamps, tableVars, apiVars>>

ApiStep ==
    \/ ApiStarts
    \/ ApiStops
    \/ \E since, until \in Times : DeleteEvents(since, until)
    \/ \E t \in Times : InsertEvents(t)

ApiNext == WriterStep \/ Tick \/ ApiStep \/ PageOpens \/ PageLoads

ApiSpec == ApiInit /\ [][ApiNext]_allVars

\* A stopped API is started again, and browsers ask for what they need.
ApiFairSpec ==
    /\ ApiSpec
    /\ Fairness
    /\ WF_allVars(ApiStarts)
    /\ WF_allVars(PageLoads)

-----------------------------------------------------------------------------
(* Correctness *)

\* What was deleted is not found again, although the writer works on the same
\* table, unless it still held the event or is handed it once more
\* (events_service.py:96-110, writer's database.py and kafka_consumer.py:44-52).
ErasedStaysErased == \A i \in (1 .. Len(rows)) \ gone : rows[i] \notin erased

PageShown == Browser!PageShown
BrokenOnlyIfAway == Browser!BrokenOnlyIfAway

\* A projection without "until" finds what has happened until now: "End of time
\* range (defaults to now)" (USER_MANUAL.en.md:217).
ProjectionByDefault ==
    Serving => \A since \in Times :
        /\ Found(since, imported) = Found(since, now)
        /\ FoundPosts(since, imported) = FoundPosts(since, now)
=============================================================================
