-------------------------- MODULE GarbageCollector --------------------------
(***************************************************************************)
(* The garbage collector (src/services/dt4mob-garbage-collector): a cron   *)
(* job that searches Ditto for expired things and deletes them one by one  *)
(* over a WebSocket.  Its asyncio tasks are the main loop, the listener of *)
(* the socket and the token supervisor; Ditto, its search index and the    *)
(* owners of the things are the environment.                               *)
(***************************************************************************)
EXTENDS Integers, Sequences, Functions

CONSTANTS
    Things,       \* thing ids, as numbers in the order the search returns them
    Refused,      \* things whose policy does not let the collector delete them
    Threshold,    \* main.py:13
    Limit,        \* ditto_api.py:156
    PageSize,     \* DittoSettings.search_size
    Ids,          \* bound: correlation ids in use at a time
    MaxClock,     \* bound: the clock
    MaxRenewals,  \* bound: renewals and creations of things
    MaxDrops      \* bound: sockets lost and token refreshes failed

ASSUME ConstantsAssumption ==
    /\ Things \subseteq Nat \ {0}
    /\ Ids \subseteq Nat \ {0}
    /\ Refused \subseteq Things
    /\ Threshold \in Nat
    /\ Limit \in Nat \ {0}
    /\ PageSize \in Nat \ {0}
    /\ MaxClock \in Nat
    /\ MaxRenewals \in Nat
    /\ MaxDrops \in Nat

VARIABLES
    (************************ Ditto *****************************************)
    clock,
    expiry,      \* each thing's expiry_ts, or Gone
    index,       \* what the search index knows of expiry
    commands,    \* delete commands Ditto has not processed, and whether their
                 \* session is still there to be answered
    replies,     \* answers on their way to the listener, while there is one
    (************************ the job's processes ***************************)
    pc,          \* main()
    cutoff,      \* the time get_expired_envelops searched with
    cursor,      \* the last thing of the pages read
    ids,         \* the things found
    envelopes,   \* those not yet sent in this round
    current,     \* the correlation id main() waits for
    responses,   \* _responses and the futures in it
    socket,      \* "none", "open" or "closed"
    listening,   \* whether _listen_loop() runs
    refreshing,  \* whether _token_refresh_loop() runs
    (************************ bounds ****************************************)
    renewals, drops

dittoVars == <<clock, expiry, index, renewals>>
wireVars == <<commands, replies>>
searchVars == <<cutoff, cursor, ids>>
sendVars == <<envelopes, current, responses>>
taskVars == <<socket, listening, refreshing>>
vars == <<dittoVars, wireVars, pc, searchVars, sendVars, taskVars, drops>>

Gone == -1
NoId == 0
Times == Nat \cup {Gone}

TypeOK ==
    /\ clock \in Nat
    /\ expiry \in [Things -> Times]
    /\ index \in [Things -> Times]
    /\ commands \subseteq [id : Ids, thing : Things, answered : BOOLEAN]
    /\ replies \subseteq Ids
    /\ pc \in {"off", "connect", "search", "loop", "send", "await"}
    /\ cutoff \in Nat
    /\ cursor \in Nat
    /\ ids \in Seq(Things)
    /\ envelopes \in Seq(Things)
    /\ current \in Ids \cup {NoId}
    /\ responses \in [Ids -> {"unused", "waiting", "resolved", "cancelled"}]
    /\ socket \in {"none", "open", "closed"}
    /\ listening \in BOOLEAN
    /\ refreshing \in BOOLEAN
    /\ renewals \in Nat
    /\ drops \in Nat

Init ==
    /\ clock = 0
    /\ expiry \in [Things -> {Gone, 0}]
    /\ index = expiry
    /\ commands = {}
    /\ replies = {}
    /\ pc = "off"
    /\ cutoff = 0
    /\ cursor = 0
    /\ ids = <<>>
    /\ envelopes = <<>>
    /\ current = NoId
    /\ responses = [i \in Ids |-> "unused"]
    /\ socket = "none"
    /\ listening = FALSE
    /\ refreshing = FALSE
    /\ renewals = 0
    /\ drops = 0

Expired(t) == expiry[t] # Gone /\ expiry[t] < clock

-----------------------------------------------------------------------------
(* Ditto and the owners of the things *)

ClockAdvances ==
    /\ clock < MaxClock
    /\ clock' = clock + 1
    /\ UNCHANGED <<expiry, index, renewals, wireVars, pc, searchVars, sendVars,
                   taskVars, drops>>

\* A thing is created, created again, or has its expiry moved into the future.
Renew(t) ==
    /\ renewals < MaxRenewals
    /\ renewals' = renewals + 1
    /\ expiry' = [expiry EXCEPT ![t] = clock]
    /\ UNCHANGED <<clock, index, wireVars, pc, searchVars, sendVars, taskVars, drops>>

\* The search index follows the things with a delay.
IndexCatchesUp(t) ==
    /\ index[t] # expiry[t]
    /\ index' = [index EXCEPT ![t] = expiry[t]]
    /\ UNCHANGED <<clock, expiry, renewals, wireVars, pc, searchVars, sendVars,
                   taskVars, drops>>

\* Ditto deletes the thing, or answers that it does not exist or may not be
\* deleted; main() ignores which.  The command carries no condition.
Delete(c) ==
    /\ c \in commands
    /\ commands' = commands \ {c}
    /\ expiry' = IF c.thing \in Refused THEN expiry ELSE [expiry EXCEPT ![c.thing] = Gone]
    /\ replies' = IF c.answered /\ listening THEN replies \cup {c.id} ELSE replies
    /\ UNCHANGED <<clock, index, renewals, pc, searchVars, sendVars, taskVars, drops>>

-----------------------------------------------------------------------------
(* main() *)

\* Mutant: a margin is taken off the time.
SearchStartsEarlier ==
    /\ pc' = "search"
    /\ cutoff' = clock - 1
    /\ cursor' = 0
    /\ ids' = <<>>

StartSearch ==
    /\ pc' = "search"
    /\ cutoff' = clock
    /\ cursor' = 0
    /\ ids' = <<>>

\* Ditto still processes the commands of a socket that is gone, unanswered.
EndSession ==
    /\ replies' = {}
    /\ commands' = {[c EXCEPT !.answered = FALSE] : c \in commands}

\* The process ends: its tasks, futures and socket end with it.
Exit ==
    /\ pc' = "off"
    /\ cutoff' = 0
    /\ cursor' = 0
    /\ ids' = <<>>
    /\ envelopes' = <<>>
    /\ current' = NoId
    /\ responses' = [i \in Ids |-> "unused"]
    /\ socket' = "none"
    /\ listening' = FALSE
    /\ refreshing' = FALSE
    /\ EndSession

\* The cron job's schedule; concurrencyPolicy Forbid allows one run at a time.
Schedule ==
    /\ pc = "off"
    /\ pc' = "connect"
    /\ UNCHANGED <<dittoVars, wireVars, searchVars, sendVars, taskVars, drops>>

\* connect() opens the socket and starts the two background tasks.
Connect ==
    /\ pc = "connect"
    /\ StartSearch
    /\ socket' = "open"
    /\ listening' = TRUE
    /\ refreshing' = TRUE
    /\ UNCHANGED <<dittoVars, wireVars, sendVars, drops>>

\* Mutant: the cursor is not sent.
MatchesFromStart == {t \in Things : index[t] # Gone /\ index[t] < cutoff}

\* The first things after the cursor that the index believes expired.
Matches == {t \in Things : t > cursor /\ index[t] # Gone /\ index[t] < cutoff}

\* An answer of Ditto, sorted by thing id: it leaves out only what comes after a
\* full page.
Pages == UNION {[1 .. n -> Things] : n \in 0 .. PageSize}
IsPage(p) ==
    /\ \A i \in DOMAIN p : p[i] \in Matches
    /\ \A i, j \in DOMAIN p : i < j => p[i] < p[j]
    /\ \A t \in Matches \ Range(p) : Len(p) = PageSize /\ p[PageSize] < t

\* Mutant: the limit is not checked.
MoreThanLimit(p) == ~(Matches \subseteq Range(p))

\* Ditto gives a cursor and the limit is not reached.
MorePages(p) == ~(Matches \subseteq Range(p)) /\ Len(ids') < Limit

\* One request of get_things_expired_lt().
SearchPage ==
    /\ pc = "search"
    /\ \E p \in Pages :
        /\ IsPage(p)
        /\ ids' = ids \o p
        /\ \/ MorePages(p) /\ cursor' = p[PageSize] /\ UNCHANGED pc
           \/ ~MorePages(p) /\ cursor' = 0 /\ pc' = "loop"
    /\ UNCHANGED <<dittoVars, wireVars, cutoff, sendVars, taskVars, drops>>

Drops ==
    /\ drops < MaxDrops
    /\ drops' = drops + 1

\* The body of an error has neither items nor cursor: it reads as the last page.
SearchAnswersError ==
    /\ pc = "search"
    /\ Drops
    /\ pc' = "loop"
    /\ cursor' = 0
    /\ UNCHANGED <<dittoVars, wireVars, cutoff, ids, sendVars, taskVars>>

\* A request, or the token it needs, raises: nothing catches it.
JobFails ==
    /\ pc \in {"connect", "search"}
    /\ Drops
    /\ Exit
    /\ UNCHANGED dittoVars

\* Mutant: off by one.
LeavesFewer == Len(ids) >= Threshold

KeepsGoing == Len(ids) > Threshold

\* main.py:13 goes on with a round of deletions,
StartRound ==
    /\ pc = "loop"
    /\ KeepsGoing
    /\ envelopes' = ids
    /\ pc' = "send"
    /\ UNCHANGED <<dittoVars, wireVars, searchVars, current, responses, taskVars, drops>>

\* or closes the client and ends.
Finish ==
    /\ pc = "loop"
    /\ ~KeepsGoing
    /\ Exit
    /\ UNCHANGED <<dittoVars, drops>>

EndRound ==
    /\ pc = "send"
    /\ envelopes = <<>>
    /\ StartSearch
    /\ UNCHANGED <<dittoVars, wireVars, sendVars, taskVars, drops>>

\* Mutant: an id is given out again as soon as nobody waits for it.
UsedByFutures == {i \in Ids : responses[i] # "unused"}

Used == {c.id : c \in commands} \cup replies \cup {i \in Ids : responses[i] # "unused"}

\* send_ws_message(): the future is registered under a fresh id, then sent.
Send ==
    /\ pc = "send"
    /\ envelopes # <<>>
    /\ socket = "open"
    /\ \E i \in Ids \ Used :
        /\ \A j \in Ids \ Used : i <= j
        /\ responses' = [responses EXCEPT ![i] = "waiting"]
        /\ current' = i
        /\ commands' = commands \cup
               {[id |-> i, thing |-> Head(envelopes), answered |-> TRUE]}
    /\ pc' = "await"
    /\ UNCHANGED <<dittoVars, replies, searchVars, envelopes, taskVars, drops>>

\* On a closed socket the send raises, which main() logs before it continues;
\* the future left in _responses is never met again.
SendRaises ==
    /\ pc = "send"
    /\ envelopes # <<>>
    /\ socket = "closed"
    /\ envelopes' = Tail(envelopes)
    /\ UNCHANGED <<dittoVars, wireVars, pc, searchVars, current, responses,
                   taskVars, drops>>

\* Ten seconds pass: wait_for cancels the future before main() runs again.
Timeout ==
    /\ pc = "await"
    /\ responses[current] = "waiting"
    /\ responses' = [responses EXCEPT ![current] = "cancelled"]
    /\ UNCHANGED <<dittoVars, wireVars, pc, searchVars, envelopes, current,
                   taskVars, drops>>

\* main() runs again, forgets the id and ignores the outcome.
Resume ==
    /\ pc = "await"
    /\ responses[current] \in {"resolved", "cancelled"}
    /\ responses' = [responses EXCEPT ![current] = "unused"]
    /\ current' = NoId
    /\ envelopes' = Tail(envelopes)
    /\ pc' = "send"
    /\ UNCHANGED <<dittoVars, wireVars, searchVars, taskVars, drops>>

-----------------------------------------------------------------------------
(* The background tasks and the socket *)

\* _listen_loop() delivers an answer to the future registered under its id;
\* setting the result of a cancelled one raises, which ends the loop.
Listen(i) ==
    /\ listening
    /\ i \in replies
    /\ \/ /\ responses[i] = "cancelled"
          /\ listening' = FALSE
          /\ replies' = {}
          /\ UNCHANGED responses
       \/ /\ responses[i] # "cancelled"
          /\ replies' = replies \ {i}
          /\ responses' = IF responses[i] = "waiting"
                            THEN [responses EXCEPT ![i] = "resolved"] ELSE responses
          /\ UNCHANGED listening
    /\ UNCHANGED <<dittoVars, commands, pc, searchVars, envelopes, current,
                   socket, refreshing, drops>>

\* Mutant: the listener ignores the end of the socket.
CloseUnnoticed ==
    /\ socket = "open"
    /\ socket' = "closed"
    /\ EndSession
    /\ UNCHANGED <<dittoVars, pc, searchVars, sendVars, listening, refreshing>>

CloseSocket ==
    /\ socket = "open"
    /\ socket' = "closed"
    /\ listening' = FALSE
    /\ EndSession
    /\ UNCHANGED <<dittoVars, pc, searchVars, sendVars, refreshing>>

SocketDrops == CloseSocket /\ Drops

\* The supervisor ends on any error; it is never restarted,
RefreshFails ==
    /\ refreshing
    /\ Drops
    /\ refreshing' = FALSE
    /\ UNCHANGED <<dittoVars, wireVars, pc, searchVars, sendVars, socket, listening>>

\* and Ditto closes the socket when the token it knows expires.
LeaseExpires == CloseSocket /\ ~refreshing /\ UNCHANGED drops

-----------------------------------------------------------------------------
MainStep ==
    \/ Connect
    \/ SearchPage
    \/ StartRound
    \/ Finish
    \/ EndRound
    \/ Send
    \/ SendRaises
    \/ Resume

Next ==
    \/ ClockAdvances
    \/ \E t \in Things : Renew(t) \/ IndexCatchesUp(t)
    \/ \E c \in commands : Delete(c)
    \/ Schedule
    \/ MainStep
    \/ SearchAnswersError
    \/ JobFails
    \/ Timeout
    \/ \E i \in Ids : Listen(i)
    \/ SocketDrops
    \/ RefreshFails
    \/ LeaseExpires

Spec == Init /\ [][Next]_vars

\* The event loop runs every task that can run, wait_for's timer fires, the
\* schedule comes round, and Ditto processes commands and indexes things.
Fairness ==
    /\ WF_vars(MainStep)
    /\ WF_vars(Timeout)
    /\ WF_vars(Schedule)
    /\ WF_vars(ClockAdvances)
    /\ \A i \in Ids : WF_vars(Listen(i))
    /\ \A t \in Things : WF_vars(IndexCatchesUp(t))
    /\ \A i \in Ids, t \in Things, a \in BOOLEAN :
           WF_vars(Delete([id |-> i, thing |-> t, answered |-> a]))

FairSpec == Spec /\ Fairness

-----------------------------------------------------------------------------
(* Correctness *)

\* However the index changes between two pages, a thing is found once, so no
\* round sends two commands for it (ditto_api.py:169-190).
FoundOnce == \A i, j \in DOMAIN ids : i < j => ids[i] < ids[j]

\* A search that starts below the limit overshoots it by less than a page
\* (ditto_api.py:169).
SearchBounded == Len(ids) < Limit + PageSize

\* A future is resolved by the answer to its own command, never by a late one
\* to another (ditto_api.py:125-127, 134-150).
ResolvedByOwnAnswer ==
    pc = "await" =>
        /\ responses[current] = "resolved" => current \notin {c.id : c \in commands} \cup replies
        /\ \A c \in commands : c.id = current => c.thing = Head(envelopes)

\* While the listener lives, no answer is lost: what main() waits for is still
\* with Ditto or on its way (ditto_api.py:122-128, 134-141).
AnswerStillComing ==
    pc = "await" /\ responses[current] = "waiting" /\ listening =>
        \/ current \in replies
        \/ \E c \in commands : c.id = current /\ c.answered

\* "Once all deletions are confirmed, the script exits" (README_USER.md:118):
\* with at most Threshold things that cannot be deleted, a run ends, through
\* late answers, failing refreshes and a dead listener, unless its socket is
\* lost; then every send raises and main.py:13 goes round for ever.
RunEnds == pc # "off" ~> pc = "off" \/ socket = "closed"

\* A thing renewed since the search began, as the index shows by now.
RenewedMeanwhile(t) == expiry[t] > cutoff /\ index[t] = expiry[t]

\* It "searches for things whose attributes/expiry_ts timestamp is in the past,
\* and deletes them" (README_USER.md:5): when Ditto executes the command, the
\* thing has expired, or at least nobody could see that it was renewed since the
\* search began.
DeletesOnlyExpired ==
    [][\A t \in Things : expiry[t] # Gone /\ expiry'[t] = Gone =>
          Expired(t) \/ ~RenewedMeanwhile(t)]_vars

\* "enabling reliable send-and-await semantics over WebSocket"
\* (README_DEV.md:125): while the socket is open someone reads it.
ListenerSurvives == socket = "open" => listening
=============================================================================
