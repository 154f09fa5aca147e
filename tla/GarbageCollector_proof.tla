----------------------- MODULE GarbageCollector_proof -----------------------
(***************************************************************************)
(* For every set of things, page size, limit and threshold, and whatever   *)
(* the index, the socket and the token do: searches repeat nothing and     *)
(* stay bounded, and a future is matched with the answer to its command.   *)
(***************************************************************************)
EXTENDS GarbageCollector, TLAPS

\* What the next page can add comes after everything found.
SearchSound ==
    /\ FoundOnce
    /\ SearchBounded
    /\ pc = "search" =>
          /\ Len(ids) < Limit
          /\ \A i \in DOMAIN ids : ids[i] <= cursor

\* Only main() registers futures, one at a time.
OneFuture ==
    /\ pc # "await" => current = NoId
    /\ pc = "await" => current # NoId /\ envelopes # <<>> /\ responses[current] # "unused"
    /\ \A i \in Ids : i # current => responses[i] = "unused"

\* An id is that of one command or of one answer.
WireSound ==
    /\ \A c, d \in commands : c.id = d.id => c = d
    /\ \A c \in commands : c.id \notin replies

IInv ==
    /\ TypeOK
    /\ SearchSound
    /\ OneFuture
    /\ WireSound
    /\ ResolvedByOwnAnswer
    /\ AnswerStillComing

LEMMA Numbers ==
    /\ Things \subseteq Nat /\ Ids \subseteq Nat /\ NoId \notin Ids
    /\ Limit \in Nat /\ Limit > 0 /\ PageSize \in Nat /\ PageSize > 0
    /\ Threshold \in Nat
BY ConstantsAssumption, SMT DEF NoId

LEMMA InitInv == Init => IInv
<1> SUFFICES ASSUME Init PROVE IInv
  OBVIOUS
<1>1. TypeOK
  <2>1. /\ clock \in Nat /\ cutoff \in Nat /\ cursor \in Nat /\ renewals \in Nat /\ drops \in Nat
        /\ ids \in Seq(Things) /\ envelopes \in Seq(Things)
    BY SMT DEF Init
  <2>2. expiry \in [Things -> Times] /\ index = expiry
    BY SMT DEF Init, Times
  <2> QED BY <2>1, <2>2 DEF Init, TypeOK
<1>2. SearchSound
  BY Numbers, SMT DEF Init, SearchSound, FoundOnce, SearchBounded
<1>3. OneFuture /\ WireSound /\ ResolvedByOwnAnswer /\ AnswerStillComing
  BY DEF Init, OneFuture, WireSound, ResolvedByOwnAnswer, AnswerStillComing
<1> QED BY <1>1, <1>2, <1>3 DEF IInv

-----------------------------------------------------------------------------
(* Steps that leave the search, or the commands and futures, alone *)

LEMMA SearchUnchanged ==
    ASSUME SearchSound, UNCHANGED <<ids, cursor>>, pc' = "search" => pc = "search"
    PROVE  SearchSound'
BY DEF SearchSound, FoundOnce, SearchBounded

LEMMA SearchStarted ==
    ASSUME StartSearch
    PROVE  SearchSound'
BY Numbers, SMT DEF StartSearch, SearchSound, FoundOnce, SearchBounded

\* What main() awaits, and the answer it may get.
Awaited == OneFuture /\ WireSound /\ ResolvedByOwnAnswer /\ AnswerStillComing

LEMMA AwaitedUnchanged ==
    ASSUME Awaited, UNCHANGED <<wireVars, current, responses, listening, envelopes>>,
           pc = "await" <=> pc' = "await"
    PROVE  Awaited'
BY DEF Awaited, OneFuture, WireSound, ResolvedByOwnAnswer, AnswerStillComing, wireVars

\* The answers are gone, the commands go on without a session.
LEMMA SessionEnds ==
    ASSUME TypeOK, Awaited, EndSession, listening' = FALSE,
           \/ /\ UNCHANGED <<pc, envelopes, current, responses>>
           \/ /\ pc' = "off" /\ current' = NoId
              /\ responses' = [i \in Ids |-> "unused"]
    PROVE  Awaited' /\ commands' \in SUBSET [id : Ids, thing : Things, answered : BOOLEAN]
<1>1. \A e \in commands' : \E c \in commands :
          e = [c EXCEPT !.answered = FALSE] /\ c \in [id : Ids, thing : Things, answered : BOOLEAN]
  BY DEF EndSession, TypeOK
<1>2. \A e \in commands' :
          /\ e \in [id : Ids, thing : Things, answered : BOOLEAN]
          /\ \E c \in commands : e = [c EXCEPT !.answered = FALSE] /\ e.id = c.id /\ e.thing = c.thing
  <2> SUFFICES ASSUME NEW e \in commands'
               PROVE  /\ e \in [id : Ids, thing : Things, answered : BOOLEAN]
                      /\ \E c \in commands : e = [c EXCEPT !.answered = FALSE] /\ e.id = c.id /\ e.thing = c.thing
    OBVIOUS
  <2>1. PICK c \in commands : e = [c EXCEPT !.answered = FALSE] /\ c \in [id : Ids, thing : Things, answered : BOOLEAN]
    BY <1>1
  <2>2. e \in [id : Ids, thing : Things, answered : BOOLEAN] /\ e.id = c.id /\ e.thing = c.thing
    BY <2>1
  <2> QED BY <2>1, <2>2
<1>3. WireSound'
  BY <1>2 DEF Awaited, WireSound, EndSession
<1>4. OneFuture'
  BY Numbers DEF Awaited, OneFuture, TypeOK
<1>5. ResolvedByOwnAnswer' /\ AnswerStillComing'
  BY <1>2 DEF Awaited, ResolvedByOwnAnswer, AnswerStillComing, EndSession
<1> QED BY <1>2, <1>3, <1>4, <1>5 DEF Awaited

-----------------------------------------------------------------------------
(* The steps that do change them *)

LEMMA DeleteInv == ASSUME IInv, NEW c \in commands, Delete(c) PROVE IInv'
<1>1. c.id \in Ids /\ c.thing \in Things
  BY DEF IInv, TypeOK
<1>2. TypeOK'
  BY <1>1, SMT DEF IInv, TypeOK, Delete, Times, Gone, searchVars, sendVars, taskVars
<1>3. SearchSound'
  BY SearchUnchanged DEF IInv, Delete, searchVars
<1>4. OneFuture'
  BY DEF IInv, OneFuture, Delete, sendVars
<1>5. WireSound'
  BY DEF IInv, WireSound, Delete
<1>6. ResolvedByOwnAnswer'
  BY DEF IInv, ResolvedByOwnAnswer, Delete, sendVars
<1>7. AnswerStillComing'
  BY DEF IInv, AnswerStillComing, WireSound, Delete, sendVars, taskVars
<1> QED BY <1>2, <1>3, <1>4, <1>5, <1>6, <1>7 DEF IInv

LEMMA ConcatIds ==
    ASSUME IInv, NEW p \in Pages
    PROVE  /\ p \in Seq(Things) /\ DOMAIN p = 1 .. Len(p) /\ Len(p) \in 0 .. PageSize
           /\ ids \o p \in Seq(Things)
           /\ Len(ids \o p) = Len(ids) + Len(p)
           /\ \A i \in DOMAIN (ids \o p) :
                 \/ i \in DOMAIN ids /\ (ids \o p)[i] = ids[i]
                 \/ i > Len(ids) /\ i - Len(ids) \in DOMAIN p /\ (ids \o p)[i] = p[i - Len(ids)]
<1>1. PICK n \in 0 .. PageSize : p \in [1 .. n -> Things]
  BY DEF Pages
<1>2. p \in Seq(Things) /\ DOMAIN p = 1 .. Len(p) /\ Len(p) \in 0 .. PageSize
  BY <1>1, Numbers, SMT
<1>3. ids \in Seq(Things)
  BY DEF IInv, TypeOK
<1> QED BY <1>2, <1>3, SMT

LEMMA SearchPageInv == ASSUME IInv, SearchPage PROVE IInv'
<1>1. PICK p \in Pages :
        /\ IsPage(p)
        /\ ids' = ids \o p
        /\ \/ MorePages(p) /\ cursor' = p[PageSize] /\ UNCHANGED pc
           \/ ~MorePages(p) /\ cursor' = 0 /\ pc' = "loop"
  BY DEF SearchPage
<1>2. /\ p \in Seq(Things) /\ DOMAIN p = 1 .. Len(p) /\ Len(p) \in 0 .. PageSize
      /\ ids' \in Seq(Things)
      /\ Len(ids') = Len(ids) + Len(p)
      /\ \A i \in DOMAIN ids' :
            \/ i \in DOMAIN ids /\ ids'[i] = ids[i]
            \/ i > Len(ids) /\ i - Len(ids) \in DOMAIN p /\ ids'[i] = p[i - Len(ids)]
  BY <1>1, ConcatIds
<1>3. /\ pc = "search" /\ Len(ids) < Limit /\ Len(ids) \in Nat /\ ids \in Seq(Things)
      /\ \A i \in DOMAIN ids : ids[i] <= cursor
      /\ cursor \in Nat
  BY DEF SearchPage, IInv, SearchSound, TypeOK
<1>4. \A i \in DOMAIN p : p[i] > cursor /\ p[i] \in Things /\ p[i] \in Nat
  BY <1>1, Numbers DEF IsPage, Matches
<1>5. \A i, j \in DOMAIN p : i < j => p[i] < p[j]
  BY <1>1 DEF IsPage
<1>6. MorePages(p) => Len(p) = PageSize /\ Len(ids') < Limit
  BY <1>1 DEF MorePages, IsPage
<1>7. FoundOnce'
  <2> SUFFICES ASSUME NEW i \in DOMAIN ids', NEW j \in DOMAIN ids', i < j
               PROVE  ids'[i] < ids'[j]
    BY DEF FoundOnce
  <2>1. CASE j \in DOMAIN ids /\ ids'[j] = ids[j]
    <3>1. i \in DOMAIN ids /\ ids'[i] = ids[i]
      BY <1>2, <1>3, <2>1, SMT
    <3> QED BY <2>1, <3>1 DEF IInv, SearchSound, FoundOnce
  <2>2. CASE j > Len(ids) /\ j - Len(ids) \in DOMAIN p /\ ids'[j] = p[j - Len(ids)]
    <3>1. CASE i \in DOMAIN ids /\ ids'[i] = ids[i]
      <4>1. ids[i] <= cursor /\ ids[i] \in Nat
        <5>1. ids[i] \in Things
          BY <1>3, <3>1, SMT
        <5> QED BY <1>3, <3>1, <5>1, Numbers
      <4> QED BY <1>3, <1>4, <2>2, <3>1, <4>1, SMT
    <3>2. CASE i > Len(ids) /\ i - Len(ids) \in DOMAIN p /\ ids'[i] = p[i - Len(ids)]
      <4>1. i - Len(ids) < j - Len(ids)
        BY <1>2, <1>3, SMT
      <4> QED BY <1>5, <2>2, <3>2, <4>1
    <3> QED BY <1>2, <3>1, <3>2
  <2> QED BY <1>2, <2>1, <2>2
<1>8. SearchBounded'
  BY <1>2, <1>3, Numbers, SMT DEF SearchBounded
<1>9. pc' = "search" => Len(ids') < Limit /\ \A i \in DOMAIN ids' : ids'[i] <= cursor'
  <2> SUFFICES ASSUME pc' = "search"
               PROVE  Len(ids') < Limit /\ \A i \in DOMAIN ids' : ids'[i] <= cursor'
    OBVIOUS
  <2>1. MorePages(p) /\ cursor' = p[PageSize]
    BY <1>1
  <2>2. Len(p) = PageSize /\ Len(ids') < Limit /\ PageSize \in DOMAIN p
    <3>1. Len(p) = PageSize /\ Len(ids') < Limit
      BY <1>6, <2>1
    <3> QED BY <1>2, <3>1, Numbers, SMT
  <2>3. \A i \in DOMAIN p : p[i] <= p[PageSize]
    <3> SUFFICES ASSUME NEW i \in DOMAIN p PROVE p[i] <= p[PageSize]
      OBVIOUS
    <3>1. i = PageSize \/ i < PageSize
      BY <1>2, <2>2, Numbers, SMT
    <3> QED BY <1>4, <1>5, <2>2, <3>1, SMT
  <2>4. ASSUME NEW i \in DOMAIN ids' PROVE ids'[i] <= cursor'
    <3>1. CASE i \in DOMAIN ids /\ ids'[i] = ids[i]
      <4>1. ids[i] <= cursor /\ ids[i] \in Nat
        <5>1. ids[i] \in Things
          BY <1>3, <3>1, SMT
        <5> QED BY <1>3, <3>1, <5>1, Numbers
      <4> QED BY <1>3, <1>4, <2>1, <2>2, <3>1, <4>1, SMT
    <3>2. CASE i > Len(ids) /\ i - Len(ids) \in DOMAIN p /\ ids'[i] = p[i - Len(ids)]
      BY <2>1, <2>3, <3>2
    <3> QED BY <1>2, <3>1, <3>2
  <2> QED BY <2>2, <2>4
<1>10. SearchSound'
  BY <1>7, <1>8, <1>9 DEF SearchSound
<1>11. cursor' \in Nat
  <2>1. CASE MorePages(p) /\ cursor' = p[PageSize]
    <3>1. Len(p) = PageSize
      BY <1>6, <2>1
    <3>2. PageSize \in DOMAIN p
      BY <1>2, <3>1, Numbers, SMT
    <3> QED BY <1>4, <2>1, <3>2
  <2> QED BY <1>1, <2>1
<1>12. TypeOK'
  BY <1>1, <1>2, <1>11 DEF IInv, TypeOK, SearchPage, dittoVars, wireVars, sendVars, taskVars
<1>13. pc' # "await" /\ pc # "await"
  BY <1>1, <1>3
<1>14. Awaited'
  BY <1>13, AwaitedUnchanged DEF IInv, Awaited, SearchPage, wireVars, sendVars, taskVars
<1> QED BY <1>10, <1>12, <1>14 DEF IInv, Awaited

LEMMA ExitInv == ASSUME IInv, Exit, UNCHANGED dittoVars, drops' \in Nat PROVE IInv'
<1>1. SearchSound'
  BY Numbers, SMT DEF Exit, SearchSound, FoundOnce, SearchBounded
<1>2. Awaited' /\ commands' \in SUBSET [id : Ids, thing : Things, answered : BOOLEAN]
  BY SessionEnds DEF IInv, Awaited, Exit
<1>3. TypeOK'
  <2>1. <<>> \in Seq(Things) /\ 0 \in Nat
    BY SMT
  <2> QED BY <1>2, <2>1 DEF IInv, TypeOK, Exit, EndSession, dittoVars
<1> QED BY <1>1, <1>2, <1>3 DEF IInv, Awaited

LEMMA SendInv == ASSUME IInv, Send PROVE IInv'
<1>1. PICK i \in Ids \ Used :
        /\ responses' = [responses EXCEPT ![i] = "waiting"]
        /\ current' = i
        /\ commands' = commands \cup
               {[id |-> i, thing |-> Head(envelopes), answered |-> TRUE]}
  BY DEF Send
<1> DEFINE c == [id |-> i, thing |-> Head(envelopes), answered |-> TRUE]
<1>2. Head(envelopes) \in Things /\ i # NoId
  BY Numbers, SMT DEF Send, IInv, TypeOK
<1>3. /\ \A d \in commands : d.id # i
      /\ i \notin replies
      /\ responses[i] = "unused"
      /\ \A j \in Ids : responses[j] = "unused"
  <2>1. pc # "await" /\ current = NoId
    BY DEF IInv, OneFuture, Send
  <2>2. \A j \in Ids : responses[j] = "unused"
    BY <2>1, Numbers DEF IInv, OneFuture
  <2> QED BY <2>2 DEF Used
<1>4. TypeOK'
  <2>1. [id |-> i, thing |-> Head(envelopes), answered |-> TRUE]
            \in [id : Ids, thing : Things, answered : BOOLEAN]
    BY <1>2
  <2> QED BY <1>1, <2>1 DEF IInv, TypeOK, Send, dittoVars, searchVars, taskVars
<1>5. SearchSound'
  BY SearchUnchanged DEF IInv, Send, searchVars
<1>6. OneFuture'
  BY <1>1, <1>2, <1>3 DEF IInv, TypeOK, OneFuture, Send
<1>7. WireSound'
  <2>1. c.id = i /\ commands' = commands \cup {c} /\ replies' = replies
    BY <1>1 DEF Send
  <2> HIDE DEF c
  <2> QED BY <1>3, <2>1 DEF IInv, WireSound
<1>8. responses'[i] = "waiting" /\ c \in commands' /\ c.id = i /\ c.answered /\ c.thing = Head(envelopes)
  BY <1>1 DEF IInv, TypeOK
<1>9. ResolvedByOwnAnswer'
  BY <1>1, <1>3, <1>8 DEF ResolvedByOwnAnswer, Send
<1>10. AnswerStillComing'
  BY <1>1, <1>8 DEF AnswerStillComing, Send
<1> QED BY <1>4, <1>5, <1>6, <1>7, <1>9, <1>10 DEF IInv

LEMMA TimeoutInv == ASSUME IInv, Timeout PROVE IInv'
<1>1. current \in Ids /\ responses \in [Ids -> {"unused", "waiting", "resolved", "cancelled"}]
  BY DEF Timeout, IInv, TypeOK, OneFuture
<1>2. TypeOK'
  BY <1>1 DEF Timeout, IInv, TypeOK, dittoVars, wireVars, searchVars, taskVars
<1>3. SearchSound'
  BY SearchUnchanged DEF IInv, Timeout, searchVars
<1>4. OneFuture' /\ WireSound' /\ ResolvedByOwnAnswer' /\ AnswerStillComing'
  BY <1>1 DEF Timeout, IInv, OneFuture, WireSound, ResolvedByOwnAnswer, AnswerStillComing,
     wireVars, taskVars
<1> QED BY <1>2, <1>3, <1>4 DEF IInv

LEMMA ResumeInv == ASSUME IInv, Resume PROVE IInv'
<1>1. /\ current \in Ids /\ responses \in [Ids -> {"unused", "waiting", "resolved", "cancelled"}]
      /\ envelopes \in Seq(Things) /\ envelopes # <<>>
  BY DEF Resume, IInv, TypeOK, OneFuture
<1>2. Tail(envelopes) \in Seq(Things)
  BY <1>1, SMT
<1>3. TypeOK'
  BY <1>1, <1>2 DEF Resume, IInv, TypeOK, dittoVars, wireVars, searchVars, taskVars
<1>4. SearchSound'
  BY SearchUnchanged DEF IInv, Resume, searchVars
<1>5. OneFuture' /\ WireSound' /\ ResolvedByOwnAnswer' /\ AnswerStillComing'
  BY <1>1 DEF Resume, IInv, OneFuture, WireSound, ResolvedByOwnAnswer, AnswerStillComing,
     wireVars
<1> QED BY <1>3, <1>4, <1>5 DEF IInv

LEMMA ListenInv == ASSUME IInv, NEW i \in Ids, Listen(i) PROVE IInv'
<1>1. /\ responses \in [Ids -> {"unused", "waiting", "resolved", "cancelled"}]
      /\ \A j \in Ids : j # current => responses[j] = "unused"
      /\ \A c \in commands : c.id # i
  BY DEF Listen, IInv, TypeOK, OneFuture, WireSound
<1>2. TypeOK'
  BY <1>1 DEF Listen, IInv, TypeOK, dittoVars, searchVars
<1>3. SearchSound'
  BY SearchUnchanged DEF IInv, Listen, searchVars
<1>4. replies' \subseteq replies \ {i} \/ replies' = {}
  BY DEF Listen
<1>5. OneFuture' /\ WireSound'
  BY <1>1, <1>4 DEF Listen, IInv, OneFuture, WireSound
<1>6. CASE responses[i] = "cancelled" /\ listening' = FALSE /\ replies' = {} /\ UNCHANGED responses
  <2>1. UNCHANGED <<pc, current, commands, envelopes>>
    BY DEF Listen
  <2>2. ResolvedByOwnAnswer' /\ AnswerStillComing'
    BY <1>6, <2>1 DEF IInv, ResolvedByOwnAnswer, AnswerStillComing
  <2> QED BY <1>2, <1>3, <1>5, <2>2 DEF IInv
<1>7. CASE /\ replies' = replies \ {i}
           /\ responses' = IF responses[i] = "waiting"
                             THEN [responses EXCEPT ![i] = "resolved"] ELSE responses
           /\ UNCHANGED listening
  <2>1. ResolvedByOwnAnswer'
    BY <1>1, <1>7 DEF Listen, IInv, ResolvedByOwnAnswer, OneFuture
  <2>2. AnswerStillComing'
    BY <1>1, <1>7 DEF Listen, IInv, AnswerStillComing, OneFuture
  <2> QED BY <1>2, <1>3, <1>5, <2>1, <2>2 DEF IInv
<1> QED BY <1>2, <1>3, <1>5, <1>6, <1>7 DEF IInv, Listen

LEMMA CloseInv == ASSUME IInv, CloseSocket, drops' \in Nat PROVE IInv'
<1>1. SearchSound'
  BY SearchUnchanged DEF IInv, CloseSocket, searchVars
<1>2. Awaited' /\ commands' \in SUBSET [id : Ids, thing : Things, answered : BOOLEAN]
  BY SessionEnds DEF IInv, Awaited, CloseSocket, sendVars
<1>3. TypeOK'
  BY <1>2 DEF IInv, TypeOK, CloseSocket, EndSession, dittoVars, searchVars, sendVars
<1> QED BY <1>1, <1>2, <1>3 DEF IInv, Awaited

-----------------------------------------------------------------------------
LEMMA NextInv == IInv /\ [Next]_vars => IInv'
<1> SUFFICES ASSUME IInv, [Next]_vars PROVE IInv'
  OBVIOUS
<1> USE DEF dittoVars, wireVars, searchVars, sendVars, taskVars
<1>1. ASSUME TypeOK', UNCHANGED <<ids, cursor, wireVars, sendVars, listening>>,
             pc' = pc \/ (pc = "off" /\ pc' = "connect")
      PROVE  IInv'
  <2>1. SearchSound'
    BY <1>1, SearchUnchanged DEF IInv
  <2>2. Awaited'
    BY <1>1, AwaitedUnchanged DEF IInv, Awaited
  <2> QED BY <1>1, <2>1, <2>2 DEF IInv, Awaited
<1>2. ASSUME TypeOK', SearchSound', UNCHANGED <<wireVars, responses, current>>,
             pc # "await", pc' # "await"
      PROVE  IInv'
  BY <1>2 DEF IInv, OneFuture, WireSound, ResolvedByOwnAnswer, AnswerStillComing
<1>3. CASE ClockAdvances
  <2>1. TypeOK'
    BY <1>3, SMT DEF IInv, TypeOK, ClockAdvances
  <2> QED BY <1>1, <1>3, <2>1 DEF ClockAdvances
<1>4. ASSUME NEW t \in Things, Renew(t) \/ IndexCatchesUp(t) PROVE IInv'
  <2>1. TypeOK'
    <3>1. clock \in Times
      BY DEF IInv, TypeOK, Times
    <3>2. Renew(t) => renewals' \in Nat
      BY SMT DEF IInv, TypeOK, Renew
    <3> QED BY <1>4, <3>1, <3>2 DEF IInv, TypeOK, Renew, IndexCatchesUp
  <2> QED BY <1>1, <1>4, <2>1 DEF Renew, IndexCatchesUp
<1>5. ASSUME NEW c \in commands, Delete(c) PROVE IInv'
  BY <1>5, DeleteInv
<1>6. CASE Schedule
  <2>1. TypeOK'
    BY <1>6 DEF IInv, TypeOK, Schedule
  <2> QED BY <1>1, <1>6, <2>1 DEF Schedule
<1>7. CASE MainStep
  <2>1. CASE Connect
    <3>1. TypeOK' /\ SearchSound' /\ pc # "await" /\ pc' # "await"
      BY <2>1, SearchStarted, SMT DEF IInv, TypeOK, Connect, StartSearch
    <3> QED BY <1>2, <2>1, <3>1 DEF Connect
  <2>2. CASE SearchPage
    BY <2>2, SearchPageInv
  <2>3. CASE StartRound
    <3>1. TypeOK'
      BY <2>3 DEF IInv, TypeOK, StartRound
    <3>2. SearchSound'
      BY <2>3, SearchUnchanged DEF IInv, StartRound
    <3> QED BY <1>2, <2>3, <3>1, <3>2 DEF StartRound
  <2>4. CASE Finish
    BY <2>4, ExitInv DEF Finish, IInv, TypeOK
  <2>5. CASE EndRound
    <3>1. TypeOK' /\ SearchSound' /\ pc # "await" /\ pc' # "await"
      BY <2>5, SearchStarted, SMT DEF IInv, TypeOK, EndRound, StartSearch
    <3> QED BY <1>2, <2>5, <3>1 DEF EndRound
  <2>6. CASE Send
    BY <2>6, SendInv
  <2>7. CASE SendRaises
    <3>1. TypeOK'
      BY <2>7, SMT DEF IInv, TypeOK, SendRaises
    <3>2. SearchSound'
      BY <2>7, SearchUnchanged DEF IInv, SendRaises
    <3> QED BY <1>2, <2>7, <3>1, <3>2 DEF SendRaises
  <2>8. CASE Resume
    BY <2>8, ResumeInv
  <2> QED BY <1>7, <2>1, <2>2, <2>3, <2>4, <2>5, <2>6, <2>7, <2>8 DEF MainStep
<1>8. CASE SearchAnswersError
  <2>1. TypeOK'
    BY <1>8, SMT DEF IInv, TypeOK, SearchAnswersError, Drops
  <2>2. SearchSound'
    BY <1>8 DEF IInv, SearchSound, FoundOnce, SearchBounded, SearchAnswersError
  <2> QED BY <1>2, <1>8, <2>1, <2>2 DEF SearchAnswersError
<1>9. CASE JobFails
  BY <1>9, ExitInv, SMT DEF JobFails, Drops, IInv, TypeOK
<1>10. CASE Timeout
  BY <1>10, TimeoutInv
<1>11. ASSUME NEW i \in Ids, Listen(i) PROVE IInv'
  BY <1>11, ListenInv
<1>12. CASE SocketDrops
  BY <1>12, CloseInv, SMT DEF SocketDrops, Drops, IInv, TypeOK
<1>13. CASE RefreshFails
  <2>1. TypeOK'
    <3>1. drops' \in Nat
      BY <1>13, SMT DEF IInv, TypeOK, RefreshFails, Drops
    <3> QED BY <1>13, <3>1 DEF IInv, TypeOK, RefreshFails
  <2> QED BY <1>1, <1>13, <2>1 DEF RefreshFails
<1>14. CASE LeaseExpires
  BY <1>14, CloseInv DEF LeaseExpires, IInv, TypeOK
<1>15. CASE UNCHANGED vars
  <2>1. TypeOK'
    BY <1>15 DEF IInv, TypeOK, vars
  <2> QED BY <1>1, <1>15, <2>1 DEF vars
<1> QED BY <1>3, <1>4, <1>5, <1>6, <1>7, <1>8, <1>9, <1>10, <1>11, <1>12, <1>13, <1>14,
           <1>15 DEF Next

\* The searches, the futures and the wire stay as IInv says they are.
THEOREM InvariantTheorem == Spec => []IInv
<1>1. Init => IInv
  BY InitInv
<1>2. IInv /\ [Next]_vars => IInv'
  BY NextInv
<1> QED BY <1>1, <1>2, PTL DEF Spec

\* Every variable keeps its type.
THEOREM TypeCorrectness == Spec => []TypeOK
<1>1. IInv => TypeOK
  BY DEF IInv
<1> QED BY <1>1, InvariantTheorem, PTL

\* A search finds nothing twice, however the index changes between two of its
\* pages (ditto_api.py:156-190).
THEOREM SearchTheorem == Spec => []FoundOnce
<1>1. IInv => FoundOnce
  BY DEF IInv, SearchSound
<1> QED BY <1>1, InvariantTheorem, PTL

\* A search stops less than a page past its limit, for any sizes of both
\* (ditto_api.py:168-188).
THEOREM BoundedTheorem == Spec => []SearchBounded
<1>1. IInv => SearchBounded
  BY DEF IInv, SearchSound
<1> QED BY <1>1, InvariantTheorem, PTL

\* A future is only resolved by the answer to its own command, whatever answers to
\* earlier commands are still on their way (ditto_api.py:122-150).
THEOREM OwnAnswerTheorem == Spec => []ResolvedByOwnAnswer
<1>1. IInv => ResolvedByOwnAnswer
  BY DEF IInv
<1> QED BY <1>1, InvariantTheorem, PTL

\* As long as somebody listens, what main() waits for can still arrive
\* (ditto_api.py:107-141).
THEOREM StillComingTheorem == Spec => []AnswerStillComing
<1>1. IInv => AnswerStillComing
  BY DEF IInv
<1> QED BY <1>1, InvariantTheorem, PTL
=============================================================================
