------------------------- MODULE DeviceTrust_proof -------------------------
(***************************************************************************)
(* For every set of requests, every content and every number of rotations, *)
(* failures and restarts: a certificate is signed by one CA, and no        *)
(* request is given an older one than a request before it.  First of the   *)
(* certificate service alone, then of the service beside the controller:   *)
(* when both are at rest, Hono trusts the CA the service signs with.       *)
(***************************************************************************)
EXTENDS DeviceTrust, TLAPS

\* A request that has been given a CA.
Given(r) == calls[r].phase \in {"signing", "issued"}

CallsSound ==
    \A r \in Requests : Given(r) =>
        /\ calls[r].leaf # 0
        /\ calls[r].key = calls[r].leaf
        /\ calls[r].leaf <= secret.ver
        /\ tlsCert # 0 => calls[r].leaf <= tlsCert
        /\ pc = "load" => calls[r].leaf <= fetched.ver
        /\ \A i \in 1 .. Len(queue) : calls[r].leaf <= queue[i].ver

\* What a process reads, hears and holds was published, in this order.
FollowsSecret ==
    /\ secret.ver # 0
    /\ tlsCert <= secret.ver
    /\ fetched.ver <= secret.ver
    /\ pc = "load" => fetched.ver # 0
    /\ pc \in {"down", "load"} => tlsCert = 0 /\ watcher = "none"
    /\ watcher \in {"none", "starting"} => queue = <<>>
    /\ \A i \in 1 .. Len(queue) :
          /\ queue[i].ver # 0
          /\ tlsCert <= queue[i].ver
          /\ queue[i].ver <= secret.ver
          /\ \A j \in 1 .. i : queue[j].ver <= queue[i].ver

IInv == TypeOK /\ CallsSound /\ FollowsSecret /\ LifetimeAllowed

LEMMA WrappedRange ==
    ASSUME NEW x \in Int
    PROVE  Wrapped(x) \in -Half .. Half - 1
BY ServiceAssumption, SMT DEF Wrapped

\* A product that fits its width is not changed.
LEMMA NotWrapped ==
    ASSUME NEW x \in Nat, x < Half
    PROVE  Wrapped(x) = x
<1>1. Half \in Nat \ {0}
  BY ServiceAssumption
<1>2. x + Half \in 0 .. 2 * Half - 1
  BY <1>1, SMT
<1>3. (x + Half) % (2 * Half) = x + Half
  BY <1>1, <1>2, SMT
<1> QED BY <1>1, <1>3, SMT DEF Wrapped

LEMMA Numbers ==
    /\ MaxVersion \in Nat /\ MaxFailures \in Nat /\ MaxTTL \in Nat
    /\ Half \in Nat /\ Half # 0 /\ Hour \in Nat
    /\ Hours \subseteq Nat
    /\ DefaultTTL \in -Half .. Half - 1 /\ 0 \in -Half .. Half - 1
    /\ SecretContents \subseteq Kinds
BY ServiceAssumption, SMT

LEMMA InitInv == Init => IInv
BY Numbers, SMT DEF Init, IInv, TypeOK, CallsSound, FollowsSecret, LifetimeAllowed, Given,
   Call, Phases, Roles, NewCall, Secret, Kinds, Nothing

LEMMA RotateInv == IInv /\ Rotate => IInv'
<1> SUFFICES ASSUME IInv, Rotate PROVE IInv'
  OBVIOUS
<1>1. PICK n \in secret.ver + 1 .. MaxVersion, v \in SecretContents :
         secret' = [ver |-> n, val |-> v]
  BY DEF Rotate
<1>2. /\ secret' \in Secret /\ secret.ver \in Nat /\ queue \in Seq(Secret)
      /\ secret'.ver \in Nat /\ secret'.ver > secret.ver
  <2>1. secret.ver \in Nat /\ queue \in Seq(Secret)
    BY DEF IInv, TypeOK, Secret
  <2>2. n \in Nat /\ n > secret.ver
    BY <2>1, Numbers, SMT
  <2> QED BY <1>1, <2>1, <2>2, Numbers DEF Secret
<1>3. \/ queue' = queue
      \/ watcher = "open" /\ queue' = Append(queue, secret')
  <2>1. CASE watcher = "open" /\ secret'.val # "none"
    <3>1. queue' = queue \o <<secret'>>
      BY <2>1 DEF Rotate, Reported
    <3> QED BY <2>1, <3>1, <1>2, SMT
  <2>2. CASE ~(watcher = "open" /\ secret'.val # "none")
    <3>1. queue' = queue \/ queue' = queue \o <<>>
      BY <2>2 DEF Rotate, Reported
    <3> QED BY <3>1, <1>2, SMT
  <2> QED BY <2>1, <2>2
<1>4. UNCHANGED <<pc, fetched, watcher, tlsCert, calls, failures>>
  BY DEF Rotate
<1>5. TypeOK'
  BY <1>2, <1>3, <1>4, SMT DEF IInv, TypeOK
<1>6. \A i \in 1 .. Len(queue') :
         \/ i \in 1 .. Len(queue) /\ queue'[i] = queue[i]
         \/ i = Len(queue) + 1 /\ queue'[i] = secret'
  BY <1>2, <1>3, SMT
<1>7. CallsSound'
  <2> SUFFICES ASSUME NEW r \in Requests, Given(r)
               PROVE  /\ calls[r].leaf # 0
                      /\ calls[r].key = calls[r].leaf
                      /\ calls[r].leaf <= secret'.ver
                      /\ tlsCert # 0 => calls[r].leaf <= tlsCert
                      /\ pc = "load" => calls[r].leaf <= fetched.ver
                      /\ \A i \in 1 .. Len(queue') : calls[r].leaf <= queue'[i].ver
    BY <1>4 DEF CallsSound, Given
  <2>1. calls[r].leaf \in Nat
    BY DEF IInv, TypeOK, Call
  <2>2. calls[r].leaf <= secret'.ver
    BY <1>2, <2>1, SMT DEF IInv, CallsSound
  <2>3. \A i \in 1 .. Len(queue') : calls[r].leaf <= queue'[i].ver
    BY <1>6, <2>2 DEF IInv, CallsSound
  <2> QED BY <2>2, <2>3 DEF IInv, CallsSound
<1>8. FollowsSecret'
  <2>1. \A i \in 1 .. Len(queue) : \A j \in 1 .. i : j \in 1 .. Len(queue)
    BY <1>2, SMT
  <2>2. \A i \in 1 .. Len(queue) : /\ queue[i].ver # 0
                                  /\ tlsCert <= queue[i].ver
                                  /\ queue[i].ver <= secret.ver
                                  /\ queue[i] \in Secret
    BY <1>2 DEF IInv, FollowsSecret
  <2>3. tlsCert \in Nat /\ fetched.ver \in Nat /\ Len(queue) \in Nat
    BY <1>2 DEF IInv, TypeOK, Secret
  <2>4. \A i \in 1 .. Len(queue') : /\ queue'[i].ver # 0
                                   /\ tlsCert <= queue'[i].ver
                                   /\ queue'[i].ver <= secret'.ver
    BY <1>2, <1>6, <2>2, <2>3, SMT DEF IInv, FollowsSecret, Secret
  <2>5. \A i \in 1 .. Len(queue') : \A j \in 1 .. i : queue'[j].ver <= queue'[i].ver
    <3> SUFFICES ASSUME NEW i \in 1 .. Len(queue'), NEW j \in 1 .. i
                 PROVE  queue'[j].ver <= queue'[i].ver
      OBVIOUS
    <3>1. j \in 1 .. Len(queue')
      BY <1>2, <1>3, SMT
    <3>2. CASE i \in 1 .. Len(queue) /\ queue'[i] = queue[i]
      <4>1. j \in 1 .. Len(queue) /\ queue'[j] = queue[j]
        BY <1>6, <2>3, <3>1, <3>2, SMT
      <4>2. queue[j].ver <= queue[i].ver
        BY <3>2 DEF IInv, FollowsSecret
      <4> QED BY <3>2, <4>1, <4>2
    <3>3. CASE queue'[i] = secret'
      <4>1. CASE j \in 1 .. Len(queue) /\ queue'[j] = queue[j]
        <5>1. queue[j].ver \in Nat /\ queue[j].ver <= secret.ver
          BY <2>2, <4>1 DEF Secret
        <5>2. queue[j].ver <= secret'.ver
          BY <1>2, <5>1, SMT
        <5> QED BY <3>3, <4>1, <5>2
      <4>2. CASE queue'[j] = secret'
        <5>1. queue'[j].ver = queue'[i].ver /\ queue'[i].ver \in Nat
          BY <1>2, <3>3, <4>2
        <5> QED BY <5>1, SMT
      <4> QED BY <1>6, <3>1, <4>1, <4>2
    <3> QED BY <1>6, <3>2, <3>3
  <2> QED BY <1>2, <1>3, <1>4, <2>3, <2>4, <2>5, SMT DEF IInv, FollowsSecret
<1>9. LifetimeAllowed'
  BY <1>4 DEF IInv, LifetimeAllowed
<1> QED BY <1>5, <1>7, <1>8, <1>9 DEF IInv

\* A step that leaves the calls alone keeps what they record of them.
LEMMA Unhandled ==
    ASSUME LifetimeAllowed, calls' = calls
    PROVE  LifetimeAllowed'
BY DEF LifetimeAllowed

LEMMA ReadSecretInv == IInv /\ ReadSecret => IInv'
<1> SUFFICES ASSUME IInv, ReadSecret PROVE IInv'
  OBVIOUS
<1>1. TypeOK'
  BY SMT DEF IInv, TypeOK, ReadSecret
<1>2. CallsSound'
  BY SMT DEF IInv, TypeOK, CallsSound, FollowsSecret, Given, ReadSecret, Secret
<1>3. FollowsSecret'
  BY SMT DEF IInv, TypeOK, FollowsSecret, ReadSecret, Secret
<1> QED BY <1>1, <1>2, <1>3, Unhandled DEF IInv, ReadSecret

LEMMA LoadSecretInv == IInv /\ LoadSecret => IInv'
<1> SUFFICES ASSUME IInv, LoadSecret PROVE IInv'
  OBVIOUS
<1>1. TypeOK'
  BY SMT DEF IInv, TypeOK, LoadSecret, Loaded, Nothing, Secret, Kinds
<1>2. CallsSound'
  BY SMT DEF IInv, TypeOK, CallsSound, FollowsSecret, Given, LoadSecret, Loaded, Secret, Call
<1>3. FollowsSecret'
  BY SMT DEF IInv, TypeOK, FollowsSecret, LoadSecret, Loaded, Nothing, Secret
<1> QED BY <1>1, <1>2, <1>3, Unhandled DEF IInv, LoadSecret

LEMMA NewVerifierInv == IInv /\ NewVerifier => IInv'
<1> SUFFICES ASSUME IInv, NewVerifier PROVE IInv'
  OBVIOUS
<1>1. TypeOK'
  BY DEF IInv, TypeOK, NewVerifier
<1>2. CallsSound'
  BY DEF IInv, CallsSound, Given, NewVerifier
<1>3. FollowsSecret'
  BY DEF IInv, FollowsSecret, NewVerifier
<1> QED BY <1>1, <1>2, <1>3, Unhandled DEF IInv, NewVerifier

LEMMA WatchSecretInv == IInv /\ WatchSecret => IInv'
<1> SUFFICES ASSUME IInv, WatchSecret PROVE IInv'
  OBVIOUS
<1>1. queue' = <<>> \/ queue' = <<secret>>
  BY DEF WatchSecret, Reported
<1>2. secret \in Secret
  BY DEF IInv, TypeOK
<1>3. TypeOK'
  <2>1. <<>> \in Seq(Secret) /\ <<secret>> \in Seq(Secret)
    BY <1>2
  <2> QED BY <1>1, <2>1 DEF IInv, TypeOK, WatchSecret
<1>4. \A i \in 1 .. Len(queue') : i = 1 /\ queue'[i] = secret
  <2>1. CASE queue' = <<>>
    BY <2>1
  <2>2. CASE queue' = <<secret>>
    BY <2>2
  <2> QED BY <1>1, <2>1, <2>2
<1>5. CallsSound'
  BY <1>4, SMT DEF IInv, CallsSound, Given, WatchSecret
<1>6. FollowsSecret'
  BY <1>2, <1>4, SMT DEF IInv, TypeOK, FollowsSecret, WatchSecret, Secret
<1> QED BY <1>3, <1>5, <1>6, Unhandled DEF IInv, WatchSecret

LEMMA SecretUpdatedInv == IInv /\ SecretUpdated => IInv'
<1> SUFFICES ASSUME IInv, SecretUpdated PROVE IInv'
  OBVIOUS
<1>1. /\ queue \in Seq(Secret) /\ queue # <<>> /\ queue' = Tail(queue)
      /\ UNCHANGED <<secret, pc, fetched, watcher, calls, failures>>
  BY DEF IInv, TypeOK, SecretUpdated
<1>2. /\ queue' \in Seq(Secret) /\ Len(queue) \in Nat /\ 1 \in 1 .. Len(queue)
      /\ Head(queue) = queue[1] /\ Head(queue) \in Secret
      /\ \A i \in 1 .. Len(queue') :
            i + 1 \in 1 .. Len(queue) /\ queue'[i] = queue[i + 1]
  BY <1>1, SMT
<1>3. tlsCert' = queue[1].ver \/ tlsCert' = tlsCert
  BY <1>2 DEF SecretUpdated, Loaded
<1>4. TypeOK'
  BY <1>1, <1>2, <1>3, SMT DEF IInv, TypeOK, Secret
<1>5. CallsSound'
  BY <1>1, <1>2, <1>3, SMT DEF IInv, CallsSound, Given
<1>6. FollowsSecret'
  <2>1. pc \notin {"down", "load"} /\ watcher \notin {"none", "starting"}
    BY <1>1 DEF IInv, FollowsSecret
  <2>2. \A i \in 1 .. Len(queue') : \A j \in 1 .. i :
           j + 1 \in 1 .. i + 1 /\ 1 \in 1 .. i + 1 /\ j \in 1 .. Len(queue')
    BY <1>2, SMT
  <2>3. \A i \in 1 .. Len(queue) : \A j \in 1 .. i : queue[j].ver <= queue[i].ver
    BY DEF IInv, FollowsSecret
  <2>4. \A i \in 1 .. Len(queue') :
           /\ queue'[i].ver # 0
           /\ tlsCert' <= queue'[i].ver
           /\ queue'[i].ver <= secret.ver
    BY <1>2, <1>3, <2>2, <2>3, SMT DEF IInv, FollowsSecret
  <2>5. ASSUME NEW i \in 1 .. Len(queue'), NEW j \in 1 .. i
        PROVE  queue'[j].ver <= queue'[i].ver
    <3>1. /\ i + 1 \in 1 .. Len(queue) /\ queue'[i] = queue[i + 1]
          /\ j \in 1 .. Len(queue') /\ j + 1 \in 1 .. i + 1
      BY <1>2, <2>2
    <3>2. queue'[j] = queue[j + 1]
      BY <1>2, <3>1
    <3> QED BY <2>3, <3>1, <3>2
  <2>6. tlsCert' <= secret.ver
    BY <1>2, <1>3, SMT DEF IInv, FollowsSecret
  <2> QED BY <1>1, <2>1, <2>4, <2>5, <2>6, SMT DEF IInv, FollowsSecret
<1> QED BY <1>1, <1>4, <1>5, <1>6, Unhandled DEF IInv

LEMMA WatchEndsInv == IInv /\ WatchEnds => IInv'
<1> SUFFICES ASSUME IInv, WatchEnds PROVE IInv'
  OBVIOUS
<1>1. PICK n \in 0 .. Len(queue) : queue' = SubSeq(queue, 1, n)
  BY DEF WatchEnds
<1>2. /\ queue \in Seq(Secret) /\ failures \in Nat /\ failures' = failures + 1
      /\ watcher' = "ended"
      /\ UNCHANGED <<secret, pc, fetched, tlsCert, calls>>
      /\ watcher = "open"
  BY DEF IInv, TypeOK, WatchEnds
<1>3. /\ queue' \in Seq(Secret) /\ Len(queue') = n /\ n \in Nat /\ Len(queue) \in Nat
      /\ \A i \in 1 .. n : i \in 1 .. Len(queue) /\ queue'[i] = queue[i]
  BY <1>1, <1>2, SMT
<1>4. TypeOK'
  BY <1>2, <1>3, SMT DEF IInv, TypeOK
<1>5. CallsSound'
  BY <1>2, <1>3, SMT DEF IInv, CallsSound, Given
<1>6. FollowsSecret'
  BY <1>2, <1>3, SMT DEF IInv, FollowsSecret
<1> QED BY <1>2, <1>4, <1>5, <1>6, Unhandled DEF IInv

LEMMA DownInv ==
    ASSUME IInv, Down, secret' = secret, failures' \in Nat
    PROVE  IInv'
<1>1. \A r \in Requests :
         \/ calls'[r] = calls[r] /\ calls[r].phase # "signing"
         \/ calls'[r] = [NewCall EXCEPT !.phase = "lost"]
  BY DEF Down
<1>2. [NewCall EXCEPT !.phase = "lost"] \in Call
  BY Numbers, SMT DEF NewCall, Call, Phases, Roles
<1>3. calls' \in [Requests -> Call]
  BY <1>1, <1>2 DEF Down, IInv, TypeOK
<1>4. TypeOK'
  <2>1. Nothing \in Secret /\ <<>> \in Seq(Secret)
    BY DEF Nothing, Secret, Kinds
  <2> QED BY <1>3, <2>1 DEF IInv, TypeOK, Down
<1>5. \A r \in Requests : Given(r)' => Given(r) /\ calls'[r] = calls[r]
  BY <1>1, SMT DEF Given, NewCall
<1>6. CallsSound'
  <2>1. secret' = secret /\ tlsCert' = 0 /\ pc' = "down" /\ queue' = <<>>
    BY DEF Down
  <2> QED BY <1>5, <2>1, SMT DEF IInv, CallsSound
<1>7. FollowsSecret'
  BY SMT DEF IInv, TypeOK, FollowsSecret, Down, Nothing, Secret
<1>8. LifetimeAllowed'
  BY <1>5 DEF IInv, LifetimeAllowed, Given
<1> QED BY <1>4, <1>6, <1>7, <1>8 DEF IInv

LEMMA ProcessInv == IInv /\ Process => IInv'
<1> SUFFICES ASSUME IInv, Process PROVE IInv'
  OBVIOUS
<1>1. CASE Exit \/ StartupProbeFails
  <2>1. failures' \in Nat
    BY <1>1, SMT DEF Exit, StartupProbeFails, IInv, TypeOK
  <2> QED BY <1>1, <2>1, DownInv DEF Exit, StartupProbeFails
<1> QED
  BY <1>1, ReadSecretInv, LoadSecretInv, NewVerifierInv, WatchSecretInv,
     SecretUpdatedInv, WatchEndsInv DEF Process

LEMMA CallUpdated ==
    ASSUME calls \in [Requests -> Call], NEW r \in Requests, NEW c \in Call,
           calls' = [calls EXCEPT ![r] = c]
    PROVE  /\ calls' \in [Requests -> Call]
           /\ calls'[r] = c
           /\ \A s \in Requests \ {r} : calls'[s] = calls[s]
OBVIOUS

LEMMA AcceptInv ==
    ASSUME IInv, NEW r \in Requests, Accept(r)
    PROVE  IInv'
<1>1. PICK role \in Roles :
         calls' = [calls EXCEPT ![r] = [NewCall EXCEPT !.phase = "signing",
                      !.role = role, !.leaf = tlsCert, !.key = tlsCert]]
  BY DEF Accept
<1>2. calls \in [Requests -> Call] /\ tlsCert \in Nat /\ tlsCert # 0 /\ pc = "serve"
  BY DEF IInv, TypeOK, Accept
<1>3. UNCHANGED <<secret, pc, fetched, watcher, queue, tlsCert, failures>>
  BY DEF Accept, processVars
<1>4. /\ calls' \in [Requests -> Call]
      /\ calls'[r].phase = "signing" /\ calls'[r].leaf = tlsCert /\ calls'[r].key = tlsCert
      /\ \A s \in Requests \ {r} : calls'[s] = calls[s]
  <2> DEFINE c == [NewCall EXCEPT !.phase = "signing", !.role = role,
                                  !.leaf = tlsCert, !.key = tlsCert]
  <2>1. /\ c \in Call /\ c.phase = "signing" /\ c.leaf = tlsCert /\ c.key = tlsCert
    BY <1>2, Numbers DEF NewCall, Call, Phases
  <2>2. calls' = [calls EXCEPT ![r] = c]
    BY <1>1
  <2> HIDE DEF c
  <2> QED BY <1>2, <2>1, <2>2, CallUpdated
<1>5. TypeOK'
  BY <1>3, <1>4 DEF IInv, TypeOK
<1>6. CallsSound'
  <2> SUFFICES ASSUME NEW s \in Requests, Given(s)'
               PROVE  /\ calls'[s].leaf # 0
                      /\ calls'[s].key = calls'[s].leaf
                      /\ calls'[s].leaf <= secret.ver
                      /\ calls'[s].leaf <= tlsCert
                      /\ \A i \in 1 .. Len(queue) : calls'[s].leaf <= queue[i].ver
    BY <1>2, <1>3 DEF CallsSound
  <2>1. CASE s = r
    BY <1>2, <1>4, <2>1, SMT DEF IInv, FollowsSecret
  <2>2. CASE s # r
    BY <1>2, <1>4, <2>2, SMT DEF IInv, CallsSound, Given
  <2> QED BY <2>1, <2>2
<1>7. FollowsSecret'
  BY <1>3 DEF IInv, FollowsSecret
<1>8. LifetimeAllowed'
  BY <1>4, SMT DEF IInv, LifetimeAllowed
<1> QED BY <1>5, <1>6, <1>7, <1>8 DEF IInv

LEMMA AnswerInv ==
    ASSUME IInv, NEW r \in Requests, Reject(r) \/ RefuseInput(r)
    PROVE  IInv'
<1>1. /\ calls' = [calls EXCEPT ![r] = [calls[r] EXCEPT !.phase = "refused"]]
      /\ UNCHANGED <<secret, pc, fetched, watcher, queue, tlsCert, failures>>
  BY DEF Reject, RefuseInput, processVars
<1>2. /\ calls' \in [Requests -> Call]
      /\ calls'[r].phase = "refused"
      /\ \A s \in Requests \ {r} : calls'[s] = calls[s]
  <2>1. calls \in [Requests -> Call] /\ calls[r] \in Call
    BY DEF IInv, TypeOK
  <2>2. /\ [calls[r] EXCEPT !.phase = "refused"] \in Call
        /\ [calls[r] EXCEPT !.phase = "refused"].phase = "refused"
    BY <2>1 DEF Call, Phases
  <2> QED BY <1>1, <2>1, <2>2, CallUpdated
<1>3. \A s \in Requests : Given(s)' => s # r
  BY <1>2, SMT DEF Given
<1>4. TypeOK'
  BY <1>1, <1>2 DEF IInv, TypeOK
<1>5. CallsSound'
  BY <1>1, <1>2, <1>3, SMT DEF IInv, CallsSound, Given
<1>6. FollowsSecret'
  BY <1>1 DEF IInv, FollowsSecret
<1>7. LifetimeAllowed'
  BY <1>2, SMT DEF IInv, LifetimeAllowed
<1> QED BY <1>4, <1>5, <1>6, <1>7 DEF IInv

LEMMA SignInv ==
    ASSUME IInv, NEW r \in Requests, Sign(r)
    PROVE  IInv'
<1>1. PICK hours \in Nat, life \in -Half .. Half - 1 :
         /\ Issue(r, hours, life)
         /\ hours # 0 /\ hours * Hour < Half =>
               /\ life = hours * Hour
               /\ calls[r].role = "admin" \/ hours * Hour <= MaxTTL
  <2>1. CASE Issue(r, 0, DefaultTTL)
    BY <2>1, Numbers
  <2>2. CASE \E h \in Hours : WithinLimit(r, h) /\ Issue(r, h, Asked(h))
    <3>1. PICK h \in Hours : WithinLimit(r, h) /\ Issue(r, h, Asked(h))
      BY <2>2
    <3>2. h \in Nat /\ h * Hour \in Nat /\ h * Hour \in Int
      BY Numbers, SMT
    <3>3. Asked(h) \in -Half .. Half - 1
      BY <3>2, WrappedRange DEF Asked
    <3>4. h * Hour < Half => Asked(h) = h * Hour
      BY <3>2, NotWrapped DEF Asked
    <3>5. h * Hour < Half => calls[r].role = "admin" \/ h * Hour <= MaxTTL
      BY <3>1, <3>4 DEF WithinLimit
    <3> QED BY <3>1, <3>2, <3>3, <3>4, <3>5
  <2> QED BY <2>1, <2>2 DEF Sign
<1>2. UNCHANGED <<secret, pc, fetched, watcher, queue, tlsCert, failures>>
  BY DEF Sign, processVars
<1>3. calls[r].phase = "signing" /\ calls \in [Requests -> Call]
  BY DEF IInv, TypeOK, Sign
<1>4. /\ calls' \in [Requests -> Call]
      /\ calls'[r].leaf = calls[r].leaf /\ calls'[r].key = calls[r].key
      /\ calls'[r].role = calls[r].role /\ calls'[r].life = life
      /\ calls'[r].asked = hours
      /\ \A s \in Requests \ {r} : calls'[s] = calls[s]
  <2>1. calls[r] \in Call
    BY <1>3
  <2> DEFINE c == [calls[r] EXCEPT !.phase = "issued", !.asked = hours, !.life = life]
  <2>2. /\ c \in Call /\ c.life = life /\ c.asked = hours
        /\ c.leaf = calls[r].leaf /\ c.key = calls[r].key /\ c.role = calls[r].role
    BY <2>1 DEF Call, Phases
  <2>3. calls' = [calls EXCEPT ![r] = c]
    BY <1>1 DEF Issue
  <2> HIDE DEF c
  <2> QED BY <1>3, <2>2, <2>3, CallUpdated
<1>5. \A s \in Requests : Given(s)' => Given(s) /\ calls'[s].leaf = calls[s].leaf
                                                /\ calls'[s].key = calls[s].key
  BY <1>3, <1>4 DEF Given
<1>6. TypeOK'
  BY <1>2, <1>4 DEF IInv, TypeOK
<1>7. CallsSound'
  BY <1>2, <1>5, SMT DEF IInv, CallsSound
<1>8. FollowsSecret'
  BY <1>2 DEF IInv, FollowsSecret
<1>9. LifetimeAllowed'
  <2> SUFFICES ASSUME NEW s \in Requests, calls'[s].phase = "issued",
                      calls'[s].asked # 0, calls'[s].asked * Hour < Half
               PROVE  /\ calls'[s].life = calls'[s].asked * Hour
                      /\ calls'[s].role = "admin" \/ calls'[s].asked * Hour <= MaxTTL
    BY DEF LifetimeAllowed
  <2>1. CASE s = r
    BY <1>1, <1>4, <2>1
  <2>2. CASE s # r
    BY <1>4, <2>2 DEF IInv, LifetimeAllowed
  <2> QED BY <2>1, <2>2
<1> QED BY <1>6, <1>7, <1>8, <1>9 DEF IInv

LEMMA NextInv == IInv /\ [Next]_vars => IInv'
<1> SUFFICES ASSUME IInv, [Next]_vars PROVE IInv'
  OBVIOUS
<1>1. CASE UNCHANGED vars
  BY <1>1 DEF vars, processVars, IInv, TypeOK, CallsSound, FollowsSecret, LifetimeAllowed, Given
<1>2. ASSUME NEW r \in Requests, Handle(r) PROVE IInv'
  BY <1>2, AcceptInv, AnswerInv, SignInv DEF Handle
<1> QED BY <1>1, <1>2, RotateInv, ProcessInv DEF Next, ServiceStep

LEMMA Inductive == Spec => []IInv
<1>1. Init => IInv
  BY InitInv
<1>2. IInv /\ [Next]_vars => IInv'
  BY NextInv
<1> QED BY <1>1, <1>2, PTL DEF Spec

\* The CA a certificate names is the one that signed it (handler.go:93, 159).
THEOREM SignedTheorem == Spec => []SignedByOneCA
<1>1. IInv => SignedByOneCA
  BY DEF IInv, CallsSound, SignedByOneCA, Given
<1> QED BY <1>1, Inductive, PTL

\* Whatever the width of a Duration, the length of an hour and the limit: the
\* hours a request names become that long a life and no other, if they fit, and
\* pass the limit only for an administrator (handler.go:127-133).
THEOREM LifetimeTheorem == Spec => []LifetimeAllowed
<1>1. IInv => LifetimeAllowed
  BY DEF IInv
<1> QED BY <1>1, Inductive, PTL

\* What NeverSignsWithOlder says of one step.
NotOlder ==
    \A r, s \in Requests :
        (/\ calls[r].phase = "new" /\ calls'[r].phase = "signing"
         /\ calls[s].phase \in {"signing", "issued"})
           => calls[s].leaf <= calls'[r].leaf

LEMMA StepNotOlder == IInv /\ [Next]_vars => NotOlder
<1> SUFFICES ASSUME IInv, [Next]_vars,
                    NEW r \in Requests, NEW s \in Requests,
                    calls[r].phase = "new", calls'[r].phase = "signing",
                    calls[s].phase \in {"signing", "issued"}
             PROVE  calls[s].leaf <= calls'[r].leaf
  BY DEF NotOlder
<1>1. calls \in [Requests -> Call]
  BY DEF IInv, TypeOK
<1>2. ASSUME NEW q \in Requests, Accept(q) PROVE calls[s].leaf <= calls'[r].leaf
  <2>1. PICK role \in Roles :
           calls' = [calls EXCEPT ![q] = [NewCall EXCEPT !.phase = "signing",
                        !.role = role, !.leaf = tlsCert, !.key = tlsCert]]
    BY <1>2 DEF Accept
  <2>2. q = r
    BY <1>1, <2>1
  <2>3. calls'[r].leaf = tlsCert
    BY <1>1, <2>1, <2>2, SMT DEF Call, NewCall
  <2> QED BY <1>2, <2>3 DEF Accept, IInv, CallsSound, Given
<1>3. ASSUME NEW q \in Requests, Reject(q) \/ RefuseInput(q) PROVE FALSE
  BY <1>1, <1>3, SMT DEF Reject, RefuseInput, Call
<1>4. ASSUME NEW q \in Requests, Sign(q) PROVE FALSE
  <2>1. \E h, life : Issue(q, h, life)
    BY <1>4 DEF Sign
  <2> QED BY <1>1, <2>1, SMT DEF Issue, Call
<1>5. CASE Exit \/ StartupProbeFails
  BY <1>5 DEF Exit, StartupProbeFails, Down, NewCall
<1>6. CASE calls' = calls
  BY <1>6
<1> QED
  BY <1>2, <1>3, <1>4, <1>5, <1>6 DEF Next, ServiceStep, Process, Handle, Rotate, ReadSecret,
     LoadSecret, NewVerifier, WatchSecret, SecretUpdated, WatchEnds, vars

\* No request is given an older CA than one before it, across rotations, the
\* read, the watch and restarts (main.go:67-91).
THEOREM NotOlderTheorem == Spec => NeverSignsWithOlder
<1>1. IInv /\ [Next]_vars => [NotOlder]_vars
  BY StepNotOlder
<1> QED BY <1>1, Inductive, PTL DEF Spec, NeverSignsWithOlder, NotOlder

-----------------------------------------------------------------------------
(* The service and the controller on one secret *)

CtlProof == INSTANCE Controller_proof WITH
    queue <- reports, pc <- loop, failures <- mishaps, MaxFailures <- MaxMishaps

\* What the proofs about the controller are about is what is composed here.
LEMMA SameController ==
    /\ Ctl!Init = CtlProof!Init
    /\ Ctl!Next = CtlProof!Next
BY DEF
       Ctl!Watches, Ctl!Connections, Ctl!Unusual, Ctl!Contents, Ctl!Version,
       Ctl!Possible, Ctl!clusterVars, Ctl!watchVars, Ctl!loopVars, Ctl!updateVars,
       Ctl!remoteVars, Ctl!vars, Ctl!Connection, Ctl!NoConnection, Ctl!Unset,
       Ctl!FloorRetries, Ctl!Steps, Ctl!FreshProcess, Ctl!Restart, Ctl!Init,
       Ctl!WaitServices, Ctl!StartFails, Ctl!Position, Ctl!FirstReport,
       Ctl!OpenWatch, Ctl!MissingInitialization, Ctl!Skipped, Ctl!StartUpdate,
       Ctl!Receive, Ctl!RetryTick, Ctl!Tenant, Ctl!Answered, Ctl!Fails,
       Ctl!UpdateUnchanged, Ctl!CreateTenant, Ctl!UpdateTenant, Ctl!GetStep,
       Ctl!PutStep, Ctl!AfterConnection, Ctl!Template, Ctl!GetConnection,
       Ctl!Updated, Ctl!UpdateConnection, Ctl!UpdatePolicy, Ctl!RetryPending,
       Ctl!UpdateReturns, Ctl!Panic, Ctl!Settings, Ctl!Enqueued, Ctl!Publish,
       Ctl!Delete, Ctl!CloseWatch, Ctl!KillPod, Ctl!MoveKafka, Ctl!ControllerStep,
       Ctl!Next, CtlProof!Watches, CtlProof!Connections, CtlProof!Unusual,
       CtlProof!Contents, CtlProof!Version, CtlProof!Possible,
       CtlProof!clusterVars, CtlProof!watchVars, CtlProof!loopVars,
       CtlProof!updateVars, CtlProof!remoteVars, CtlProof!vars,
       CtlProof!Connection, CtlProof!NoConnection, CtlProof!Unset,
       CtlProof!FloorRetries, CtlProof!Steps, CtlProof!FreshProcess,
       CtlProof!Restart, CtlProof!Init, CtlProof!WaitServices, CtlProof!StartFails,
       CtlProof!Position, CtlProof!FirstReport, CtlProof!OpenWatch,
       CtlProof!MissingInitialization, CtlProof!Skipped, CtlProof!StartUpdate,
       CtlProof!Receive, CtlProof!RetryTick, CtlProof!Tenant, CtlProof!Answered,
       CtlProof!Fails, CtlProof!UpdateUnchanged, CtlProof!CreateTenant,
       CtlProof!UpdateTenant, CtlProof!GetStep, CtlProof!PutStep,
       CtlProof!AfterConnection, CtlProof!Template, CtlProof!GetConnection,
       CtlProof!Updated, CtlProof!UpdateConnection, CtlProof!UpdatePolicy,
       CtlProof!RetryPending, CtlProof!UpdateReturns, CtlProof!Panic,
       CtlProof!Settings, CtlProof!Enqueued, CtlProof!Publish, CtlProof!Delete,
       CtlProof!CloseWatch, CtlProof!KillPod, CtlProof!MoveKafka,
       CtlProof!ControllerStep, CtlProof!Next

LEMMA ControllerGiven ==
    /\ CtlProof!TenantsAssumption
    /\ CtlProof!BoundsAssumption
    /\ CtlProof!PublishedAssumption
BY TrustAssumption
   DEF Ctl!TenantsAssumption, CtlProof!TenantsAssumption, Ctl!BoundsAssumption,
       CtlProof!BoundsAssumption, Ctl!PublishedAssumption,
       CtlProof!PublishedAssumption, Ctl!Unusual, CtlProof!Unusual,
       Ctl!Watches, CtlProof!Watches, Ctl!Possible, CtlProof!Possible

\* The controller's steps leave the service alone, and the secret changes as it
\* does without a controller.
LEMMA ServiceAlone == TrustSpec => Spec
<1>1. TrustInit => Init
  BY DEF TrustInit
<1>2. [TrustNext]_trustVars => [Next]_vars
  BY DEF TrustNext, SecretChanges, ServiceRuns, ControllerRuns, trustVars, Next
<1> QED BY <1>1, <1>2, PTL DEF TrustSpec, Spec

\* The service's steps leave the controller alone, and the secret changes as one
\* of the objects the controller follows.
LEMMA ControllerAlone == TrustSpec => CtlProof!Spec
<1>1. TrustInit => CtlProof!Init
  BY SameController DEF TrustInit
<1>2. [TrustNext]_trustVars => [CtlProof!Next]_(CtlProof!vars)
  <2> SUFFICES ASSUME [TrustNext]_trustVars
               PROVE  CtlProof!Next \/ UNCHANGED CtlProof!vars
    OBVIOUS
  <2>1. CASE SecretChanges
    <3>1. Ctl!Next
      BY <2>1 DEF SecretChanges, Ctl!Next
    <3> QED BY <3>1, SameController
  <2>2. CASE ControllerRuns
    BY <2>2, SameController DEF ControllerRuns
  <2>3. CASE ServiceRuns \/ UNCHANGED trustVars
    <3>1. UNCHANGED controllerVars
      BY <2>3 DEF ServiceRuns, trustVars
    <3> QED BY <3>1 DEF controllerVars, CtlProof!vars, CtlProof!clusterVars,
               CtlProof!watchVars, CtlProof!loopVars, CtlProof!updateVars,
               CtlProof!remoteVars
  <2> QED BY <2>1, <2>2, <2>3 DEF TrustNext
<1> QED BY <1>1, <1>2, PTL DEF TrustSpec, CtlProof!Spec

\* Every variable of both programs keeps its type (handler.go:30-60, main.go:31-73
\* of the controller).
THEOREM TypeCorrectness == TrustSpec => []TrustTypeOK
<1>1. CtlProof!Spec => []CtlProof!TypeOK
  BY CtlProof!TypeCorrectness, ControllerGiven
<1>2. IInv /\ CtlProof!TypeOK => TrustTypeOK
  BY DEF IInv, TrustTypeOK, CtlProof!TypeOK, Ctl!TypeOK, CtlProof!ClusterTypes,
     Ctl!ClusterTypes, CtlProof!LoopTypes, Ctl!LoopTypes, CtlProof!NumberTypes,
     Ctl!NumberTypes, CtlProof!RemoteTypes, Ctl!RemoteTypes, CtlProof!Watches,
     Ctl!Watches, CtlProof!Version, Ctl!Version, CtlProof!Contents, Ctl!Contents,
     CtlProof!Unusual, Ctl!Unusual, CtlProof!Steps, Ctl!Steps,
     CtlProof!Connections, Ctl!Connections, CtlProof!Connection, Ctl!Connection
<1> QED BY <1>1, <1>2, ControllerAlone, ServiceAlone, Inductive, PTL

-----------------------------------------------------------------------------
(* What is at rest agrees *)

LEMMA OneSecret == TrustSpec => []SameSecret
<1>1. TrustInit => SameSecret
  BY DEF TrustInit
<1>2. SameSecret /\ [TrustNext]_trustVars => SameSecret'
  <2> SUFFICES ASSUME SameSecret, [TrustNext]_trustVars PROVE SameSecret'
    OBVIOUS
  <2>1. CASE SecretChanges
    BY <2>1 DEF SecretChanges
  <2>2. CASE ServiceRuns
    <3>1. secret' = secret
      BY <2>2 DEF ServiceRuns, ServiceStep, Process, Handle, ReadSecret, LoadSecret,
         NewVerifier, WatchSecret, SecretUpdated, WatchEnds, Exit, StartupProbeFails,
         Accept, Reject, Sign, RefuseInput
    <3>2. cluster' = cluster
      BY <2>2 DEF ServiceRuns, controllerVars
    <3> QED BY <3>1, <3>2 DEF SameSecret
  <2>3. CASE ControllerRuns
    BY <2>3 DEF ControllerRuns, vars, SameSecret
  <2>4. CASE UNCHANGED trustVars
    BY <2>4 DEF trustVars, controllerVars, vars, SameSecret
  <2> QED BY <2>1, <2>2, <2>3, <2>4 DEF TrustNext
<1> QED BY <1>1, <1>2, PTL DEF TrustSpec

\* An open watch of the service still has a key pair on its way, or delivered it.
ServiceDelivered ==
    watcher = "open" /\ secret.val = "pair" =>
        IF queue = <<>> THEN tlsCert = secret.ver
                        ELSE queue[Len(queue)] = secret

LEMMA DeliveredStep == IInv /\ ServiceDelivered /\ [Next]_vars => ServiceDelivered'
<1> SUFFICES ASSUME IInv, ServiceDelivered, [Next]_vars,
                    watcher' = "open", secret'.val = "pair"
             PROVE  IF queue' = <<>> THEN tlsCert' = secret'.ver
                                     ELSE queue'[Len(queue')] = secret'
  BY DEF ServiceDelivered
<1>1. queue \in Seq(Secret) /\ secret \in Secret
  BY DEF IInv, TypeOK
<1>2. CASE Rotate
  <2>1. watcher = "open" /\ queue' = queue \o <<secret'>>
    BY <1>2 DEF Rotate, Reported
  <2>2. secret' \in Secret
    BY <1>2, RotateInv DEF IInv, TypeOK
  <2>3. queue' # <<>> /\ queue'[Len(queue')] = secret'
    BY <1>1, <2>1, <2>2, SMT
  <2> QED BY <2>3
<1>3. CASE WatchSecret
  <2>1. secret' = secret /\ queue' = <<secret>>
    BY <1>3 DEF WatchSecret, Reported
  <2> QED BY <2>1
<1>4. CASE SecretUpdated
  <2>1. /\ queue # <<>> /\ queue' = Tail(queue) /\ watcher = "open"
        /\ secret' = secret /\ secret.val = "pair" /\ queue[Len(queue)] = secret
    BY <1>4 DEF SecretUpdated, ServiceDelivered
  <2>2. CASE Len(queue) = 1
    <3>1. queue' = <<>> /\ Head(queue) = secret
      BY <1>1, <2>1, <2>2, SMT
    <3> QED BY <1>4, <2>1, <3>1 DEF SecretUpdated, Loaded
  <2>3. CASE Len(queue) # 1
    <3>1. /\ Len(queue) \in Nat /\ Len(queue') = Len(queue) - 1 /\ Len(queue') # 0
          /\ \A i \in 1 .. Len(queue') : queue'[i] = queue[i + 1]
      BY <1>1, <2>1, <2>3, SMT
    <3>2. Len(queue') \in 1 .. Len(queue') /\ Len(queue') + 1 = Len(queue)
      BY <3>1, SMT
    <3>3. queue' # <<>>
      <4>1. queue' = <<>> => Len(queue') = 0
        OBVIOUS
      <4> QED BY <3>1, <4>1
    <3> QED BY <2>1, <3>1, <3>2, <3>3
  <2> QED BY <2>2, <2>3
<1>5. CASE UNCHANGED <<secret, watcher, queue, tlsCert>>
  BY <1>5 DEF ServiceDelivered
<1>6. CASE LoadSecret \/ WatchEnds \/ Exit \/ StartupProbeFails
  BY <1>6 DEF LoadSecret, WatchEnds, Exit, StartupProbeFails, Down
<1>7. CASE ReadSecret \/ NewVerifier \/ \E r \in Requests : Handle(r)
  BY <1>5, <1>7 DEF ReadSecret, NewVerifier, Handle, Accept, Reject, Sign,
     RefuseInput, processVars
<1> QED
  BY <1>2, <1>3, <1>4, <1>5, <1>6, <1>7
     DEF Next, ServiceStep, Process, vars, processVars

LEMMA DeliveredInv == Spec => []ServiceDelivered
<1>1. Init => ServiceDelivered
  BY DEF Init, ServiceDelivered
<1> QED BY <1>1, DeliveredStep, Inductive, PTL DEF Spec

\* However many tenants, versions, failures and restarts: when both programs have
\* been told everything and have nothing left to do, Hono trusts the CA that the
\* service signs with (main.go:67-91 of the service, main.go:309-377 of the
\* controller).
THEOREM AnchorsQuietTheorem == TrustSpec => []AnchorsQuiet
<1>1. CtlProof!Spec => []CtlProof!QuietMeansSynced
  BY CtlProof!QuietTheorem, ControllerGiven
<1>2. SameSecret /\ ServiceDelivered /\ CtlProof!QuietMeansSynced => AnchorsQuiet
  <2> SUFFICES ASSUME SameSecret, ServiceDelivered, CtlProof!QuietMeansSynced,
                      AllUsable, watcher = "open", queue = <<>>,
                      loop = "idle", ~retry,
                      \A w \in Ctl!Watches : watch[w] = "open" /\ reports[w] = <<>>
               PROVE  tlsCert = Anchor
    BY DEF AnchorsQuiet
  <2>1. tlsCert = secret.ver
    BY DEF ServiceDelivered, AllUsable
  <2>2. CtlProof!Applied(cluster)
    BY DEF CtlProof!QuietMeansSynced, AllUsable, Ctl!Usable, CtlProof!Usable,
       Ctl!Watches, CtlProof!Watches
  <2>3. Anchor = cluster["trust"].ver
    BY <2>2 DEF Anchor, CtlProof!Applied
  <2> QED BY <2>1, <2>3 DEF SameSecret
<1> QED BY <1>1, <1>2, ControllerAlone, ServiceAlone, OneSecret, DeliveredInv, PTL

\* What is proved of each program alone holds of the two on one secret: the
\* three properties of the service, and of the controller that a success has
\* written everything (handler.go:93-168, main.go:67-91; main.go:180-226 of the
\* controller).
THEOREM TogetherTheorem ==
    TrustSpec => /\ []SignedByOneCA
                 /\ []LifetimeAllowed
                 /\ NeverSignsWithOlder
                 /\ []Ctl!SuccessMeansApplied
<1>1. CtlProof!Spec => []CtlProof!SuccessMeansApplied
  BY CtlProof!SuccessTheorem, ControllerGiven
<1>2. CtlProof!SuccessMeansApplied => Ctl!SuccessMeansApplied
  BY DEF CtlProof!SuccessMeansApplied, Ctl!SuccessMeansApplied, CtlProof!Applied,
     Ctl!Applied, CtlProof!ConnectionApplied, Ctl!ConnectionApplied,
     CtlProof!Connections, Ctl!Connections
<1> QED
  BY <1>1, <1>2, ControllerAlone, ServiceAlone, SignedTheorem, LifetimeTheorem,
     NotOlderTheorem, PTL
=============================================================================
