-------------------------- MODULE TokenLease_proof --------------------------
(***************************************************************************)
(* For every lifetime, sleep, margin and latency that LifetimeAssumption   *)
(* allows, and whatever Keycloak makes of the credentials, the lease of    *)
(* the WebSocket outlives the supervisor's next push.                      *)
(***************************************************************************)
EXTENDS TokenLease, TLAPS

Half == Lifetime \div 2

\* No call takes longer than Latency, and the supervisor wakes in time.
CallsReturn ==
    /\ main \in {"login", "connect", "refresh"} => sent <= now /\ now <= sent + Latency
    /\ supervisor \in {"refresh", "push"} => since <= now /\ now <= since + Latency
    /\ supervisor = "asleep" => now <= wake

\* The cached token was issued at most a call before its half-life was noted.
TokenAged ==
    /\ halfLife <= now + Half
    /\ expires # None => halfLife - Half - Latency <= expires - Lifetime
    /\ main \notin {"off", "login"} => expires # None
    /\ main = "connect" => sent - Latency + Lifetime <= expires

\* Before connect() there is no supervisor.
SupervisorAfterConnect ==
    supervisor # "none" => main \in {"loop", "refresh"}

\* What is left of the lease covers the calls the supervisor still has to make.
LeaseCovers ==
    /\ supervisor = "asleep" => wake + 2 * Latency < lease
    /\ supervisor = "refresh" => since + 2 * Latency < lease
    /\ supervisor = "push" =>
          /\ since + Latency < lease
          /\ since - Latency + Lifetime <= fresh

IInv == TypeOK /\ CallsReturn /\ TokenAged /\ SupervisorAfterConnect /\ LeaseCovers

LEMMA Numbers ==
    /\ Lifetime \in Nat /\ MinSleep \in Nat /\ Margin \in Nat /\ Latency \in Nat
    /\ MaxTime \in Nat /\ MaxErrors \in Nat
    /\ Half \in Nat
    /\ 2 * Half <= Lifetime
    /\ MinSleep + 4 * Latency < Lifetime
    /\ 4 * Latency < Lifetime - Half + Margin
BY LifetimeAssumption, SMT DEF Half

\* A token that arrives now was issued after its request was sent.
LEMMA GrantedAges ==
    ASSUME NEW from \in Nat, NEW i \in from .. now, now \in Nat,
           now <= from + Latency, Granted(i)
    PROVE  /\ expires' \in Nat /\ halfLife' \in Nat
           /\ expires' # None
           /\ halfLife' = now + Half
           /\ now - Latency + Lifetime <= expires'
           /\ halfLife' - Half - Latency <= expires' - Lifetime
BY Numbers, SMT DEF Granted, Recorded, Half, None

\* The supervisor never sleeps for longer than the lease allows.
LEMMA IntervalBounds ==
    ASSUME now \in Nat, halfLife \in Nat, halfLife <= now + Half
    PROVE  /\ Interval \in Nat
           /\ Interval + 4 * Latency < Lifetime
<1> DEFINE left == halfLife - now - Margin
<1>1. left \in Int /\ left <= Half - Margin
  BY Numbers, SMT
<1>2. CASE left > MinSleep
  <2>1. Interval = left
    BY <1>2 DEF Interval
  <2> QED BY <1>1, <1>2, <2>1, Numbers, SMT
<1>3. CASE ~(left > MinSleep)
  <2>1. Interval = MinSleep
    BY <1>3 DEF Interval
  <2> QED BY <2>1, Numbers, SMT
<1> QED BY <1>2, <1>3

LEMMA InitInv == Init => IInv
BY Numbers, SMT DEF Init, IInv, TypeOK, CallsReturn, TokenAged,
      SupervisorAfterConnect, LeaseCovers, None

LEMMA TickInv == IInv /\ Tick => IInv'
<1> SUFFICES ASSUME IInv, Tick PROVE IInv'
  OBVIOUS
<1> USE Numbers DEF IInv, Tick, tokenVars, supervisorVars
<1>1. TypeOK'
  BY SMT DEF TypeOK
<1>2. CallsReturn'
  BY SMT DEF TypeOK, CallsReturn
<1>3. TokenAged'
  BY SMT DEF TypeOK, TokenAged
<1>4. SupervisorAfterConnect'
  BY DEF SupervisorAfterConnect
<1>5. LeaseCovers'
  BY SMT DEF LeaseCovers
<1> QED BY <1>1, <1>2, <1>3, <1>4, <1>5

LEMMA BeginInv == IInv /\ Begin => IInv'
BY Numbers, SMT DEF IInv, Begin, TypeOK, CallsReturn, TokenAged,
      SupervisorAfterConnect, LeaseCovers, tokenVars, supervisorVars

LEMMA StoppedInv == IInv /\ Stopped /\ errors' \in Nat => IInv'
BY Numbers, SMT DEF IInv, Stopped, TypeOK, CallsReturn, TokenAged,
      SupervisorAfterConnect, LeaseCovers, None

LEMMA LoginInv == IInv /\ Login => IInv'
<1> SUFFICES ASSUME IInv, Login PROVE IInv'
  OBVIOUS
<1>1. PICK i \in sent .. now : Granted(i)
  BY DEF Login
<1>2. sent \in Nat /\ now \in Nat /\ now <= sent + Latency
  BY DEF IInv, TypeOK, CallsReturn, Login
<1>3. /\ expires' \in Nat /\ halfLife' \in Nat /\ expires' # None
      /\ halfLife' = now + Half
      /\ now - Latency + Lifetime <= expires'
      /\ halfLife' - Half - Latency <= expires' - Lifetime
  BY <1>1, <1>2, GrantedAges
<1>4. TypeOK'
  BY <1>2, <1>3, Numbers, SMT DEF IInv, Login, supervisorVars, None,
     TypeOK
<1>5. CallsReturn'
  BY <1>2, <1>3, Numbers, SMT DEF IInv, Login, supervisorVars, None,
     TypeOK, CallsReturn
<1>6. TokenAged'
  <2>1. now' = now
    BY DEF Login
  <2>2. halfLife' <= now' + Half
    <3>1. now \in Nat /\ Half \in Nat /\ halfLife' = now + Half
      BY <1>2, <1>3, Numbers
    <3> QED BY <2>1, <3>1, SMT
  <2>3. /\ main' \notin {"off", "login"} => expires' # None
        /\ main' = "connect" => sent' - Latency + Lifetime <= expires'
    BY <1>2, <1>3, Numbers, SMT DEF Login, IInv, TypeOK, TokenAged
  <2> QED BY <1>3, <2>2, <2>3 DEF TokenAged
<1>7. SupervisorAfterConnect'
  BY <1>2, <1>3, Numbers, SMT DEF IInv, Login, supervisorVars, None,
     TypeOK, SupervisorAfterConnect
<1>8. LeaseCovers'
  BY <1>2, <1>3, Numbers, SMT DEF IInv, Login, supervisorVars, None,
     TypeOK, LeaseCovers
<1> QED BY <1>4, <1>5, <1>6, <1>7, <1>8 DEF IInv

LEMMA AsleepCovers ==
    ASSUME IInv, Asleep, now' = now, now - 2 * Latency + Lifetime <= lease',
           lease' \in Int
    PROVE  /\ now' <= wake' /\ wake' \in Nat /\ since' \in Nat /\ fresh' \in Nat
           /\ wake' + 2 * Latency < lease'
<1>1. now \in Nat /\ halfLife \in Nat /\ halfLife <= now + Half
  BY DEF IInv, TypeOK, TokenAged
<1>2. Interval \in Nat /\ Interval + 4 * Latency < Lifetime
  BY <1>1, IntervalBounds
<1>3. wake' = now + Interval /\ since' = 0 /\ fresh' = 0
  BY DEF Asleep
<1> QED BY <1>1, <1>2, <1>3, Numbers, SMT

LEMMA ConnectInv == IInv /\ Connect => IInv'
<1> SUFFICES ASSUME IInv, Connect PROVE IInv'
  OBVIOUS
<1>1. /\ now \in Nat /\ sent \in Nat /\ expires \in Nat
      /\ now <= sent + Latency
      /\ sent - Latency + Lifetime <= expires
  BY DEF IInv, TypeOK, CallsReturn, TokenAged, Connect, None
<1>2. now - 2 * Latency + Lifetime <= lease' /\ lease' \in Nat
  BY <1>1, Numbers, SMT DEF Connect
<1>3. /\ now' <= wake' /\ wake' \in Nat /\ since' \in Nat /\ fresh' \in Nat
      /\ wake' + 2 * Latency < lease'
  BY <1>2, AsleepCovers DEF Connect
<1>4. supervisor' = "asleep" /\ main' = "loop" /\ sent' = 0 /\ now' = now
      /\ expires' = expires /\ halfLife' = halfLife /\ errors' = errors
  BY DEF Connect, Asleep, tokenVars
<1>5. TypeOK'
  BY <1>1, <1>2, <1>3, <1>4, Numbers, SMT DEF IInv, Connect, None,
     TypeOK
<1>6. CallsReturn'
  BY <1>1, <1>2, <1>3, <1>4, Numbers, SMT DEF IInv, Connect, None,
     TypeOK, CallsReturn
<1>7. TokenAged'
  <2>1. /\ halfLife' <= now' + Half
        /\ halfLife' - Half - Latency <= expires' - Lifetime
    BY <1>1, <1>4, Numbers, SMT DEF IInv, TypeOK, TokenAged, Connect, None
  <2>2. /\ main' \notin {"off", "login"} => expires' # None
        /\ main' = "connect" => sent' - Latency + Lifetime <= expires'
    BY <1>1, <1>4, Numbers, SMT DEF Connect, IInv, TypeOK, TokenAged
  <2> QED BY <2>1, <2>2 DEF TokenAged
<1>8. SupervisorAfterConnect'
  BY <1>1, <1>2, <1>3, <1>4, Numbers, SMT DEF IInv, Connect, None,
     TypeOK, SupervisorAfterConnect
<1>9. LeaseCovers'
  BY <1>3, <1>4, SMT DEF LeaseCovers
<1> QED BY <1>5, <1>6, <1>7, <1>8, <1>9 DEF IInv

LEMMA SearchInv == IInv /\ Search => IInv'
BY Numbers, SMT DEF IInv, Search, TypeOK, CallsReturn, TokenAged,
      SupervisorAfterConnect, LeaseCovers, tokenVars, supervisorVars

LEMMA SearchRefreshedInv == IInv /\ SearchRefreshed => IInv'
<1> SUFFICES ASSUME IInv, SearchRefreshed PROVE IInv'
  OBVIOUS
<1>1. PICK i \in sent .. now : Granted(i)
  BY DEF SearchRefreshed
<1>2. sent \in Nat /\ now \in Nat /\ now <= sent + Latency
  BY DEF IInv, TypeOK, CallsReturn, SearchRefreshed
<1>3. /\ expires' \in Nat /\ halfLife' \in Nat /\ expires' # None
      /\ halfLife' = now + Half
      /\ now - Latency + Lifetime <= expires'
      /\ halfLife' - Half - Latency <= expires' - Lifetime
  BY <1>1, <1>2, GrantedAges
<1>4. TypeOK'
  BY <1>2, <1>3, Numbers, SMT DEF IInv, SearchRefreshed, supervisorVars, None,
     TypeOK
<1>5. CallsReturn'
  BY <1>2, <1>3, Numbers, SMT DEF IInv, SearchRefreshed, supervisorVars, None,
     TypeOK, CallsReturn
<1>6. TokenAged'
  <2>1. now' = now
    BY DEF SearchRefreshed
  <2>2. halfLife' <= now' + Half
    <3>1. now \in Nat /\ Half \in Nat /\ halfLife' = now + Half
      BY <1>2, <1>3, Numbers
    <3> QED BY <2>1, <3>1, SMT
  <2>3. /\ main' \notin {"off", "login"} => expires' # None
        /\ main' = "connect" => sent' - Latency + Lifetime <= expires'
    BY <1>2, <1>3, Numbers, SMT DEF SearchRefreshed, IInv, TypeOK, TokenAged
  <2> QED BY <1>3, <2>2, <2>3 DEF TokenAged
<1>7. SupervisorAfterConnect'
  BY <1>2, <1>3, Numbers, SMT DEF IInv, SearchRefreshed, supervisorVars, None,
     TypeOK, SupervisorAfterConnect
<1>8. LeaseCovers'
  BY <1>2, <1>3, Numbers, SMT DEF IInv, SearchRefreshed, supervisorVars, None,
     TypeOK, LeaseCovers
<1> QED BY <1>4, <1>5, <1>6, <1>7, <1>8 DEF IInv

LEMMA WakeInv == IInv /\ Wake => IInv'
BY Numbers, SMT DEF IInv, Wake, TypeOK, CallsReturn, TokenAged,
      SupervisorAfterConnect, LeaseCovers, tokenVars

LEMMA SupervisorRefreshedInv == IInv /\ SupervisorRefreshed => IInv'
<1> SUFFICES ASSUME IInv, SupervisorRefreshed PROVE IInv'
  OBVIOUS
<1>1. PICK i \in since .. now : Granted(i)
  BY DEF SupervisorRefreshed
<1>2. since \in Nat /\ now \in Nat /\ now <= since + Latency
  BY DEF IInv, TypeOK, CallsReturn, SupervisorRefreshed
<1>3. /\ expires' \in Nat /\ halfLife' \in Nat /\ expires' # None
      /\ halfLife' = now + Half
      /\ now - Latency + Lifetime <= expires'
      /\ halfLife' - Half - Latency <= expires' - Lifetime
  BY <1>1, <1>2, GrantedAges
<1>4. main \in {"loop", "refresh"} /\ lease \in Int /\ since + 2 * Latency < lease
  BY DEF IInv, SupervisorAfterConnect, SupervisorRefreshed, LeaseCovers, TypeOK, None
<1>5. TypeOK'
  BY <1>2, <1>3, <1>4, Numbers, SMT DEF IInv, SupervisorRefreshed, None,
     TypeOK
<1>6. CallsReturn'
  BY <1>2, <1>3, <1>4, Numbers, SMT DEF IInv, SupervisorRefreshed, None,
     TypeOK, CallsReturn
<1>7. TokenAged'
  <2>1. now' = now
    BY DEF SupervisorRefreshed
  <2>2. halfLife' <= now' + Half
    <3>1. now \in Nat /\ Half \in Nat /\ halfLife' = now + Half
      BY <1>2, <1>3, Numbers
    <3> QED BY <2>1, <3>1, SMT
  <2>3. /\ main' \notin {"off", "login"} => expires' # None
        /\ main' = "connect" => sent' - Latency + Lifetime <= expires'
    BY <1>2, <1>3, <1>4, Numbers, SMT DEF SupervisorRefreshed, IInv, TypeOK, TokenAged
  <2> QED BY <1>3, <2>2, <2>3 DEF TokenAged
<1>8. SupervisorAfterConnect'
  BY <1>2, <1>3, <1>4, Numbers, SMT DEF IInv, SupervisorRefreshed, None,
     TypeOK, SupervisorAfterConnect
<1>9. LeaseCovers'
  BY <1>2, <1>3, <1>4, Numbers, SMT DEF IInv, SupervisorRefreshed, None,
     TypeOK, LeaseCovers
<1> QED BY <1>5, <1>6, <1>7, <1>8, <1>9 DEF IInv

LEMMA PushInv == IInv /\ Push => IInv'
<1> SUFFICES ASSUME IInv, Push PROVE IInv'
  OBVIOUS
<1>1. /\ now \in Nat /\ since \in Nat /\ fresh \in Nat
      /\ now <= since + Latency
      /\ since - Latency + Lifetime <= fresh
      /\ main \in {"loop", "refresh"}
  BY DEF IInv, TypeOK, CallsReturn, LeaseCovers, SupervisorAfterConnect, Push
<1>2. now - 2 * Latency + Lifetime <= lease' /\ lease' \in Nat
  BY <1>1, Numbers, SMT DEF Push
<1>3. /\ now' <= wake' /\ wake' \in Nat /\ since' \in Nat /\ fresh' \in Nat
      /\ wake' + 2 * Latency < lease'
  BY <1>2, AsleepCovers DEF Push
<1>4. /\ supervisor' = "asleep"
      /\ UNCHANGED <<now, main, sent, expires, halfLife, errors>>
  BY DEF Push, Asleep, tokenVars
<1>5. TypeOK'
  BY <1>1, <1>2, <1>3, <1>4, Numbers, SMT DEF IInv, Push, None,
     TypeOK
<1>6. CallsReturn'
  BY <1>1, <1>2, <1>3, <1>4, Numbers, SMT DEF IInv, Push, None,
     TypeOK, CallsReturn
<1>7. TokenAged'
  <2>1. /\ halfLife' <= now' + Half
        /\ halfLife' - Half - Latency <= expires' - Lifetime
    BY <1>1, <1>4, Numbers, SMT DEF IInv, TypeOK, TokenAged, Push, None
  <2>2. /\ main' \notin {"off", "login"} => expires' # None
        /\ main' = "connect" => sent' - Latency + Lifetime <= expires'
    BY <1>1, <1>4, Numbers, SMT DEF Push, IInv, TypeOK, TokenAged
  <2> QED BY <2>1, <2>2 DEF TokenAged
<1>8. SupervisorAfterConnect'
  BY <1>1, <1>2, <1>3, <1>4, Numbers, SMT DEF IInv, Push, None,
     TypeOK, SupervisorAfterConnect
<1>9. LeaseCovers'
  BY <1>3, <1>4, SMT DEF LeaseCovers
<1> QED BY <1>5, <1>6, <1>7, <1>8, <1>9 DEF IInv

LEMMA SupervisorEndsInv == IInv /\ SupervisorEnds => IInv'
BY Numbers, SMT DEF IInv, SupervisorEnds, Refused, Errs, TypeOK, CallsReturn,
      TokenAged, SupervisorAfterConnect, LeaseCovers, tokenVars

LEMMA HoldsLease == IInv => LeaseHolds
BY Numbers, SMT DEF IInv, LeaseHolds, TypeOK, CallsReturn, LeaseCovers, None

LEMMA LeaseExpiresInv == IInv /\ LeaseExpires => IInv'
<1> SUFFICES ASSUME IInv, LeaseExpires PROVE IInv'
  OBVIOUS
<1>1. supervisor \notin {"asleep", "refresh", "push"}
  BY HoldsLease, SMT DEF LeaseHolds, LeaseExpires, IInv, TypeOK, None
<1> QED BY <1>1, Numbers, SMT DEF IInv, LeaseExpires, TypeOK, CallsReturn, TokenAged,
      SupervisorAfterConnect, LeaseCovers, tokenVars, supervisorVars, None

LEMMA NextInv == IInv /\ [Next]_vars => IInv'
<1> SUFFICES ASSUME IInv, [Next]_vars PROVE IInv'
  OBVIOUS
<1>1. CASE RunFails \/ RunEnds
  <2>1. errors' \in Nat
    BY <1>1, Numbers, SMT DEF RunFails, RunEnds, Refused, Errs, IInv, TypeOK
  <2> QED BY <1>1, <2>1, StoppedInv DEF RunFails, RunEnds
<1>2. CASE UNCHANGED vars
  BY <1>2, SMT DEF vars, tokenVars, supervisorVars, IInv, TypeOK, CallsReturn,
     TokenAged, SupervisorAfterConnect, LeaseCovers
<1> QED
  BY <1>1, <1>2, BeginInv, TickInv, LoginInv, ConnectInv, SearchInv,
     SearchRefreshedInv, WakeInv, SupervisorRefreshedInv, PushInv,
     SupervisorEndsInv, LeaseExpiresInv DEF Next, RunStep

LEMMA Inductive == Spec => []IInv
<1>1. Init => IInv
  BY InitInv
<1>2. IInv /\ [Next]_vars => IInv'
  BY NextInv
<1> QED BY <1>1, <1>2, PTL DEF Spec

\* A live supervisor never lets the lease end (ditto_api.py:39-61), for every
\* lifetime that leaves room for its sleep and four calls.
THEOREM LeaseTheorem == Spec => []LeaseHolds
BY Inductive, HoldsLease, PTL

LEMMA AgedUsable == IInv => CachedTokenUsable
BY Numbers, SMT DEF IInv, CachedTokenUsable, TypeOK, TokenAged, None

\* A token get_token() hands out stays usable on its way (auth/__init__.py:32-52).
THEOREM TokenTheorem == Spec => []CachedTokenUsable
BY Inductive, AgedUsable, PTL

\* connect() opens the socket and starts the supervisor in one step.
SocketSupervised == lease # None => supervisor # "none"

LEMMA SupervisedStep == SocketSupervised /\ [Next]_vars => SocketSupervised'
BY DEF SocketSupervised, Next, RunStep, Begin, Tick, Login, Connect, Search,
       SearchRefreshed, RunFails, RunEnds, Stopped, Wake, SupervisorRefreshed, Push,
       SupervisorEnds, LeaseExpires, Asleep, tokenVars, supervisorVars, vars

\* The lease only ever ends under a socket whose supervisor has ended: what
\* GarbageCollector's LeaseExpires takes for granted (ditto_api.py:39-66).
THEOREM ExpiresTheorem == Spec => [][LeaseExpires => supervisor = "ended"]_vars
<1>1. Init => SocketSupervised
  BY DEF Init, SocketSupervised
<1>2. ASSUME IInv, SocketSupervised, LeaseExpires
      PROVE  supervisor = "ended"
  <2>1. supervisor \notin {"asleep", "refresh", "push"}
    BY <1>2, HoldsLease, SMT DEF LeaseHolds, LeaseExpires, IInv, TypeOK, None
  <2>2. supervisor # "none"
    BY <1>2 DEF LeaseExpires, SocketSupervised
  <2> QED BY <1>2, <2>1, <2>2 DEF IInv, TypeOK
<1>3. IInv /\ SocketSupervised /\ [Next]_vars
          => [LeaseExpires => supervisor = "ended"]_vars
  BY <1>2
<1> QED BY <1>1, <1>3, SupervisedStep, Inductive, PTL DEF Spec
=============================================================================
