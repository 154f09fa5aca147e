----------------------------- MODULE TokenLease -----------------------------
(***************************************************************************)
(* The garbage collector's access token and the lease of its WebSocket     *)
(* (auth/__init__.py, ditto_api.py:35-66, 97-105).  Ditto trusts the       *)
(* socket until the token it was last given expires; a supervisor task is  *)
(* to hand it a fresh one in time, while the searches of main() refresh    *)
(* the same cached token whenever they find it past its half-life.  Time   *)
(* is counted in seconds.                                                  *)
(***************************************************************************)
EXTENDS LeaseTimes

VARIABLES
    accepted,   \* whether Keycloak accepts the collector's credentials
    now,
    main,       \* "off", "login", "connect", "loop" or "refresh"
    sent,       \* when main() sent the request it awaits (0: none, as below)
    expires,    \* when _token really expires, or None
    halfLife,   \* _expires_in
    lease,      \* when Ditto stops trusting the socket, or None without one
    supervisor, \* "none", "asleep", "refresh", "push" or "ended"
    since,      \* when the supervisor sent the request it awaits
    wake,       \* when its sleep ends
    fresh,      \* when the token it pushes expires
    errors

tokenVars == <<expires, halfLife>>
supervisorVars == <<supervisor, since, wake, fresh>>
vars == <<now, main, sent, tokenVars, lease, supervisorVars, errors>>

None == -1

TypeOK ==
    /\ now \in Nat
    /\ main \in {"off", "login", "connect", "loop", "refresh"}
    /\ sent \in Nat
    /\ expires \in Nat \cup {None}
    /\ halfLife \in Nat
    /\ lease \in Nat \cup {None}
    /\ supervisor \in {"none", "asleep", "refresh", "push", "ended"}
    /\ since \in Nat /\ wake \in Nat /\ fresh \in Nat
    /\ errors \in Nat

Init ==
    /\ now = 0
    /\ main = "off"
    /\ sent = 0
    /\ expires = None
    /\ halfLife = 0
    /\ lease = None
    /\ supervisor = "none"
    /\ since = 0
    /\ wake = 0
    /\ fresh = 0
    /\ errors = 0

\* The end of the process takes token, tasks and socket with it; the time of
\* the next run is counted from its start.
Stopped ==
    /\ now' = 0
    /\ main' = "off"
    /\ sent' = 0
    /\ expires' = None
    /\ halfLife' = 0
    /\ lease' = None
    /\ supervisor' = "none"
    /\ since' = 0
    /\ wake' = 0
    /\ fresh' = 0

\* Time passes, unless a call has to return or the supervisor has to wake.
Tick ==
    /\ main # "off"
    /\ now < MaxTime
    /\ main # "loop" => now < sent + Latency
    /\ supervisor = "asleep" => now < wake
    /\ supervisor \in {"refresh", "push"} => now < since + Latency
    /\ now' = now + 1
    /\ UNCHANGED <<main, sent, tokenVars, lease, supervisorVars, errors>>

Errs ==
    /\ errors < MaxErrors
    /\ errors' = errors + 1

\* A refresh that fails: Keycloak refuses the credentials or is not reached.
Refused == (~accepted /\ UNCHANGED errors) \/ Errs

\* Mutant: the half is forgotten.
RecordedInFull == now + Lifetime

\* The end of life refresh() notes down, reckoned from its own clock.
Recorded == now + Lifetime \div 2

\* A token issued at i arrives.
Granted(i) ==
    /\ accepted
    /\ expires' = i + Lifetime
    /\ halfLife' = Recorded

-----------------------------------------------------------------------------
(* main(): connect() and the searches *)

\* A run begins: connect() has no token yet.
Begin ==
    /\ main = "off"
    /\ main' = "login"
    /\ sent' = now
    /\ UNCHANGED <<now, tokenVars, lease, supervisorVars, errors>>

Login ==
    /\ main = "login"
    /\ \E i \in sent .. now : Granted(i)
    /\ main' = "connect"
    /\ sent' = now
    /\ UNCHANGED <<now, lease, supervisorVars, errors>>

\* How long the supervisor sleeps after it looked at the time left.
Interval ==
    LET left == halfLife - now - Margin IN IF left > MinSleep THEN left ELSE MinSleep

Asleep ==
    /\ supervisor' = "asleep"
    /\ since' = 0
    /\ fresh' = 0
    /\ wake' = now + Interval

\* Ditto accepts the socket, and the supervisor starts.
Connect ==
    /\ main = "connect"
    /\ lease' = expires
    /\ main' = "loop"
    /\ sent' = 0
    /\ Asleep
    /\ UNCHANGED <<now, tokenVars, errors>>

\* A search finds the cached token past its half-life.
Search ==
    /\ main = "loop"
    /\ halfLife <= now
    /\ main' = "refresh"
    /\ sent' = now
    /\ UNCHANGED <<now, tokenVars, lease, supervisorVars, errors>>

SearchRefreshed ==
    /\ main = "refresh"
    /\ \E i \in sent .. now : Granted(i)
    /\ main' = "loop"
    /\ sent' = 0
    /\ UNCHANGED <<now, lease, supervisorVars, errors>>

\* Nothing in main() catches an AuthenticationError or a refused connection.
RunFails ==
    /\ \/ main \in {"login", "refresh"} /\ Refused
       \/ main = "connect" /\ Errs
    /\ Stopped

RunEnds ==
    /\ main = "loop"
    /\ Stopped
    /\ UNCHANGED errors

-----------------------------------------------------------------------------
(* _token_refresh_loop() *)

Wake ==
    /\ supervisor = "asleep"
    /\ wake <= now
    /\ supervisor' = "refresh"
    /\ since' = now
    /\ wake' = 0
    /\ UNCHANGED <<now, main, sent, tokenVars, lease, fresh, errors>>

\* Mutant: the supervisor asks for the cached token.
PushesCached ==
    /\ supervisor = "refresh"
    /\ UNCHANGED tokenVars
    /\ fresh' = expires
    /\ supervisor' = "push"
    /\ since' = now
    /\ UNCHANGED <<now, main, sent, lease, wake, errors>>

SupervisorRefreshed ==
    /\ supervisor = "refresh"
    /\ \E i \in since .. now : Granted(i)
    /\ fresh' = expires'
    /\ supervisor' = "push"
    /\ since' = now
    /\ UNCHANGED <<now, main, sent, lease, wake, errors>>

\* Ditto prolongs the lease of the socket.
Push ==
    /\ supervisor = "push"
    /\ lease # None
    /\ lease' = fresh
    /\ Asleep
    /\ UNCHANGED <<now, main, sent, tokenVars, errors>>

\* Any error, or a push into a closed socket, ends the task for good.
SupervisorEnds ==
    /\ \/ supervisor = "refresh" /\ Refused
       \/ supervisor = "push" /\ Errs
       \/ supervisor = "push" /\ lease = None /\ UNCHANGED errors
    /\ supervisor' = "ended"
    /\ since' = 0
    /\ fresh' = 0
    /\ UNCHANGED <<now, main, sent, tokenVars, lease, wake>>

\* Ditto closes the socket when the lease is over.
LeaseExpires ==
    /\ lease # None
    /\ lease <= now
    /\ lease' = None
    /\ UNCHANGED <<now, main, sent, tokenVars, supervisorVars, errors>>

-----------------------------------------------------------------------------
\* What the process and Ditto do once a run has begun.
RunStep ==
    \/ Tick
    \/ Login
    \/ Connect
    \/ Search
    \/ SearchRefreshed
    \/ RunFails
    \/ RunEnds
    \/ Wake
    \/ SupervisorRefreshed
    \/ Push
    \/ SupervisorEnds
    \/ LeaseExpires

\* The credentials may start or stop working at any time.
Next == Begin \/ RunStep

Spec == Init /\ [][Next]_vars

-----------------------------------------------------------------------------
(* Correctness *)

\* While the supervisor lives, Ditto trusts the socket: its sleep, at least
\* five seconds and at most half a lifetime, and the refreshes of searches
\* that move the half-life it sleeps by, never let the lease end first
\* (ditto_api.py:39-61).
LeaseHolds == supervisor \in {"asleep", "refresh", "push"} => now < lease

\* A token that get_token() still hands out does not expire on its way to
\* Ditto, whichever of two concurrent refreshes answered last
\* (auth/__init__.py:32-52).
CachedTokenUsable == expires # None /\ now < halfLife => now + Latency < expires
=============================================================================
