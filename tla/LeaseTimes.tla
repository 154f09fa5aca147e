----------------------------- MODULE LeaseTimes -----------------------------
(***************************************************************************)
(* The times, in seconds, that decide whether the lease of the garbage     *)
(* collector's WebSocket is prolonged in time (auth/__init__.py,           *)
(* ditto_api.py:39-61).                                                    *)
(***************************************************************************)
EXTENDS Integers

CONSTANTS
    Lifetime,   \* expires_in: how long Keycloak lets a token live
    MinSleep,   \* ditto_api.py:46
    Margin,     \* ditto_api.py:46
    Latency,    \* what one call to Keycloak or Ditto may take
    MaxTime,    \* bound: the clock
    MaxErrors   \* bound: calls that fail for no fault of the credentials

\* The supervisor sleeps, refreshes and pushes; the token it pushes and the
\* half-life it sleeps by are each up to two calls old.
ASSUME LifetimeAssumption ==
    /\ {Lifetime, MinSleep, Margin, Latency, MaxTime, MaxErrors} \subseteq Nat
    /\ MinSleep + 4 * Latency < Lifetime
    /\ 4 * Latency < Lifetime - Lifetime \div 2 + Margin
=============================================================================
