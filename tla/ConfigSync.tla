----------------------------- MODULE ConfigSync -----------------------------
(***************************************************************************)
(* What the controller promises its platform: the settings found in Hono   *)
(* and Ditto were published by the cluster, and none is ever replaced by   *)
(* one older than itself, whatever the failures and restarts.              *)
(***************************************************************************)
EXTENDS Naturals

CONSTANTS Tenants, Connections

VARIABLES
    published,  \* the newest version of tls, ca and trust in the cluster
    trusted,    \* the version of trust each Hono tenant holds
    keys        \* the versions of tls and ca each connection holds

vars == <<published, trusted, keys>>

Versions == [tls : Nat, ca : Nat, trust : Nat]
Keys == [tls : Nat, ca : Nat]

TypeOK ==
    /\ published \in Versions
    /\ trusted \in [Tenants -> Nat]
    /\ keys \in [Connections -> [Tenants -> Keys]]

Init ==
    /\ published = [tls |-> 1, ca |-> 1, trust |-> 1]
    /\ trusted = [t \in Tenants |-> 0]
    /\ keys = [c \in Connections |-> [t \in Tenants |-> [tls |-> 0, ca |-> 0]]]

\* The operators replace settings by newer versions.
Publish ==
    /\ published' \in Versions
    /\ \A s \in {"tls", "ca", "trust"} : published'[s] >= published[s]
    /\ UNCHANGED <<trusted, keys>>

\* A tenant's trusted CA moves forward, to a version the cluster has published.
Trust(t) ==
    /\ \E v \in trusted[t] .. published.trust :
          trusted' = [trusted EXCEPT ![t] = v]
    /\ UNCHANGED <<published, keys>>

\* So do the keys of a connection.
Rekey(c, t) ==
    /\ \E tls \in keys[c][t].tls .. published.tls,
          ca \in keys[c][t].ca .. published.ca :
             keys' = [keys EXCEPT ![c][t] = [tls |-> tls, ca |-> ca]]
    /\ UNCHANGED <<published, trusted>>

Next ==
    \/ Publish
    \/ \E t \in Tenants : Trust(t) \/ \E c \in Connections : Rekey(c, t)

Spec == Init /\ [][Next]_vars
=============================================================================
