---------------------------- MODULE MCController ----------------------------
(* Instances of Controller for TLC: what is installed and what may change. *)
EXTENDS Controller

\* tls.crt and ca.crt are keys of one secret when CA_SECRET_NAME is not set
\* (main.go:247-249); the other settings have an object each.
SharedSecret ==
    [tls |-> "kafka-user", ca |-> "kafka-user", trust |-> "trust",
     devops |-> "devops", tenant |-> "tenant"]

AllInstalled ==
    [w \in Watches |-> IF w = "tenant" THEN "t1" ELSE "sound"]

AllWatches == Watches
NoWatch == {}
TwoTenants == {"t1", "t2"}
OneTenant == {"t1"}

\* The device side: the tenant is renamed, its trusted CA is replaced.
TenantChanges ==
    [w \in Watches |-> CASE w = "tenant" -> {"t1", "t2"}
                         [] w = "trust" -> {"sound", "bad"}
                         [] OTHER -> {}]
TenantWatch == {"tenant"}
TenantObjects == {"tenant", "trust"}

\* The Kafka side: the client certificate and its CA rotate in one secret.
RotationChanges ==
    [w \in Watches |-> CASE w = "tls" -> {"sound", "bad"}
                         [] w = "ca" -> {"sound", "empty"}
                         [] w = "trust" -> {"sound", "bad"}
                         [] OTHER -> {}]
TlsWatch == {"tls"}
RotationObjects == {"kafka-user", "trust"}
EveryObject == TenantObjects \cup RotationObjects \cup {"devops"}
=============================================================================
