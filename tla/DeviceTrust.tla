---------------------------- MODULE DeviceTrust ----------------------------
(***************************************************************************)
(* The certificate service and the controller, which follow the same       *)
(* Kubernetes secret (charts/dt4mob/values.yaml:20, 33), each with a watch *)
(* of its own: the one signs the devices' certificates with its key pair,  *)
(* the other makes its certificate the trust anchor of Hono's tenant.      *)
(***************************************************************************)
EXTENDS CertificateService

\* MaxVersion bounds the controller as it bounds the service.
CONSTANTS
    Tenants, ObjectOf, Changing, Published, Installed, MAX_RETRIES, Closable,
    MaxMishaps,   \* bound: what fails in the controller
    MaxRestarts

VARIABLES
    cluster, watch, reports, kafka,
    loop,       \* where the controller's main goroutine is
    held, kafkaHost, retries, retry, caller, shouldRetry, connection,
    tenants, conns, policy,
    version, mishaps, restarts

Ctl == INSTANCE Controller WITH
    queue <- reports, pc <- loop, failures <- mishaps, MaxFailures <- MaxMishaps

controllerVars == <<cluster, watch, reports, kafka, loop, held, kafkaHost, retries,
                    retry, caller, shouldRetry, connection, tenants, conns, policy,
                    version, mishaps, restarts>>
trustVars == <<vars, controllerVars>>

ASSUME TrustAssumption ==
    /\ Ctl!TenantsAssumption
    /\ Ctl!BoundsAssumption
    /\ Ctl!PublishedAssumption

TrustTypeOK == TypeOK /\ Ctl!TypeOK

\* One object, of which each program has a view of its own: the service loads
\* tls.crt and tls.key, the controller ca.crt.  The CA is self-signed, so with a
\* key pair comes the same certificate under ca.crt; a content of no use to the
\* service may be of use to the controller, or not.
SameSecret ==
    /\ secret.ver = cluster["trust"].ver
    /\ (secret.val = "none") = (cluster["trust"].val = "none")
    /\ secret.val = "pair" => cluster["trust"].val = "sound"

TrustInit == Init /\ Ctl!Init /\ SameSecret

CASecret == ObjectOf["trust"]

\* cert-manager or an operator changes the secret: both watches see one change.
SecretChanges ==
    /\ Rotate
    /\ CASecret \in Changing
    /\ Ctl!Publish(CASecret) \/ Ctl!Delete(CASecret)
    /\ SameSecret'

ServiceRuns == ServiceStep /\ UNCHANGED controllerVars

\* The controller, or its environment but for the secret.
ControllerRuns ==
    /\ Ctl!Next
    /\ cluster'["trust"] = cluster["trust"]
    /\ UNCHANGED vars

TrustNext == SecretChanges \/ ServiceRuns \/ ControllerRuns

TrustSpec == TrustInit /\ [][TrustNext]_trustVars

-----------------------------------------------------------------------------
(* Correctness *)

\* The CA Hono trusts the devices of the configured tenant by.
Anchor == tenants[cluster["tenant"].val]

AllUsable ==
    /\ secret.val = "pair"
    /\ \A w \in Ctl!Watches : Ctl!Usable(w)

\* When both programs are at rest, with every watch open and delivered and no
\* retry pending, the service signs with the CA that Hono trusts, whatever was
\* rotated, failed or restarted before (main.go:67-91 of the service, main.go:309-377
\* of the controller).
AnchorsQuiet ==
    /\ AllUsable
    /\ watcher = "open" /\ queue = <<>>
    /\ loop = "idle" /\ ~retry
    /\ \A w \in Ctl!Watches : watch[w] = "open" /\ reports[w] = <<>>
    => tlsCert = Anchor
=============================================================================
