--------------------------- MODULE SystemAccounts ---------------------------
(***************************************************************************)
(* The set-up job and the garbage collector together.  The job makes the   *)
(* collector's Keycloak account and the Kubernetes secret with its         *)
(* password; the collector's pod mounts that secret, reads it once when    *)
(* its process starts (auth/__init__.py:18-23, settings/auth.py:44-58),    *)
(* and logs in with what it read for as long as the process runs.          *)
(***************************************************************************)
EXTENDS LeaseTimes, Sequences

CONSTANTS
    Objects, Accounts, BackoffLimit, MaxFailures, MaxReleases, MaxDeletions,
    Collector   \* the collector's name among Accounts

VARIABLES
    job, attempts, line, position, found, made, users, members, password,
    secret, generated, cut, failed, releases, deletions,
    now, main, sent, expires, halfLife, lease, supervisor, since, wake, fresh,
    errors,
    mounted     \* the password the collector's process read, or 0

setupVars == <<job, attempts, line, position, found, made, users, members,
               password, secret, generated, cut, failed, releases, deletions>>
leaseVars == <<now, main, sent, expires, halfLife, lease, supervisor, since, wake,
               fresh, errors>>
vars == <<setupVars, leaseVars, mounted>>

Setup == INSTANCE KeycloakConfig

\* Keycloak compares the password a process sends with the one it has.
CredentialsAccepted ==
    Collector \in users /\ mounted # 0 /\ mounted = password[Collector]

Lease == INSTANCE TokenLease WITH accepted <- CredentialsAccepted

ASSUME CollectorAssumption ==
    /\ Setup!SetupAssumption
    /\ Collector \in Setup!Names

TypeOK == Setup!TypeOK /\ Lease!TypeOK /\ mounted \in Nat

Init == Setup!Init /\ Lease!Init /\ mounted = 0

SetupRuns == Setup!Next /\ UNCHANGED <<leaseVars, mounted>>

\* A pod waits for the secret it mounts.
CollectorStarts ==
    /\ secret[Collector] # Setup!NoPassword
    /\ Lease!Begin
    /\ mounted' = secret[Collector]
    /\ UNCHANGED setupVars

CollectorRuns ==
    /\ Lease!RunStep
    /\ mounted' = IF main' = "off" THEN 0 ELSE mounted
    /\ UNCHANGED setupVars

Next == SetupRuns \/ CollectorStarts \/ CollectorRuns

Spec == Init /\ [][Next]_vars

\* The job's pods run their commands, the cron job starts one run after the
\* other, and calls return.
Fairness ==
    /\ WF_vars(Setup!ScriptStep /\ UNCHANGED <<leaseVars, mounted>>)
    /\ WF_vars(CollectorStarts)
    /\ WF_vars(CollectorRuns /\ main \notin {"off", "loop"})

FairSpec == Spec /\ Fairness

-----------------------------------------------------------------------------
(* Correctness *)

SecretsWork == Setup!SecretsWork
SuccessIsComplete == Setup!SuccessIsComplete
LeaseHolds == Lease!LeaseHolds
CachedTokenUsable == Lease!CachedTokenUsable

\* A collector is turned away only with a password that the job has not set
\* yet, never set, or replaced since the process read it (setup.sh:76-82,
\* auth/__init__.py:18-23).
RefusedForAReason ==
    main # "off" /\ ~CredentialsAccepted =>
        \/ mounted # secret[Collector]
        \/ Collector \in cut
        \/ line = "setPassword" /\ Setup!Account = Collector

\* A process that is let in stays in as long as it runs, whatever the job fails at
\* and repeats meanwhile, unless the secret it read is replaced or taken away
\* (setup.sh:75-82, auth/__init__.py:18-23).
StaysIn ==
    [][main # "off" /\ main' # "off" /\ CredentialsAccepted
         => CredentialsAccepted' \/ mounted # secret'[Collector]]_vars

\* After a job that succeeded, the next run of the collector that begins, or a
\* later one, gets its socket, unless the job had left the password unset or an
\* operator takes the secret away (setup.sh:62-83, ditto_api.py:97-105).
CollectorGetsIn ==
    job = "succeeded" /\ main = "off" /\ Collector \notin cut
        ~> \/ lease # Lease!None
           \/ Collector \in cut
           \/ secret[Collector] = Setup!NoPassword
=============================================================================
