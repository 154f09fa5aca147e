--------------------------- MODULE KeycloakConfig ---------------------------
(***************************************************************************)
(* The job that configures Keycloak after every installation and upgrade   *)
(* (src/images/keycloak-config/setup.sh, run by the hook of                *)
(* charts/dt4mob/templates/keycloak/config-job.yaml).  The script makes    *)
(* sure of one object after another; any command may fail, and its pod may *)
(* die between any two of them.  The job then starts a new pod, which runs *)
(* the whole script again.                                                 *)
(***************************************************************************)
EXTENDS Naturals, Sequences

CONSTANTS
    Objects,       \* the realm, the client and its roles, in the script's order
    Accounts,      \* the names in SYSTEM_ACCOUNTS, in order
    BackoffLimit,  \* of the job: pods that may fail before it gives up
    MaxFailures,   \* bound: commands that fail, pods that die
    MaxReleases,   \* bound: installations and upgrades
    MaxDeletions   \* bound: secrets deleted by an operator

Elements(s) == {s[i] : i \in 1 .. Len(s)}
Names == Elements(Accounts)

\* What the job is given.
SetupAssumption ==
    /\ Objects \in Seq(STRING)
    /\ Accounts \in Seq(STRING)
    /\ Len(Objects) >= 2
    /\ Objects[1] = "realm"
    /\ Objects[2] = "client"
    /\ Len(Accounts) >= 1
    /\ {BackoffLimit, MaxFailures, MaxReleases, MaxDeletions} \subseteq Nat

VARIABLES
    job,        \* "none", "active", "succeeded" or "failed"
    attempts,   \* pods of this job that failed
    line,       \* where the script is, or "off" without a pod
    position,   \* the object or account it is at
    found,      \* what the last get said
    made,       \* the objects Keycloak has
    users, members,  \* the accounts it has, and those with the service role
    password,   \* the password Keycloak has for each account, or NoPassword
    secret,     \* the password in each account's Kubernetes secret
    generated,  \* passwords generated so far; the last is ACCOUNT_PASSWORD
    cut,        \* history: accounts whose secret an attempt left unfinished
    failed, releases, deletions

jobVars == <<job, attempts, releases>>
scriptVars == <<line, position, found, generated>>
keycloakVars == <<made, users, members, password>>
vars == <<jobVars, scriptVars, keycloakVars, secret, cut, failed, deletions>>

NoPassword == 0
Object == Objects[position]
Account == Accounts[position]

TypeOK ==
    /\ job \in {"none", "active", "succeeded", "failed"}
    /\ line \in {"off", "rollout", "get", "create", "update", "profile", "getUser",
                 "createUser", "addRole", "getSecret", "createSecret", "setPassword"}
    /\ position \in Nat
    /\ found \in BOOLEAN
    /\ made \subseteq Elements(Objects)
    /\ users \subseteq Names
    /\ members \subseteq users
    /\ password \in [Names -> Nat]
    /\ secret \in [Names -> Nat]
    /\ cut \subseteq Names
    /\ {attempts, generated, failed, releases, deletions} \subseteq Nat

Init ==
    /\ job = "none"
    /\ attempts = 0
    /\ line = "off"
    /\ position = 0
    /\ found = FALSE
    /\ made = {}
    /\ users = {}
    /\ members = {}
    /\ password = [a \in Names |-> NoPassword]
    /\ secret = [a \in Names |-> NoPassword]
    /\ generated = 0
    /\ cut = {}
    /\ failed = 0
    /\ releases = 0
    /\ deletions = 0

-----------------------------------------------------------------------------
(* The job *)

\* Helm runs the hook; a job that failed has been cleared away by then.
Release ==
    /\ job # "active"
    /\ releases < MaxReleases
    /\ releases' = releases + 1
    /\ job' = "active"
    /\ attempts' = 0
    /\ UNCHANGED <<scriptVars, keycloakVars, secret, cut, failed, deletions>>

StartPod ==
    /\ job = "active"
    /\ line = "off"
    /\ line' = "rollout"
    /\ UNCHANGED <<jobVars, position, found, generated, keycloakVars, secret, cut,
                   failed, deletions>>

\* set -e: the script ends with the first command that fails.
PodFails ==
    /\ line' = "off"
    /\ position' = 0
    /\ found' = FALSE
    /\ attempts' = attempts + 1
    /\ job' = IF attempts >= BackoffLimit THEN "failed" ELSE job
    /\ UNCHANGED <<releases, generated>>

Fails ==
    /\ failed < MaxFailures
    /\ failed' = failed + 1

Continues(next, at) ==
    /\ line' = next
    /\ position' = at
    /\ UNCHANGED <<jobVars, generated, failed>>

\* A command had its effect: the script goes on, or the pod learns nothing of it.
Then(next, at) ==
    \/ Continues(next, at) /\ UNCHANGED found
    \/ Fails /\ PodFails

\* A command that fails without effect, or a pod that dies before it.
Dies ==
    /\ line # "off"
    /\ Fails
    /\ PodFails
    /\ cut' = IF line = "setPassword" THEN cut \cup {Account} ELSE cut
    /\ UNCHANGED <<keycloakVars, secret, deletions>>

-----------------------------------------------------------------------------
(* The realm, the client and the roles *)

Rollout ==
    /\ line = "rollout"
    /\ Continues("get", 1)
    /\ UNCHANGED <<found, keycloakVars, secret, cut, deletions>>

\* Mutant: a get that fails is taken for an answer.
Trusting(o) == {o \in made} \cup {TRUE}

\* A failing get reads like a missing object (setup.sh:13, 20, 41, 53).
Answers(o) == {o \in made} \cup {FALSE}

Misread(answer, truth) == IF answer = truth THEN UNCHANGED failed ELSE Fails

Get ==
    /\ line = "get"
    /\ found' \in Answers(Object)
    /\ Misread(found', Object \in made)
    /\ line' = IF found' THEN "update" ELSE "create"
    /\ UNCHANGED <<jobVars, position, generated, keycloakVars, secret, cut, deletions>>

\* After an object comes the next, or the first account.
NextObject ==
    IF position < Len(Objects) THEN Then("get", position + 1) ELSE Then("getUser", 1)

AfterObject == IF Object = "realm" THEN Then("profile", position) ELSE NextObject

Create ==
    /\ line = "create"
    /\ Object \notin made
    /\ made' = made \cup {Object}
    /\ AfterObject
    /\ UNCHANGED <<users, members, password, secret, cut, deletions>>

\* Keycloak refuses to create what exists.
CreateConflicts ==
    /\ line = "create"
    /\ Object \in made
    /\ PodFails
    /\ UNCHANGED <<keycloakVars, secret, cut, failed, deletions>>

\* Only the client is written again; the others are left as they are.
Update ==
    /\ line = "update"
    /\ AfterObject
    /\ UNCHANGED <<keycloakVars, secret, cut, deletions>>

\* The realm's user profile loses its required attributes.
Profile ==
    /\ line = "profile"
    /\ NextObject
    /\ UNCHANGED <<keycloakVars, secret, cut, deletions>>

-----------------------------------------------------------------------------
(* The system accounts *)

\* Mutant: another account's name matches.
GetAnyUser ==
    /\ line = "getUser"
    /\ Continues("addRole", position)
    /\ UNCHANGED <<found, keycloakVars, secret, cut, deletions>>

GetUser ==
    /\ line = "getUser"
    /\ Continues(IF Account \in users THEN "addRole" ELSE "createUser", position)
    /\ UNCHANGED <<found, keycloakVars, secret, cut, deletions>>

CreateUser ==
    /\ line = "createUser"
    /\ users' = users \cup {Account}
    /\ Then("addRole", position)
    /\ UNCHANGED <<made, members, password, secret, cut, deletions>>

AddRole ==
    /\ line = "addRole"
    /\ members' = members \cup {Account}
    /\ Then("getSecret", position)
    /\ UNCHANGED <<made, users, password, secret, cut, deletions>>

Succeeds ==
    /\ job' = "succeeded"
    /\ line' = "off"
    /\ position' = 0
    /\ found' = FALSE
    /\ UNCHANGED <<attempts, releases, generated, failed>>

NextAccount ==
    IF position < Len(Accounts)
      THEN Continues("getUser", position + 1) /\ UNCHANGED found ELSE Succeeds

\* An account with a secret is done; kubectl fails if there is none, or for
\* another reason.  The pipe that generates a password may fail as a whole: head
\* ends it while tr still writes (set -o pipefail).
GetSecret ==
    /\ line = "getSecret"
    /\ \/ secret[Account] # NoPassword /\ NextAccount
       \/ /\ IF secret[Account] = NoPassword THEN UNCHANGED failed ELSE Fails
          /\ \/ /\ line' = "createSecret"
                /\ generated' = generated + 1
                /\ UNCHANGED <<jobVars, position, found>>
             \/ PodFails
    /\ UNCHANGED <<keycloakVars, secret, cut, deletions>>

\* Mutant: what exists is kept, and the script goes on.
KeepSecret ==
    /\ line = "createSecret"
    /\ secret' = IF secret[Account] = NoPassword
                   THEN [secret EXCEPT ![Account] = generated] ELSE secret
    /\ Continues("setPassword", position)
    /\ UNCHANGED <<found, cut, keycloakVars, deletions>>

CreateSecret ==
    /\ line = "createSecret"
    /\ \/ /\ secret[Account] = NoPassword
          /\ secret' = [secret EXCEPT ![Account] = generated]
          /\ \/ Continues("setPassword", position) /\ UNCHANGED <<found, cut>>
             \/ Fails /\ PodFails /\ cut' = cut \cup {Account}
       \/ /\ secret[Account] # NoPassword
          /\ PodFails
          /\ UNCHANGED <<secret, cut, failed>>
    /\ UNCHANGED <<keycloakVars, deletions>>

\* Mutant: a failure to set the password is ignored.
SetPasswordOrNot ==
    /\ line = "setPassword"
    /\ \/ password' = [password EXCEPT ![Account] = generated] /\ NextAccount
       \/ UNCHANGED password /\ NextAccount
    /\ UNCHANGED <<made, users, members, secret, cut, deletions>>

SetPassword ==
    /\ line = "setPassword"
    /\ password' = [password EXCEPT ![Account] = generated]
    /\ cut' = cut \ {Account}
    /\ \/ NextAccount
       \/ Fails /\ PodFails
    /\ UNCHANGED <<made, users, members, secret, deletions>>

-----------------------------------------------------------------------------
\* An operator deletes a secret to have it made anew.
DeleteSecret(a) ==
    /\ deletions < MaxDeletions
    /\ deletions' = deletions + 1
    /\ secret[a] # NoPassword
    /\ secret' = [secret EXCEPT ![a] = NoPassword]
    /\ UNCHANGED <<jobVars, scriptVars, keycloakVars, cut, failed>>

ScriptStep ==
    \/ StartPod
    \/ Rollout
    \/ Get
    \/ Create
    \/ CreateConflicts
    \/ Update
    \/ Profile
    \/ GetUser
    \/ CreateUser
    \/ AddRole
    \/ GetSecret
    \/ CreateSecret
    \/ SetPassword

Next ==
    \/ Release
    \/ ScriptStep
    \/ Dies
    \/ \E a \in Names : DeleteSecret(a)

Spec == Init /\ [][Next]_vars

-----------------------------------------------------------------------------
(* Correctness *)

Works(a) == password[a] = secret[a]

\* A secret holds the password Keycloak has, unless the pod that created it is
\* about to set it or died before it did (setup.sh:76-82): no failing command
\* and no repetition of the script makes a working secret wrong.
SecretsWork ==
    \A a \in Names :
        secret[a] # NoPassword =>
            \/ Works(a)
            \/ a \in cut
            \/ line = "setPassword" /\ Account = a

\* A job that succeeded left nothing out, in whichever attempts it was done
\* (setup.sh:13-83).
SuccessIsComplete ==
    job = "succeeded" =>
        /\ made = Elements(Objects)
        /\ members = Names
        /\ deletions = 0 => \A a \in Names : secret[a] # NoPassword
=============================================================================
