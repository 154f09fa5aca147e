------------------------ MODULE SystemAccounts_proof ------------------------
(***************************************************************************)
(* Theorems about SystemAccounts, for every instance.  The composition     *)
(* lets the set-up job and the collector take their own steps, so what is  *)
(* proved of each alone holds of both together: the collector's module     *)
(* leaves it open when its credentials work, and the job decides it here.  *)
(***************************************************************************)
EXTENDS SystemAccounts, TLAPS

SetupProof == INSTANCE KeycloakConfig_proof
LeaseProof == INSTANCE TokenLease_proof WITH accepted <- CredentialsAccepted

\* What the proofs of the parts are about is what is composed here.
LEMMA SameSetup ==
    /\ Setup!SetupAssumption = SetupProof!SetupAssumption
    /\ Setup!Init = SetupProof!Init
    /\ Setup!Next = SetupProof!Next
BY DEF Setup!SetupAssumption, SetupProof!SetupAssumption, Setup!Init, SetupProof!Init,
       Setup!Elements, Setup!Names, Setup!jobVars, Setup!scriptVars,
       Setup!keycloakVars, Setup!NoPassword, Setup!Object, Setup!Account,
       Setup!Release, Setup!StartPod, Setup!PodFails, Setup!Fails,
       Setup!Continues, Setup!Then, Setup!Dies, Setup!Rollout,
       Setup!Answers, Setup!Misread, Setup!Get, Setup!NextObject,
       Setup!AfterObject, Setup!Create, Setup!CreateConflicts, Setup!Update,
       Setup!Profile, Setup!GetUser, Setup!CreateUser, Setup!AddRole,
       Setup!Succeeds, Setup!NextAccount, Setup!GetSecret,
       Setup!CreateSecret, Setup!SetPassword, Setup!DeleteSecret,
       Setup!ScriptStep, Setup!Next, SetupProof!Elements, SetupProof!Names,
       SetupProof!jobVars, SetupProof!scriptVars, SetupProof!keycloakVars,
       SetupProof!NoPassword, SetupProof!Object, SetupProof!Account,
       SetupProof!Release, SetupProof!StartPod, SetupProof!PodFails,
       SetupProof!Fails, SetupProof!Continues, SetupProof!Then,
       SetupProof!Dies, SetupProof!Rollout, SetupProof!Answers,
       SetupProof!Misread, SetupProof!Get, SetupProof!NextObject,
       SetupProof!AfterObject, SetupProof!Create,
       SetupProof!CreateConflicts, SetupProof!Update, SetupProof!Profile,
       SetupProof!GetUser, SetupProof!CreateUser, SetupProof!AddRole,
       SetupProof!Succeeds, SetupProof!NextAccount, SetupProof!GetSecret,
       SetupProof!CreateSecret, SetupProof!SetPassword,
       SetupProof!DeleteSecret, SetupProof!ScriptStep, SetupProof!Next

LEMMA SameLease ==
    /\ Lease!Init = LeaseProof!Init
    /\ (Lease!Begin \/ Lease!RunStep) = LeaseProof!Next
BY DEF Lease!Init, LeaseProof!Init,
       Lease!tokenVars, Lease!supervisorVars, Lease!None, Lease!Stopped,
       Lease!Tick, Lease!Errs, Lease!Refused, Lease!Recorded, Lease!Granted,
       Lease!Begin, Lease!Login, Lease!Interval, Lease!Asleep,
       Lease!Connect, Lease!Search, Lease!SearchRefreshed, Lease!RunFails,
       Lease!RunEnds, Lease!Wake, Lease!SupervisorRefreshed, Lease!Push,
       Lease!SupervisorEnds, Lease!LeaseExpires, Lease!RunStep, Lease!Next,
       LeaseProof!tokenVars, LeaseProof!supervisorVars, LeaseProof!None,
       LeaseProof!Stopped, LeaseProof!Tick, LeaseProof!Errs,
       LeaseProof!Refused, LeaseProof!Recorded, LeaseProof!Granted,
       LeaseProof!Begin, LeaseProof!Login, LeaseProof!Interval,
       LeaseProof!Asleep, LeaseProof!Connect, LeaseProof!Search,
       LeaseProof!SearchRefreshed, LeaseProof!RunFails, LeaseProof!RunEnds,
       LeaseProof!Wake, LeaseProof!SupervisorRefreshed, LeaseProof!Push,
       LeaseProof!SupervisorEnds, LeaseProof!LeaseExpires,
       LeaseProof!RunStep, LeaseProof!Next

\* The collector's steps leave the job alone.
LEMMA SetupAlone == Spec => SetupProof!Spec
<1>1. Init => SetupProof!Init
  BY SameSetup DEF Init
<1>2. [Next]_vars => [SetupProof!Next]_(SetupProof!vars)
  <2> SUFFICES ASSUME [Next]_vars
               PROVE  SetupProof!Next \/ UNCHANGED SetupProof!vars
    OBVIOUS
  <2>1. CASE SetupRuns
    BY <2>1, SameSetup DEF SetupRuns
  <2>2. CASE CollectorStarts \/ CollectorRuns \/ UNCHANGED vars
    <3>1. UNCHANGED setupVars
      BY <2>2 DEF CollectorStarts, CollectorRuns, vars
    <3> QED BY <3>1 DEF setupVars, SetupProof!vars, SetupProof!jobVars,
               SetupProof!scriptVars, SetupProof!keycloakVars
  <2> QED BY <2>1, <2>2 DEF Next
<1> QED
  BY <1>1, <1>2, PTL DEF Spec, SetupProof!Spec

\* To the collector, the job only makes its credentials work or fail.
LEMMA LeaseAlone == Spec => LeaseProof!Spec
<1>1. Init => LeaseProof!Init
  BY SameLease DEF Init
<1>2. [Next]_vars => [LeaseProof!Next]_(LeaseProof!vars)
  <2> SUFFICES ASSUME [Next]_vars
               PROVE  LeaseProof!Next \/ UNCHANGED LeaseProof!vars
    OBVIOUS
  <2>1. CASE CollectorStarts \/ CollectorRuns
    BY <2>1, SameLease DEF CollectorStarts, CollectorRuns
  <2>2. CASE SetupRuns \/ UNCHANGED vars
    <3>1. UNCHANGED leaseVars
      BY <2>2 DEF SetupRuns, vars
    <3> QED BY <3>1 DEF leaseVars, LeaseProof!vars, LeaseProof!tokenVars,
               LeaseProof!supervisorVars
  <2> QED BY <2>1, <2>2 DEF Next
<1> QED
  BY <1>1, <1>2, PTL DEF Spec, LeaseProof!Spec

LEMMA SetupGiven == SetupProof!SetupAssumption
BY CollectorAssumption, SameSetup

-----------------------------------------------------------------------------
\* What a process has mounted is a password's number.
MountedType == mounted \in Nat

\* Every variable of both parts keeps its type.
THEOREM TypeCorrectness == Spec => []TypeOK
<1>1. SetupProof!Spec => []SetupProof!IInv
  BY SetupProof!InvariantTheorem, SetupGiven
<1>2. SetupProof!IInv => Setup!TypeOK
  BY DEF SetupProof!IInv, SetupProof!TypeOK, Setup!TypeOK, SetupProof!Elements,
         Setup!Elements, SetupProof!Names, Setup!Names
<1>3. LeaseProof!Spec => []LeaseProof!IInv
  BY LeaseProof!Inductive, LifetimeAssumption
<1>4. LeaseProof!IInv => Lease!TypeOK
  BY DEF LeaseProof!IInv, LeaseProof!TypeOK, Lease!TypeOK, LeaseProof!None, Lease!None
<1>5. Init => MountedType
  BY DEF Init, MountedType
<1>6. MountedType /\ SetupProof!IInv /\ [Next]_vars => MountedType'
  <2> SUFFICES ASSUME MountedType, Setup!TypeOK, [Next]_vars PROVE MountedType'
    BY <1>2
  <2>1. mounted' \in {0, mounted, secret[Collector]}
    BY DEF Next, SetupRuns, CollectorStarts, CollectorRuns, vars
  <2>2. secret[Collector] \in Nat
    BY CollectorAssumption DEF Setup!TypeOK
  <2> QED BY <2>1, <2>2 DEF MountedType
<1>7. SetupProof!IInv /\ LeaseProof!IInv /\ MountedType => TypeOK
  BY <1>2, <1>4 DEF TypeOK, MountedType
<1> QED
  BY <1>1, <1>3, <1>5, <1>6, <1>7, SetupAlone, LeaseAlone, PTL DEF Spec

\* Whatever the collector does meanwhile, a secret works unless an attempt was
\* cut off between creating it and setting the password (setup.sh:76-82).
THEOREM SecretsTheorem == Spec => []SecretsWork
<1>1. SetupProof!Spec => []SetupProof!SecretsWork
  BY SetupProof!SecretsTheorem, SetupGiven
<1>2. SetupProof!SecretsWork => SecretsWork
  BY DEF SetupProof!SecretsWork, SecretsWork, Setup!SecretsWork, SetupProof!Names,
         Setup!Names, SetupProof!Elements, Setup!Elements, SetupProof!NoPassword,
         Setup!NoPassword, SetupProof!Works, Setup!Works, SetupProof!Account,
         Setup!Account
<1> QED BY <1>1, <1>2, SetupAlone, PTL

\* A job that succeeded beside a running collector has left nothing out
\* (setup.sh:13-83).
THEOREM CompleteTheorem == Spec => []SuccessIsComplete
<1>1. SetupProof!Spec => []SetupProof!SuccessIsComplete
  BY SetupProof!CompleteTheorem, SetupGiven
<1>2. SetupProof!SuccessIsComplete => SuccessIsComplete
  BY DEF SetupProof!SuccessIsComplete, SuccessIsComplete, Setup!SuccessIsComplete,
         SetupProof!Names, Setup!Names, SetupProof!Elements, Setup!Elements,
         SetupProof!NoPassword, Setup!NoPassword
<1> QED BY <1>1, <1>2, SetupAlone, PTL

\* While the supervisor lives the lease has not ended, also with credentials that
\* stop working during the run (ditto_api.py:39-61).
THEOREM LeaseTheorem == Spec => []LeaseHolds
<1>1. LeaseProof!Spec => []LeaseProof!LeaseHolds
  BY LeaseProof!LeaseTheorem, LifetimeAssumption
<1>2. LeaseProof!LeaseHolds => LeaseHolds
  BY DEF LeaseProof!LeaseHolds, LeaseHolds, Lease!LeaseHolds
<1> QED BY <1>1, <1>2, LeaseAlone, PTL

\* A token handed out from the cache outlives the call it is used for
\* (auth/__init__.py:32-52).
THEOREM TokenTheorem == Spec => []CachedTokenUsable
<1>1. LeaseProof!Spec => []LeaseProof!CachedTokenUsable
  BY LeaseProof!TokenTheorem, LifetimeAssumption
<1>2. LeaseProof!CachedTokenUsable => CachedTokenUsable
  BY DEF LeaseProof!CachedTokenUsable, CachedTokenUsable, Lease!CachedTokenUsable,
         LeaseProof!None, Lease!None
<1> QED BY <1>1, <1>2, LeaseAlone, PTL

-----------------------------------------------------------------------------
\* A running process has read a password.
Mounted == main # "off" => mounted # 0

LEMMA MountedAlways == Spec => []Mounted
<1>1. Init => Mounted
  BY DEF Init, Lease!Init, Mounted
<1>2. Mounted /\ [Next]_vars => Mounted'
  <2> SUFFICES ASSUME Mounted, [Next]_vars PROVE Mounted'
    OBVIOUS
  <2>1. CASE SetupRuns \/ UNCHANGED vars
    BY <2>1 DEF SetupRuns, vars, leaseVars, Mounted
  <2>2. CASE CollectorStarts
    BY <2>2 DEF CollectorStarts, Mounted, Setup!NoPassword
  <2>3. CASE CollectorRuns
    <3>1. main' # "off" => main # "off"
      BY <2>3 DEF CollectorRuns, Lease!RunStep, Lease!Tick, Lease!Login,
         Lease!Connect, Lease!Search, Lease!SearchRefreshed, Lease!RunFails,
         Lease!RunEnds, Lease!Wake, Lease!SupervisorRefreshed, Lease!Push,
         Lease!SupervisorEnds, Lease!LeaseExpires, Lease!Stopped
    <3> QED BY <2>3, <3>1 DEF CollectorRuns, Mounted
  <2> QED BY <2>1, <2>2, <2>3 DEF Next
<1> QED BY <1>1, <1>2, PTL DEF Spec

\* The collector is turned away only with a password that was not set yet, was
\* never set, or was replaced after its process read it (setup.sh:76-82,
\* auth/__init__.py:18-23).
THEOREM RefusedTheorem == Spec => []RefusedForAReason
<1>1. SetupProof!Spec => []SetupProof!SecretsOfMembers
  BY SetupProof!MembersTheorem, SetupGiven
<1>2. SetupProof!Spec => []SetupProof!IInv
  BY SetupProof!InvariantTheorem, SetupGiven
<1>3. SetupProof!IInv => members \subseteq users
  BY DEF SetupProof!IInv, SetupProof!TypeOK
<1>4. ASSUME Mounted, members \subseteq users, SecretsWork, SetupProof!SecretsOfMembers
      PROVE  RefusedForAReason
  <2> SUFFICES ASSUME main # "off", mounted = secret[Collector], Collector \notin cut,
                      ~(line = "setPassword" /\ Setup!Account = Collector)
               PROVE  CredentialsAccepted
    BY DEF RefusedForAReason
  <2>1. mounted # 0 /\ Collector \in Setup!Names
    BY <1>4, CollectorAssumption DEF Mounted
  <2>2. Collector \in users
    BY <1>4, <2>1 DEF SetupProof!SecretsOfMembers, SetupProof!NoPassword,
       SetupProof!Names, Setup!Names, SetupProof!Elements, Setup!Elements
  <2>3. password[Collector] = secret[Collector]
    BY <1>4, <2>1 DEF SecretsWork, Setup!SecretsWork, Setup!Works, Setup!NoPassword
  <2> QED BY <2>1, <2>2, <2>3 DEF CredentialsAccepted
<1> QED BY <1>1, <1>2, <1>3, <1>4, MountedAlways, SecretsTheorem, SetupAlone, PTL

-----------------------------------------------------------------------------
\* The job only sets the password it has just put into the secret.
LEMMA PasswordStep ==
    ASSUME SetupProof!IInv, SetupProof!Next, Collector \in SetupProof!Names
    PROVE  /\ users \subseteq users'
           /\ \/ password'[Collector] = password[Collector]
              \/ secret'[Collector] \in {password'[Collector], 0}
<1> USE DEF SetupProof!keycloakVars
<1>1. CASE SetupProof!SetPassword
  <2>1. /\ line = "setPassword" /\ users' = users /\ secret' = secret
        /\ password' = [password EXCEPT ![SetupProof!Account] = generated]
    BY <1>1 DEF SetupProof!SetPassword
  <2>2. /\ password \in [SetupProof!Names -> Nat]
        /\ secret[SetupProof!Account] \in {generated, 0}
    BY <2>1 DEF SetupProof!IInv, SetupProof!TypeOK, SetupProof!AtAccount,
       SetupProof!NoPassword
  <2>3. CASE SetupProof!Account = Collector
    BY <2>1, <2>2, <2>3
  <2>4. CASE SetupProof!Account # Collector
    BY <2>1, <2>2, <2>4
  <2> QED BY <2>1, <2>3, <2>4
<1>2. CASE ~SetupProof!SetPassword
  <2>1. password' = password /\ users \subseteq users'
    BY <1>2 DEF SetupProof!Next, SetupProof!ScriptStep, SetupProof!Release,
       SetupProof!Dies, SetupProof!DeleteSecret, SetupProof!StartPod,
       SetupProof!Rollout, SetupProof!Get, SetupProof!Create,
       SetupProof!CreateConflicts, SetupProof!Update, SetupProof!Profile,
       SetupProof!GetUser, SetupProof!CreateUser, SetupProof!AddRole,
       SetupProof!GetSecret, SetupProof!CreateSecret
  <2> QED BY <2>1
<1> QED BY <1>1, <1>2

\* A process that is let in stays in while it runs, unless its secret is replaced
\* or taken away: no failure and no repetition of the script changes a password
\* behind the secret's back (setup.sh:75-82, auth/__init__.py:18-23).
THEOREM StaysInTheorem == Spec => StaysIn
<1>1. SetupProof!Spec => []SetupProof!IInv
  BY SetupProof!InvariantTheorem, SetupGiven
<1>2. ASSUME SetupProof!IInv, [Next]_vars
      PROVE  [main # "off" /\ main' # "off" /\ CredentialsAccepted
                => CredentialsAccepted' \/ mounted # secret'[Collector]]_vars
  <2> SUFFICES ASSUME Next, main # "off", main' # "off", CredentialsAccepted,
                      mounted = secret'[Collector]
               PROVE  CredentialsAccepted'
    BY <1>2
  <2>1. CASE SetupRuns
    <3>1. SetupProof!Next /\ mounted' = mounted
      BY <2>1, SameSetup DEF SetupRuns
    <3>2. Collector \in SetupProof!Names
      BY CollectorAssumption DEF SetupProof!Names, Setup!Names, SetupProof!Elements,
         Setup!Elements
    <3>3. /\ users \subseteq users'
          /\ \/ password'[Collector] = password[Collector]
             \/ secret'[Collector] \in {password'[Collector], 0}
      BY <1>2, <3>1, <3>2, PasswordStep
    <3> QED BY <3>1, <3>3 DEF CredentialsAccepted
  <2>2. CASE CollectorStarts
    BY <2>2 DEF CollectorStarts, Lease!Begin
  <2>3. CASE CollectorRuns
    BY <2>3 DEF CollectorRuns, setupVars, CredentialsAccepted
  <2> QED BY <2>1, <2>2, <2>3 DEF Next
<1> QED BY <1>1, <1>2, SetupAlone, PTL DEF Spec, StaysIn
=============================================================================
