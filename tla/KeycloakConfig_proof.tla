------------------------ MODULE KeycloakConfig_proof ------------------------
(***************************************************************************)
(* For every list of objects and accounts, and any number of failures,     *)
(* pods, releases and deletions: the script never makes a working secret   *)
(* wrong, and a job that succeeds has done everything.                     *)
(***************************************************************************)
EXTENDS KeycloakConfig, TLAPS

ObjectLines == {"get", "create", "update", "profile"}
AccountLines == {"getUser", "createUser", "addRole", "getSecret", "createSecret",
                 "setPassword"}

Done(a) == a \in members /\ (deletions = 0 => secret[a] # NoPassword)

\* The script has a place in one of its two lists, and has done what is before it.
Place ==
    /\ line # "off" => job = "active"
    /\ line \in ObjectLines =>
          /\ position \in 1 .. Len(Objects)
          /\ \A i \in 1 .. position - 1 : Objects[i] \in made
    /\ line \in {"update", "profile"} => Object \in made
    /\ line \in AccountLines =>
          /\ position \in 1 .. Len(Accounts)
          /\ made = Elements(Objects)
          /\ \A i \in 1 .. position - 1 : Done(Accounts[i])

\* What has been done for the account it is at.
AtAccount ==
    /\ line = "addRole" => Account \in users
    /\ line \in {"getSecret", "createSecret", "setPassword"} => Account \in members
    /\ line \in {"createSecret", "setPassword"} => generated # NoPassword
    /\ line = "setPassword" =>
          /\ secret[Account] \in {generated, NoPassword}
          /\ deletions = 0 => secret[Account] # NoPassword

IInv ==
    /\ TypeOK
    /\ Place
    /\ AtAccount
    /\ SecretsWork
    /\ SuccessIsComplete

\* The types of the variables, one by one.
LEMMA Types ==
    ASSUME TypeOK
    PROVE  /\ attempts \in Nat /\ generated \in Nat /\ failed \in Nat
           /\ releases \in Nat /\ deletions \in Nat
  BY DEF TypeOK

LEMMA Lists ==
    ASSUME SetupAssumption
    PROVE  /\ Len(Objects) \in Nat /\ Len(Objects) >= 1
           /\ Len(Accounts) \in Nat /\ Len(Accounts) >= 1
           /\ \A i \in 1 .. Len(Objects) : Objects[i] \in Elements(Objects)
           /\ \A i \in 1 .. Len(Accounts) : Accounts[i] \in Names
           /\ \A a \in Names : \E i \in 1 .. Len(Accounts) : Accounts[i] = a
           /\ \A o \in Elements(Objects) : \E i \in 1 .. Len(Objects) : Objects[i] = o
  BY SMT DEF SetupAssumption, Names, Elements

LEMMA InitInv == ASSUME SetupAssumption, Init PROVE IInv
<1>1. TypeOK
  <2>1. password \in [Names -> Nat] /\ secret \in [Names -> Nat]
    BY SMT DEF Init, NoPassword
  <2>2. {attempts, generated, failed, releases, deletions} \subseteq Nat /\ position \in Nat
    BY SMT DEF Init
  <2> QED BY <2>1, <2>2 DEF Init, TypeOK
<1>2. Place /\ AtAccount /\ SecretsWork /\ SuccessIsComplete
  BY DEF Init, Place, AtAccount, SecretsWork, SuccessIsComplete, ObjectLines, AccountLines
<1> QED BY <1>1, <1>2 DEF IInv

\* A pod that ends leaves no place, and nothing is claimed of its job.
LEMMA PodFailsInv ==
    ASSUME TypeOK, PodFails, job = "active", failed' \in Nat, deletions' \in Nat,
           made' \subseteq Elements(Objects), users' \subseteq Names,
           members' \subseteq users', password' \in [Names -> Nat],
           secret' \in [Names -> Nat], cut' \subseteq Names, SecretsWork'
    PROVE  IInv'
<1>1. attempts' \in Nat
  BY Types, SMT DEF PodFails
<1>2. TypeOK'
  BY <1>1, Types DEF PodFails, TypeOK
<1>3. Place' /\ AtAccount' /\ SuccessIsComplete'
  BY DEF PodFails, Place, AtAccount, SuccessIsComplete, ObjectLines, AccountLines
<1> QED BY <1>2, <1>3 DEF IInv

-----------------------------------------------------------------------------
(* The job and the operator *)

LEMMA JobInv ==
    ASSUME SetupAssumption, IInv,
           Release \/ StartPod \/ Rollout \/ \E a \in Names : DeleteSecret(a)
    PROVE  IInv'
<1> USE DEF jobVars, scriptVars, keycloakVars
<1>1. CASE Release
  <2>1. releases' \in Nat /\ line = "off"
    BY <1>1, Types, SMT DEF Release, IInv, Place
  <2> QED BY <1>1, <2>1, Types DEF Release, IInv, TypeOK, Place, AtAccount, SecretsWork,
             SuccessIsComplete, ObjectLines, AccountLines, Works, Account
<1>2. CASE StartPod
  BY <1>2, Types DEF StartPod, IInv, TypeOK, Place, AtAccount, SecretsWork,
     SuccessIsComplete, ObjectLines, AccountLines, Works, Account
<1>3. CASE Rollout
  <2>1. 1 \in 1 .. Len(Objects) /\ 1 .. 1 - 1 = {} /\ 1 \in Nat
    BY Lists, SMT
  <2> QED BY <1>3, <2>1, Types DEF Rollout, Continues, IInv, TypeOK, Place, AtAccount,
             SecretsWork, SuccessIsComplete, ObjectLines, AccountLines, Works, Account
<1>4. ASSUME NEW a \in Names, DeleteSecret(a) PROVE IInv'
  <2>1. deletions' \in Nat /\ deletions' # 0
    BY <1>4, Types, SMT DEF DeleteSecret, IInv
  <2>2. /\ secret' \in [Names -> Nat]
        /\ \A b \in Names : secret'[b] \in {secret[b], NoPassword}
    BY <1>4 DEF DeleteSecret, IInv, TypeOK, NoPassword
  <2>3. UNCHANGED <<jobVars, scriptVars, keycloakVars, cut, failed>>
    BY <1>4 DEF DeleteSecret
  <2>4. TypeOK'
    BY <2>1, <2>2, <2>3, Types DEF IInv, TypeOK
  <2>5. Place' /\ SuccessIsComplete'
    BY <2>1, <2>3 DEF IInv, Place, SuccessIsComplete, Done, Object, Account
  <2>6. line = "setPassword" => Account \in Names
    BY Lists DEF IInv, Place, AccountLines, Account
  <2>7. AtAccount'
    BY <2>1, <2>2, <2>3, <2>6 DEF IInv, AtAccount, Account, NoPassword
  <2>8. SecretsWork'
    BY <2>2, <2>3 DEF IInv, SecretsWork, Works, Account
  <2> QED BY <2>4, <2>5, <2>7, <2>8 DEF IInv
<1> QED BY <1>1, <1>2, <1>3, <1>4

\* A pod dies before its command has an effect.
LEMMA DiesInv == ASSUME SetupAssumption, IInv, Dies PROVE IInv'
<1> USE DEF keycloakVars
<1>1. failed' \in Nat /\ job = "active"
  BY Types, SMT DEF Dies, Fails, IInv, Place
<1>2. line = "setPassword" => Account \in Names
  BY Lists DEF IInv, Place, AccountLines, Account
<1>3. SecretsWork'
  BY DEF Dies, IInv, SecretsWork, Works
<1>4. cut' \subseteq Names
  BY <1>2 DEF Dies, IInv, TypeOK
<1> QED BY <1>1, <1>3, <1>4, Types, PodFailsInv DEF Dies, IInv, TypeOK

-----------------------------------------------------------------------------
(* The realm, the client and the roles *)

LEMMA GetInv == ASSUME SetupAssumption, IInv, Get PROVE IInv'
<1> USE DEF jobVars, keycloakVars
<1>1. failed' \in Nat
  BY Types, SMT DEF Get, Misread, Fails, IInv
<1>2. found' \in BOOLEAN /\ (found' => Object \in made)
  BY DEF Get, Answers
<1>3. line' \in {"update", "create"} /\ (line' = "update" => Object \in made)
  BY <1>2 DEF Get
<1>4. UNCHANGED <<jobVars, position, generated, keycloakVars, secret, cut, deletions>>
      /\ line = "get"
  BY DEF Get
<1>5. TypeOK'
  BY <1>1, <1>2, <1>3, <1>4, Types DEF IInv, TypeOK
<1>6. Place' /\ AtAccount' /\ SecretsWork' /\ SuccessIsComplete'
  BY <1>3, <1>4 DEF IInv, Place, AtAccount, SecretsWork, SuccessIsComplete, Works,
     ObjectLines, AccountLines, Object, Account
<1> QED BY <1>5, <1>6 DEF IInv

\* What is left to do after an object of the list has been made.
LEMMA AfterObjectInv ==
    ASSUME SetupAssumption, IInv, line \in ObjectLines, AfterObject \/ NextObject,
           Object \in made', made \subseteq made', made' \subseteq Elements(Objects),
           UNCHANGED <<users, members, password, secret, cut, deletions>>
    PROVE  IInv'
<1>1. line \notin AccountLines \cup {"off"} /\ job = "active"
  BY DEF ObjectLines, AccountLines, IInv, Place
<1>2. /\ position \in 1 .. Len(Objects)
      /\ \A i \in 1 .. position - 1 : Objects[i] \in made
      /\ Objects[position] \in made'
  BY DEF IInv, Place, Object
<1>3. SecretsWork'
  BY <1>1 DEF IInv, SecretsWork, Works, AccountLines
<1>4. CASE Fails /\ PodFails
  <2>1. failed' \in Nat
    BY <1>4, Types, SMT DEF Fails, IInv
  <2> QED BY <1>1, <1>3, <1>4, <2>1, PodFailsInv, Types DEF IInv, TypeOK
<1>5. ASSUME NEW next, NEW at, Continues(next, at), UNCHANGED found,
             \/ next = "profile" /\ at = position
             \/ next = "get" /\ at = position + 1 /\ position < Len(Objects)
             \/ next = "getUser" /\ at = 1 /\ ~(position < Len(Objects))
      PROVE  IInv'
  <2>1. line' = next /\ position' = at /\ UNCHANGED <<jobVars, generated, failed>>
    BY <1>5 DEF Continues
  <2>2. at \in Nat
    BY <1>2, <1>5, Lists, SMT
  <2>3. TypeOK'
    BY <1>5, <2>1, <2>2, Types DEF IInv, TypeOK, jobVars
  <2>4. \A i \in 1 .. position : Objects[i] \in made'
    <3>1. \A i \in 1 .. position : i \in 1 .. position - 1 \/ i = position
      BY <1>2, Lists, SMT
    <3> QED BY <1>2, <3>1
  <2>5. ~(position < Len(Objects)) => made' = Elements(Objects)
    <3>1. ~(position < Len(Objects)) => position = Len(Objects)
      BY <1>2, Lists, SMT
    <3> QED BY <2>4, <3>1, Lists
  <2>6. /\ next = "profile" => at \in 1 .. Len(Objects) /\ Objects[at] \in made'
        /\ next \in ObjectLines =>
              at \in 1 .. Len(Objects) /\ \A i \in 1 .. at - 1 : Objects[i] \in made'
    <3>1. next = "profile" => at = position
      BY <1>5
    <3>2. next = "get" => at = position + 1 /\ at \in 1 .. Len(Objects) /\ at - 1 = position
      BY <1>2, <1>5, Lists, SMT
    <3> QED BY <1>2, <1>5, <2>4, <3>1, <3>2 DEF ObjectLines
  <2>7. next \in AccountLines =>
          /\ at \in 1 .. Len(Accounts)
          /\ made' = Elements(Objects)
          /\ 1 .. at - 1 = {}
    <3>1. 1 \in 1 .. Len(Accounts) /\ 1 .. 1 - 1 = {}
      BY Lists, SMT
    <3> QED BY <1>5, <2>5, <3>1 DEF AccountLines
  <2>8. Place'
    BY <1>1, <1>5, <2>1, <2>6, <2>7 DEF Place, Object, jobVars
  <2>9. AtAccount' /\ SuccessIsComplete'
    BY <1>1, <1>5, <2>1 DEF AtAccount, SuccessIsComplete, jobVars
  <2> QED BY <1>3, <2>3, <2>8, <2>9 DEF IInv
<1>6. CASE Then("profile", position)
  BY <1>4, <1>5, <1>6 DEF Then
<1>7. CASE NextObject
  <2>1. CASE position < Len(Objects) /\ Then("get", position + 1)
    BY <1>4, <1>5, <2>1 DEF Then
  <2>2. CASE ~(position < Len(Objects)) /\ Then("getUser", 1)
    BY <1>4, <1>5, <2>2 DEF Then
  <2> QED BY <1>7, <2>1, <2>2 DEF NextObject
<1> QED BY <1>6, <1>7 DEF AfterObject

LEMMA ObjectInv ==
    ASSUME SetupAssumption, IInv, Create \/ CreateConflicts \/ Update \/ Profile
    PROVE  IInv'
<1> USE DEF keycloakVars
<1>1. CASE Create
  <2>1. line = "create" /\ AfterObject /\ made' = made \cup {Object}
        /\ UNCHANGED <<users, members, password, secret, cut, deletions>>
    BY <1>1 DEF Create
  <2>2. Object \in Elements(Objects)
    BY <2>1, Lists DEF IInv, Place, ObjectLines, Object
  <2>3. made' \subseteq Elements(Objects)
    BY <2>1, <2>2 DEF IInv, TypeOK
  <2> QED BY <2>1, <2>3, AfterObjectInv DEF ObjectLines
<1>2. CASE CreateConflicts
  <2>1. job = "active" /\ failed' = failed
    BY <1>2 DEF CreateConflicts, IInv, Place
  <2>2. SecretsWork'
    BY <1>2 DEF CreateConflicts, IInv, SecretsWork, Works
  <2> QED BY <1>2, <2>1, <2>2, PodFailsInv, Types DEF CreateConflicts, IInv, TypeOK
<1>3. CASE Update \/ Profile
  <2>1. /\ line \in {"update", "profile"} /\ (AfterObject \/ NextObject)
        /\ UNCHANGED <<made, users, members, password, secret, cut, deletions>>
    BY <1>3 DEF Update, Profile
  <2>2. Object \in made /\ made \subseteq Elements(Objects)
    BY <2>1 DEF IInv, Place, TypeOK
  <2> QED BY <2>1, <2>2, AfterObjectInv DEF ObjectLines
<1> QED BY <1>1, <1>2, <1>3

-----------------------------------------------------------------------------
(* The accounts *)

\* Where the script is when it is at an account.
LEMMA AccountPlace ==
    ASSUME SetupAssumption, IInv, line \in AccountLines
    PROVE  /\ Account \in Names /\ job = "active"
           /\ position \in 1 .. Len(Accounts)
           /\ made = Elements(Objects)
           /\ \A i \in 1 .. position - 1 : Done(Accounts[i])
<1>1. line # "off"
  BY DEF AccountLines
<1> QED BY <1>1, Lists DEF IInv, Place, Account

LEMMA UserInv ==
    ASSUME SetupAssumption, IInv, GetUser \/ CreateUser \/ AddRole
    PROVE  IInv'
<1> DEFINE next == IF line = "getUser" THEN (IF Account \in users THEN "addRole" ELSE "createUser")
                   ELSE IF line = "createUser" THEN "addRole" ELSE "getSecret"
<1>1. /\ line \in {"getUser", "createUser", "addRole"}
      /\ UNCHANGED <<made, password, secret, cut, deletions>>
      /\ \/ line = "getUser" /\ UNCHANGED <<users, members>>
         \/ line = "createUser" /\ users' = users \cup {Account} /\ UNCHANGED members
         \/ line = "addRole" /\ members' = members \cup {Account} /\ UNCHANGED users
      /\ \/ Continues(next, position) /\ UNCHANGED found
         \/ Fails /\ PodFails
  BY DEF GetUser, CreateUser, AddRole, Then, keycloakVars
<1>2. /\ Account \in Names /\ job = "active"
      /\ position \in 1 .. Len(Accounts)
      /\ made = Elements(Objects)
      /\ \A i \in 1 .. position - 1 : Done(Accounts[i])
  BY <1>1, AccountPlace DEF AccountLines
<1>3. users' \subseteq Names /\ members' \subseteq users' /\ members \subseteq members'
  BY <1>1, <1>2 DEF IInv, TypeOK, AtAccount
<1>4. SecretsWork'
  BY <1>1 DEF IInv, SecretsWork, Works
<1>5. CASE Continues(next, position) /\ UNCHANGED found
  <2>1. /\ line' = next /\ position' = position /\ UNCHANGED <<job, attempts, releases, generated, failed>>
    BY <1>5 DEF Continues, jobVars
  <2>2. /\ line' \in {"createUser", "addRole", "getSecret"}
        /\ line' = "addRole" => Account \in users'
        /\ line' = "getSecret" => Account \in members'
    BY <1>1, <2>1
  <2>3. TypeOK'
    BY <1>1, <1>3, <1>5, <2>1, <2>2, Types DEF IInv, TypeOK
  <2>4. Place'
    BY <1>1, <1>2, <1>3, <2>1, <2>2 DEF Place, ObjectLines, AccountLines, Done
  <2>5. AtAccount' /\ SuccessIsComplete'
    BY <1>2, <2>1, <2>2 DEF AtAccount, SuccessIsComplete, Account
  <2> QED BY <1>4, <2>3, <2>4, <2>5 DEF IInv
<1>6. CASE Fails /\ PodFails
  <2>1. failed' \in Nat
    BY <1>6, Types, SMT DEF Fails, IInv
  <2> QED BY <1>1, <1>2, <1>3, <1>4, <1>6, <2>1, PodFailsInv, Types DEF IInv, TypeOK
<1> QED BY <1>1, <1>5, <1>6

\* After an account comes the next, or the end of the job.
LEMMA NextAccountInv ==
    ASSUME SetupAssumption, IInv, line \in AccountLines, NextAccount,
           Account \in members, deletions = 0 => secret[Account] # NoPassword,
           UNCHANGED <<made, users, members, secret, deletions>>,
           password' \in [Names -> Nat], cut' \subseteq Names, SecretsWork'
    PROVE  IInv'
<1>1. /\ Account \in Names /\ job = "active"
      /\ position \in 1 .. Len(Accounts)
      /\ made = Elements(Objects)
      /\ \A i \in 1 .. position - 1 : Done(Accounts[i])
  BY AccountPlace
<1>2. Done(Account)
  BY DEF Done
<1>3. CASE position < Len(Accounts) /\ Continues("getUser", position + 1) /\ UNCHANGED found
  <2>1. /\ line' = "getUser" /\ position' = position + 1
        /\ UNCHANGED <<job, attempts, releases, generated, failed, found>>
    BY <1>3 DEF Continues, jobVars
  <2>2. position' \in 1 .. Len(Accounts) /\ position' \in Nat
    BY <1>1, <1>3, <2>1, Lists, SMT
  <2>3. \A i \in 1 .. position' - 1 : Done(Accounts[i])
    <3>1. \A i \in 1 .. position' - 1 : i \in 1 .. position - 1 \/ i = position
      BY <1>1, <2>1, Lists, SMT
    <3> QED BY <1>1, <1>2, <3>1 DEF Done, Account
  <2>4. TypeOK'
    BY <2>1, <2>2, Types DEF IInv, TypeOK
  <2>5. Place'
    BY <1>1, <2>1, <2>2, <2>3 DEF Place, ObjectLines, AccountLines, Done
  <2>6. AtAccount' /\ SuccessIsComplete'
    BY <1>1, <2>1 DEF AtAccount, SuccessIsComplete
  <2> QED BY <2>4, <2>5, <2>6 DEF IInv
<1>4. CASE ~(position < Len(Accounts)) /\ Succeeds
  <2>1. /\ job' = "succeeded" /\ line' = "off" /\ position' = 0 /\ found' = FALSE
        /\ UNCHANGED <<attempts, releases, generated, failed>>
    BY <1>4 DEF Succeeds
  <2>2. \A a \in Names : Done(a)
    <3> SUFFICES ASSUME NEW i \in 1 .. Len(Accounts) PROVE Done(Accounts[i])
      BY Lists
    <3>1. i \in 1 .. position - 1 \/ i = position
      BY <1>1, <1>4, Lists, SMT
    <3> QED BY <1>1, <1>2, <3>1 DEF Done, Account
  <2>3. TypeOK'
    BY <2>1, Types DEF IInv, TypeOK
  <2>4. Place' /\ AtAccount'
    BY <2>1 DEF Place, AtAccount, ObjectLines, AccountLines
  <2>5. SuccessIsComplete'
    BY <1>1, <2>1, <2>2 DEF SuccessIsComplete, Done, IInv, TypeOK
  <2> QED BY <2>3, <2>4, <2>5 DEF IInv
<1> QED BY <1>3, <1>4 DEF NextAccount

LEMMA GetSecretInv == ASSUME SetupAssumption, IInv, GetSecret PROVE IInv'
<1>1. line = "getSecret" /\ line \in AccountLines
      /\ UNCHANGED <<made, users, members, password, secret, cut, deletions>>
  BY DEF GetSecret, AccountLines, keycloakVars
<1>2. /\ Account \in Names /\ job = "active" /\ Account \in members
      /\ position \in 1 .. Len(Accounts)
      /\ made = Elements(Objects)
      /\ \A i \in 1 .. position - 1 : Done(Accounts[i])
  BY <1>1, AccountPlace DEF IInv, AtAccount
<1>3. SecretsWork'
  BY <1>1 DEF IInv, SecretsWork, Works
<1>4. CASE secret[Account] # NoPassword /\ NextAccount
  BY <1>1, <1>2, <1>3, <1>4, NextAccountInv DEF IInv, TypeOK
<1>5. CASE /\ IF secret[Account] = NoPassword THEN UNCHANGED failed ELSE Fails
           /\ line' = "createSecret"
           /\ generated' = generated + 1
           /\ UNCHANGED <<jobVars, position, found>>
  <2>1. failed' \in Nat /\ generated' \in Nat /\ generated' # NoPassword
    BY <1>5, Types, SMT DEF Fails, IInv, NoPassword
  <2>2. UNCHANGED <<job, attempts, releases, position, found>> /\ line' = "createSecret"
    BY <1>5 DEF jobVars
  <2>3. TypeOK'
    BY <1>1, <2>1, <2>2, Types DEF IInv, TypeOK
  <2>4. Place'
    BY <1>1, <1>2, <2>2 DEF Place, ObjectLines, AccountLines, Done
  <2>5. AtAccount' /\ SuccessIsComplete'
    BY <1>1, <1>2, <2>1, <2>2 DEF AtAccount, SuccessIsComplete, Account
  <2> QED BY <1>3, <2>3, <2>4, <2>5 DEF IInv
<1>6. CASE PodFails /\ failed' \in Nat
  <2>1. deletions' \in Nat
    BY <1>1, Types DEF IInv, TypeOK
  <2> QED BY <1>1, <1>2, <1>3, <1>6, <2>1, PodFailsInv, Types DEF IInv, TypeOK
<1>7. (IF secret[Account] = NoPassword THEN UNCHANGED failed ELSE Fails) => failed' \in Nat
  BY Types, SMT DEF Fails, IInv
<1> QED BY <1>4, <1>5, <1>6, <1>7 DEF GetSecret

LEMMA CreateSecretInv == ASSUME SetupAssumption, IInv, CreateSecret PROVE IInv'
<1>1. line = "createSecret" /\ line \in AccountLines
      /\ UNCHANGED <<made, users, members, password, deletions>>
  BY DEF CreateSecret, AccountLines, keycloakVars
<1>2. /\ Account \in Names /\ job = "active" /\ Account \in members
      /\ position \in 1 .. Len(Accounts)
      /\ made = Elements(Objects)
      /\ \A i \in 1 .. position - 1 : Done(Accounts[i])
      /\ generated # NoPassword /\ generated \in Nat
  BY <1>1, AccountPlace, Types DEF IInv, AtAccount
<1>3. CASE secret[Account] = NoPassword /\ secret' = [secret EXCEPT ![Account] = generated]
  <2>1. /\ secret' \in [Names -> Nat] /\ secret'[Account] = generated
        /\ \A a \in Names : a # Account => secret'[a] = secret[a]
        /\ \A a \in Names : secret[a] # NoPassword => secret'[a] = secret[a]
    BY <1>2, <1>3 DEF IInv, TypeOK
  <2>2. \A i \in 1 .. position - 1 : Accounts[i] \in Names
    <3>1. \A i \in 1 .. position - 1 : i \in 1 .. Len(Accounts)
      BY <1>2, Lists, SMT
    <3> QED BY <3>1, Lists
  <2>3. CASE Continues("setPassword", position) /\ UNCHANGED <<found, cut>>
    <3>1. /\ line' = "setPassword" /\ position' = position
          /\ UNCHANGED <<job, attempts, releases, generated, failed, found, cut>>
      BY <2>3 DEF Continues, jobVars
    <3>2. TypeOK'
      BY <1>1, <2>1, <3>1, Types DEF IInv, TypeOK
    <3>3. \A i \in 1 .. position - 1 : Done(Accounts[i])'
      BY <1>1, <1>2, <2>1, <2>2 DEF Done
    <3>4. Place'
      BY <1>1, <1>2, <3>1, <3>3 DEF Place, ObjectLines, AccountLines
    <3>5. AtAccount' /\ SuccessIsComplete'
      BY <1>1, <1>2, <2>1, <3>1 DEF AtAccount, SuccessIsComplete, Account
    <3>6. SecretsWork'
      BY <1>1, <2>1, <3>1 DEF IInv, SecretsWork, Works, Account
    <3> QED BY <3>2, <3>4, <3>5, <3>6 DEF IInv
  <2>4. CASE Fails /\ PodFails /\ cut' = cut \cup {Account}
    <3>1. failed' \in Nat
      BY <2>4, Types, SMT DEF Fails, IInv
    <3>2. SecretsWork'
      BY <1>1, <2>1, <2>4 DEF IInv, SecretsWork, Works
    <3>3. cut' \subseteq Names
      BY <1>2, <2>4 DEF IInv, TypeOK
    <3> QED BY <1>1, <1>2, <2>1, <2>4, <3>1, <3>2, <3>3, PodFailsInv, Types DEF IInv, TypeOK
  <2> QED BY <1>3, <2>3, <2>4 DEF CreateSecret
<1>4. CASE secret[Account] # NoPassword /\ PodFails /\ UNCHANGED <<secret, cut, failed>>
  <2>1. SecretsWork'
    BY <1>1, <1>4 DEF IInv, SecretsWork, Works
  <2> QED BY <1>1, <1>2, <1>4, <2>1, PodFailsInv, Types DEF IInv, TypeOK
<1> QED BY <1>3, <1>4 DEF CreateSecret

LEMMA SetPasswordInv == ASSUME SetupAssumption, IInv, SetPassword PROVE IInv'
<1>1. line = "setPassword" /\ line \in AccountLines
      /\ UNCHANGED <<made, users, members, secret, deletions>>
      /\ password' = [password EXCEPT ![Account] = generated]
      /\ cut' = cut \ {Account}
  BY DEF SetPassword, AccountLines
<1>2. /\ Account \in Names /\ job = "active" /\ Account \in members
      /\ secret[Account] \in {generated, NoPassword}
      /\ deletions = 0 => secret[Account] # NoPassword
      /\ generated \in Nat
  BY <1>1, AccountPlace, Types DEF IInv, AtAccount
<1>3. /\ password' \in [Names -> Nat] /\ password'[Account] = generated
      /\ \A a \in Names : a # Account => password'[a] = password[a]
      /\ cut' \subseteq Names
  BY <1>1, <1>2 DEF IInv, TypeOK
<1>4. SecretsWork'
  BY <1>1, <1>2, <1>3 DEF IInv, SecretsWork, Works
<1>5. CASE NextAccount
  BY <1>1, <1>2, <1>3, <1>4, <1>5, NextAccountInv
<1>6. CASE Fails /\ PodFails
  <2>1. failed' \in Nat
    BY <1>6, Types, SMT DEF Fails, IInv
  <2> QED BY <1>1, <1>2, <1>3, <1>4, <1>6, <2>1, PodFailsInv, Types DEF IInv, TypeOK
<1> QED BY <1>5, <1>6 DEF SetPassword

-----------------------------------------------------------------------------
LEMMA StutterInv == ASSUME IInv, UNCHANGED vars PROVE IInv'
<1> USE DEF vars, jobVars, scriptVars, keycloakVars
<1>1. TypeOK'
  BY Types DEF IInv, TypeOK
<1>2. Place' /\ AtAccount' /\ SecretsWork' /\ SuccessIsComplete'
  BY DEF IInv, Place, AtAccount, SecretsWork, SuccessIsComplete, Works, Done, Object, Account
<1> QED BY <1>1, <1>2 DEF IInv

LEMMA NextInv == ASSUME SetupAssumption, IInv, [Next]_vars PROVE IInv'
<1>1. CASE ScriptStep
  BY <1>1, JobInv, GetInv, ObjectInv, UserInv, GetSecretInv, CreateSecretInv,
     SetPasswordInv DEF ScriptStep
<1>2. CASE Release \/ Dies \/ \E a \in Names : DeleteSecret(a)
  BY <1>2, JobInv, DiesInv
<1>3. CASE UNCHANGED vars
  BY <1>3, StutterInv
<1> QED BY <1>1, <1>2, <1>3 DEF Next

\* What the script has done at each of its places, in whichever pod.
THEOREM InvariantTheorem == ASSUME SetupAssumption PROVE Spec => []IInv
<1>1. Init => IInv
  BY InitInv
<1>2. IInv /\ [Next]_vars => IInv'
  BY NextInv
<1> QED BY <1>1, <1>2, PTL DEF Spec

\* No failing command, dying pod or repetition of the script makes a secret that
\* works wrong; only an attempt cut off between creating a secret and setting its
\* password leaves one (setup.sh:62-83).
THEOREM SecretsTheorem == ASSUME SetupAssumption PROVE Spec => []SecretsWork
<1>1. IInv => SecretsWork
  BY DEF IInv
<1> QED BY <1>1, InvariantTheorem, PTL

\* A job that succeeded, in whichever attempt, has made every object and account
\* (setup.sh:13-83).
THEOREM CompleteTheorem == ASSUME SetupAssumption PROVE Spec => []SuccessIsComplete
<1>1. IInv => SuccessIsComplete
  BY DEF IInv
<1> QED BY <1>1, InvariantTheorem, PTL

\* Only an account that has its role is given a secret.
SecretsOfMembers == \A a \in Names : secret[a] # NoPassword => a \in members

LEMMA MembersStep ==
    ASSUME SetupAssumption, IInv, SecretsOfMembers, [Next]_vars
    PROVE  SecretsOfMembers'
<1>1. CASE line = "createSecret" /\ CreateSecret
  <2>1. Account \in members /\ members' = members
    BY <1>1 DEF CreateSecret, IInv, AtAccount, keycloakVars
  <2>2. secret' = secret \/ secret' = [secret EXCEPT ![Account] = generated]
    BY <1>1 DEF CreateSecret
  <2> QED BY <2>1, <2>2 DEF SecretsOfMembers, IInv, TypeOK
<1>2. CASE \E a \in Names : DeleteSecret(a)
  <2>1. PICK a \in Names : DeleteSecret(a)
    BY <1>2
  <2> QED BY <2>1 DEF DeleteSecret, keycloakVars, SecretsOfMembers, IInv, TypeOK
<1>3. CASE UNCHANGED secret /\ members \subseteq members'
  BY <1>3 DEF SecretsOfMembers
<1>4. CASE [Release \/ ScriptStep \/ Dies]_vars /\ ~CreateSecret
  <2>1. UNCHANGED secret /\ members \subseteq members'
    BY <1>4 DEF vars, keycloakVars, ScriptStep, Release, Dies, StartPod, Rollout, Get,
       Create, CreateConflicts, Update, Profile, GetUser, CreateUser, AddRole,
       GetSecret, SetPassword
  <2> QED BY <2>1, <1>3
<1> QED BY <1>1, <1>2, <1>4 DEF Next, CreateSecret

\* An account's secret is only created once Keycloak has the account with its role
\* (setup.sh:65-80).
THEOREM MembersTheorem == ASSUME SetupAssumption PROVE Spec => []SecretsOfMembers
<1>1. Init => SecretsOfMembers
  BY DEF Init, SecretsOfMembers
<1>2. IInv /\ SecretsOfMembers /\ [Next]_vars => SecretsOfMembers'
  BY MembersStep
<1> QED BY <1>1, <1>2, InvariantTheorem, PTL DEF Spec
=============================================================================
