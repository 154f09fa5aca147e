------------------------- MODULE CertificateService -------------------------
(***************************************************************************)
(* The dt4mob-certificate-service (src/services/dt4mob-certificate-service)*)
(* signs device certificates with the CA in a Kubernetes secret that       *)
(* cert-manager rotates.  One goroutine follows the secret; each request   *)
(* is handled by another.  The process exits on every error of its start   *)
(* and is restarted.                                                       *)
(***************************************************************************)
EXTENDS Integers, Sequences

CONSTANTS
    Requests,
    SecretContents,     \* what the secret may be made to hold
    Hours,        \* the times to live a request may ask for
    Hour,         \* time.Hour
    Half,         \* a Duration holds -Half .. Half - 1
    DefaultTTL, MaxTTL,
    WatchMayEnd,  \* whether the API server may end the watch
    MaxVersion,   \* bound: changes of the secret
    MaxFailures   \* bound: starts, watches and processes that fail

\* A content loadTLSCert() cannot use lacks a key or is no key pair.
Kinds == {"none", "unusable", "pair"}
Roles == {"admin", "issuer"}

ASSUME ServiceAssumption ==
    /\ SecretContents \subseteq Kinds
    /\ Hours \subseteq Nat \ {0}
    /\ Hour \in Nat /\ Half \in Nat \ {0}
    /\ DefaultTTL \in 0 .. Half - 1 /\ MaxTTL \in Nat
    /\ WatchMayEnd \in BOOLEAN
    /\ MaxVersion \in Nat /\ MaxFailures \in Nat

VARIABLES
    secret,    \* its current version
    pc,        \* the main goroutine: "down", "load", "verify" or "serve"
    fetched,   \* the secret main() read
    watcher,   \* "none", "starting", "open" or "ended"
    queue,     \* the versions the watch has yet to hand over
    tlsCert,   \* the version whose key pair the handler holds, or 0
    calls,     \* what became of each request
    failures

processVars == <<pc, fetched, watcher, queue, tlsCert>>
vars == <<secret, processVars, calls, failures>>

Secret == [ver : Nat, val : Kinds]
Nothing == [ver |-> 0, val |-> "none"]
Phases == {"new", "signing", "issued", "refused", "lost"}
\* asked: the hours the request names, 0 if it names none.
Call == [phase : Phases, role : Roles, leaf : Nat, key : Nat, asked : Nat,
         life : -Half .. Half - 1]
NewCall == [phase |-> "new", role |-> "issuer", leaf |-> 0, key |-> 0,
            asked |-> 0, life |-> 0]

TypeOK ==
    /\ secret \in Secret
    /\ pc \in {"down", "load", "verify", "serve"}
    /\ fetched \in Secret
    /\ watcher \in {"none", "starting", "open", "ended"}
    /\ queue \in Seq(Secret)
    /\ tlsCert \in Nat
    /\ calls \in [Requests -> Call]
    /\ failures \in Nat

Init ==
    /\ \E v \in SecretContents : secret = [ver |-> 1, val |-> v]
    /\ pc = "down"
    /\ fetched = Nothing
    /\ watcher = "none"
    /\ queue = <<>>
    /\ tlsCert = 0
    /\ calls = [r \in Requests |-> NewCall]
    /\ failures = 0

-----------------------------------------------------------------------------
(* The secret and the process *)

\* The watch reports the secret as it is made or changed, not its removal.
Reported(s) == IF s.val = "none" THEN <<>> ELSE <<s>>

\* cert-manager or an operator makes, replaces or removes the secret.  Versions
\* grow, with those of the cluster's other objects in between.
Rotate ==
    /\ \E n \in secret.ver + 1 .. MaxVersion, v \in SecretContents :
          secret' = [ver |-> n, val |-> v]
    /\ queue' = IF watcher = "open" THEN queue \o Reported(secret') ELSE queue
    /\ UNCHANGED <<pc, fetched, watcher, tlsCert, calls, failures>>

\* The requests a process was handling are lost with it.
Down ==
    /\ pc' = "down"
    /\ fetched' = Nothing
    /\ watcher' = "none"
    /\ queue' = <<>>
    /\ tlsCert' = 0
    /\ calls' = [r \in Requests |->
          IF calls[r].phase = "signing" THEN [NewCall EXCEPT !.phase = "lost"]
                                        ELSE calls[r]]

\* A process starts; one that cannot read the secret exits at once.
ReadSecret ==
    /\ pc = "down"
    /\ secret.val # "none"
    /\ pc' = "load"
    /\ fetched' = secret
    /\ UNCHANGED <<secret, watcher, queue, tlsCert, calls, failures>>

\* What the handler holds once a content has been loaded.
Loaded(s) == IF s.val = "pair" THEN s.ver ELSE tlsCert

\* main() loads what it read and starts the goroutine that follows the secret.
LoadSecret ==
    /\ pc = "load"
    /\ tlsCert' = Loaded(fetched)
    /\ fetched' = Nothing
    /\ watcher' = "starting"
    /\ pc' = "verify"
    /\ UNCHANGED <<secret, queue, calls, failures>>

\* The identity provider answers, and the service listens.
NewVerifier ==
    /\ pc = "verify"
    /\ pc' = "serve"
    /\ UNCHANGED <<secret, fetched, watcher, queue, tlsCert, calls, failures>>

\* Mutant: the watch reports only what happens from now on.
OpensUnreported ==
    /\ watcher = "starting"
    /\ watcher' = "open"
    /\ UNCHANGED <<secret, pc, fetched, queue, tlsCert, calls, failures>>

\* The API server opens the watch with the secret as it is now.
WatchSecret ==
    /\ watcher = "starting"
    /\ watcher' = "open"
    /\ queue' = Reported(secret)
    /\ UNCHANGED <<secret, pc, fetched, tlsCert, calls, failures>>

\* Mutant: a goroutine of its own parses and loads each report.
UpdatedInAnyOrder ==
    /\ \E i \in 1 .. Len(queue) :
          /\ tlsCert' = Loaded(queue[i])
          /\ queue' = SubSeq(queue, 1, i - 1) \o SubSeq(queue, i + 1, Len(queue))
    /\ UNCHANGED <<secret, pc, fetched, watcher, calls, failures>>

\* The goroutine loads the next report.
SecretUpdated ==
    /\ queue # <<>>
    /\ tlsCert' = Loaded(Head(queue))
    /\ queue' = Tail(queue)
    /\ UNCHANGED <<secret, pc, fetched, watcher, calls, failures>>

\* The API server ends the watch, perhaps before all is handed over; nothing
\* opens another.
WatchEnds ==
    /\ WatchMayEnd
    /\ watcher = "open"
    /\ failures < MaxFailures
    /\ failures' = failures + 1
    /\ watcher' = "ended"
    /\ \E n \in 0 .. Len(queue) : queue' = SubSeq(queue, 1, n)
    /\ UNCHANGED <<secret, pc, fetched, tlsCert, calls>>

\* The process exits because the watch cannot be opened or the identity
\* provider does not answer, or it is killed.
Exit ==
    /\ pc # "down"
    /\ failures < MaxFailures
    /\ failures' = failures + 1
    /\ Down
    /\ UNCHANGED secret

\* The startup probe gives up on a process without a key pair.
StartupProbeFails ==
    /\ pc \in {"verify", "serve"}
    /\ tlsCert = 0
    /\ Down
    /\ UNCHANGED <<secret, failures>>

-----------------------------------------------------------------------------
(* IssueHandler() *)

\* The middleware has let the request through, and the handler takes the key
\* pair it will sign with.
Accept(r) ==
    /\ pc = "serve"
    /\ calls[r].phase = "new"
    /\ tlsCert # 0
    /\ \E role \in Roles :
          calls' = [calls EXCEPT ![r] = [NewCall EXCEPT !.phase = "signing",
                       !.role = role, !.leaf = tlsCert, !.key = tlsCert]]
    /\ UNCHANGED <<secret, processVars, failures>>

\* Without a valid token or a role, or without a key pair yet.
Reject(r) ==
    /\ pc = "serve"
    /\ calls[r].phase = "new"
    /\ calls' = [calls EXCEPT ![r] = [@ EXCEPT !.phase = "refused"]]
    /\ UNCHANGED <<secret, processVars, failures>>

\* The product of two 64-bit integers.
Wrapped(x) == ((x + Half) % (2 * Half)) - Half

\* Mutant: a Duration without an end.
Unbounded(hours) == hours * Hour

\* time.Duration(hours) * time.Hour
Asked(hours) == Wrapped(hours * Hour)

\* Mutant: hours are compared with a duration.
HoursWithinLimit(r, hours) == calls[r].role = "admin" \/ hours <= MaxTTL

\* Only an administrator exceeds the longest time to live.
WithinLimit(r, hours) == calls[r].role = "admin" \/ Asked(hours) <= MaxTTL

Issue(r, hours, life) ==
    calls' = [calls EXCEPT ![r] = [@ EXCEPT !.phase = "issued", !.asked = hours,
                                            !.life = life]]

\* Mutant: the private key is taken from the handler when it is needed.
SignWithCurrent(r) ==
    /\ calls[r].phase = "signing"
    /\ \/ Issue(r, 0, DefaultTTL)
       \/ \E h \in Hours : /\ WithinLimit(r, h)
                           /\ calls' = [calls EXCEPT ![r].phase = "issued",
                                                     ![r].asked = h,
                                                     ![r].life = Asked(h),
                                                     ![r].key = tlsCert]
    /\ UNCHANGED <<secret, processVars, failures>>

Sign(r) ==
    /\ calls[r].phase = "signing"
    /\ \/ Issue(r, 0, DefaultTTL)
       \/ \E h \in Hours : WithinLimit(r, h) /\ Issue(r, h, Asked(h))
    /\ UNCHANGED <<secret, processVars, failures>>

\* A public key of no use, a time to live beyond the limit, or a subject that
\* only an administrator may set.
RefuseInput(r) ==
    /\ calls[r].phase = "signing"
    /\ calls' = [calls EXCEPT ![r] = [@ EXCEPT !.phase = "refused"]]
    /\ UNCHANGED <<secret, processVars, failures>>

-----------------------------------------------------------------------------
Process ==
    \/ ReadSecret
    \/ LoadSecret
    \/ NewVerifier
    \/ WatchSecret
    \/ SecretUpdated
    \/ WatchEnds
    \/ Exit
    \/ StartupProbeFails

Handle(r) == Accept(r) \/ Reject(r) \/ Sign(r) \/ RefuseInput(r)

ServiceStep == Process \/ \E r \in Requests : Handle(r)

Next == Rotate \/ ServiceStep

Spec == Init /\ [][Next]_vars

-----------------------------------------------------------------------------
(* Correctness *)

\* A certificate names as its issuer the CA whose key signed it, however the
\* secret is rotated while the request is handled (handler.go:93, 159).
SignedByOneCA ==
    \A r \in Requests : calls[r].phase = "issued" =>
        calls[r].leaf # 0 /\ calls[r].key = calls[r].leaf

\* No request is given an older CA than a request before it was, although the
\* secret is both read and watched, and processes follow each other
\* (main.go:67-91).
NeverSignsWithOlder ==
    [][\A r, s \in Requests :
          (/\ calls[r].phase = "new" /\ calls'[r].phase = "signing"
           /\ calls[s].phase \in {"signing", "issued"})
             => calls[s].leaf <= calls'[r].leaf]_vars

\* A certificate for as many hours as a Duration can hold lives as long as the
\* request asked for, and beyond the limit only if an administrator asked: the
\* product wraps for no hours that fit (handler.go:127-133).  A request that
\* names no hours gets the configured default, which nothing compares with the
\* limit.
LifetimeAllowed ==
    \A r \in Requests :
        LET c == calls[r] IN
        c.phase = "issued" /\ c.asked # 0 /\ c.asked * Hour < Half =>
            /\ c.life = c.asked * Hour
            /\ c.role = "admin" \/ c.asked * Hour <= MaxTTL
=============================================================================
