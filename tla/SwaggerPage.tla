---------------------------- MODULE SwaggerPage ----------------------------
(***************************************************************************)
(* The documentation page of the historical API in a browser: main.py:23-40*)
(* serves an HTML page that loads three scripts, one after the other, and  *)
(* the last of them starts Swagger UI once the page has loaded             *)
(* (app/static/swagger-initializer.js).  Nothing is requested twice.       *)
(***************************************************************************)
EXTENDS Naturals, Sequences

CONSTANT MaxPages   \* bound: pages opened

VARIABLES
    serving,    \* whether the API answers
    page,       \* "none", "loading", "describing", "shown", "error" or "blank"
    requested,  \* how many of the scripts have been requested
    executed,   \* the scripts that arrived
    lost,       \* history: a request of this page found no API
    pages

vars == <<page, requested, executed, lost, pages>>

\* The ingress passes on what is below root_path (main.py:8).
Served(path) == serving /\ Head(path) = "historic"

\* main.py:34-36
Scripts == <<<<"historic", "static", "bundle">>,
             <<"historic", "static", "preset">>,
             <<"historic", "static", "initializer">>>>

Bundle == Scripts[1]
Initializer == Scripts[3]
Elements(s) == {s[i] : i \in 1 .. Len(s)}

TypeOK ==
    /\ page \in {"none", "loading", "describing", "shown", "error", "blank"}
    /\ requested \in 0 .. Len(Scripts)
    /\ executed \subseteq Elements(Scripts)
    /\ lost \in BOOLEAN
    /\ pages \in 0 .. MaxPages

Init ==
    /\ page = "none"
    /\ requested = 0
    /\ executed = {}
    /\ lost = FALSE
    /\ pages = 0

Open ==
    /\ page \notin {"loading", "describing"}
    /\ pages < MaxPages
    /\ serving
    /\ page' = "loading"
    /\ lost' = FALSE
    /\ pages' = pages + 1
    /\ UNCHANGED <<requested, executed>>

\* The browser goes on without a script that it does not get.
LoadScript ==
    LET script == Scripts[requested + 1] IN
    /\ page = "loading"
    /\ requested < Len(Scripts)
    /\ requested' = requested + 1
    /\ executed' = IF Served(script) THEN executed \cup {script} ELSE executed
    /\ lost' = (lost \/ ~serving)
    /\ UNCHANGED <<page, pages>>

\* Mutant: the description is looked for where the API itself has it.
DescribedAtRoot == <<"openapi.json">>

\* swagger-initializer.js:5
Description == <<"historic", "openapi.json">>

\* Mutant: the page is not waited for.
InitializeAtOnce ==
    /\ page = "loading"
    /\ requested > 0
    /\ page' = IF {Bundle, Initializer} \subseteq executed THEN "describing" ELSE "blank"
    /\ requested' = 0
    /\ executed' = {}
    /\ UNCHANGED <<lost, pages>>

\* window.onload: without the bundle SwaggerUIBundle is not defined.  What the
\* page loaded no longer matters.
Initialize ==
    /\ page = "loading"
    /\ requested = Len(Scripts)
    /\ page' = IF {Bundle, Initializer} \subseteq executed THEN "describing" ELSE "blank"
    /\ requested' = 0
    /\ executed' = {}
    /\ UNCHANGED <<lost, pages>>

\* Swagger UI renders the description, or that it could not fetch it.
Describe ==
    /\ page = "describing"
    /\ page' = IF Served(Description) THEN "shown" ELSE "error"
    /\ lost' = (lost \/ ~serving)
    /\ UNCHANGED <<requested, executed, pages>>

Browse == LoadScript \/ Initialize \/ Describe

-----------------------------------------------------------------------------
(* Correctness *)

\* A page that was opened ends up with the API's operations, unless the API
\* was away when a part of it was requested (main.py:23-40,
\* swagger-initializer.js:1-15).
PageShown == page = "loading" ~> page = "shown" \/ lost

\* A page is blank or shows an error only if the API was away when one of its
\* parts was requested, whenever it stopped and came back in between: scripts and
\* description are where they are looked for, and Swagger UI is started after the
\* script that defines it (main.py:34-36, swagger-initializer.js:1-5).
BrokenOnlyIfAway == page \in {"error", "blank"} => lost
=============================================================================
