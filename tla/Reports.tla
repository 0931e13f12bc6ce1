-------------------------------- MODULE Reports --------------------------------
(***************************************************************************)
(* Catalogs and queries of reports and of analyses (reporttools/adapter.go *)
(* and analysistools), called through a selection (registry.go): a call,   *)
(* the question whether the tool is available, and the release of a result *)
(* that was saved, to its caller (AuthorizeResult) or to a reader, on his   *)
(* own or with a result that was published to him (AuthorizeResultRead).   *)
(*                                                                         *)
(* The host binds a business source and may bind another one at any time;  *)
(* every call takes the source once and stays with it. Sources grant,      *)
(* refuse, publish catalogs and attest that what they give can be read     *)
(* later, as they like. One caller is modelled: calls share nothing but    *)
(* the world around them.                                                  *)
(*                                                                         *)
(* An operator Bug_X is the definition X with a plausible bug in it.       *)
(***************************************************************************)
EXTENDS Naturals

CONSTANTS
    Sources,     \* business sources
    NoSource,    \* in place of a source that is not bound
    Policies,    \* the sources with a policy for reading results
    MaxVersion,  \* bound: how often a catalog changes
    MaxChanges,  \* bound: changes of the world
    MaxRequests, \* bound: releases asked for
    Families     \* "report", "analysis"

Actors  == {"caller", "reader"}
Version == 0..MaxVersion  \* 0 is a catalog with nothing in it
Content == {"catalog", "query", "diagnostic"}

ASSUME ConstantsAssumption ==
    /\ NoSource \notin Sources
    /\ Policies \subseteq Sources
    /\ MaxVersion \in Nat
    /\ MaxChanges \in Nat
    /\ MaxRequests \in Nat
    /\ Families \subseteq {"report", "analysis"}

VARIABLES
    policy,   \* whether the host's Authorize grants the tool
    bound,    \* the source the host has bound
    grants,   \* whom each source grants its catalog and queries
    readers,  \* whom each source lets read results
    catalog,  \* the version of each source's catalog
    attests,  \* the sources that issue read proofs
    changes,  \* changes so far
    family,   \* of the tool
    wants,    \* "catalog" or "query"
    purpose,  \* "available", "invoke", "release", "read" or "shared"
    asked,    \* requests so far
    pc,       \* the next question
    source,   \* the source this request has taken
    result,   \* the result: its content, source, catalog version and read proof
    lately,   \* history: what was allowed at some moment of the present check
    bounds,   \* history: sources bound at some moment of the request
    excuse    \* history: there was a reason to refuse at some moment

world   == <<policy, bound, grants, readers, catalog, attests>>
request == <<family, wants, purpose, asked>>
vars    == <<world, changes, request, pc, source, result, lately, bounds, excuse>>

-----------------------------------------------------------------------------

Stage == {"idle", "policy", "present", "take", "ask", "run", "measure", "confirm", "judge",
          "held", "refused", "yes", "no"}

Result == [content : Content, source : Sources, version : Version, proof : BOOLEAN]
NoResult == [content |-> "none"]

Past == [grants : SUBSET (Sources \X Actors), readers : SUBSET (Sources \X Actors),
         catalogs : SUBSET (Sources \X Version)]

TypeOK ==
    /\ policy \in BOOLEAN
    /\ bound \in Sources \cup {NoSource}
    /\ grants \in [Sources -> SUBSET Actors]
    /\ readers \in [Sources -> SUBSET Actors]
    /\ catalog \in [Sources -> Version]
    /\ attests \subseteq Sources
    /\ changes \in 0..MaxChanges
    /\ family \in Families
    /\ wants \in {"catalog", "query"}
    /\ purpose \in {"available", "invoke", "release", "read", "shared"}
    /\ asked \in 0..MaxRequests
    /\ pc \in Stage
    /\ source \in Sources \cup {NoSource}
    /\ result \in Result \cup {NoResult}
    /\ lately \in Past
    /\ bounds \subseteq Sources
    /\ excuse \in BOOLEAN

\* What is allowed right now.
Now ==
    [grants |-> {p \in Sources \X Actors : p[2] \in grants[p[1]]},
     readers |-> {p \in Sources \X Actors : p[2] \in readers[p[1]]},
     catalogs |-> {<<s, catalog[s]>> : s \in Sources}]

Init ==
    /\ policy = TRUE
    /\ bound \in Sources
    /\ grants = [s \in Sources |-> Actors]
    /\ readers = [s \in Sources |-> Actors]
    /\ catalog = [s \in Sources |-> MaxVersion]
    /\ attests \in SUBSET Sources
    /\ changes = 0
    /\ family \in Families
    /\ wants \in {"catalog", "query"}
    /\ purpose \in {"available", "invoke"}
    /\ asked = 0
    /\ pc = "idle"
    /\ source = NoSource
    /\ result = NoResult
    /\ lately = Now
    /\ bounds = {bound}
    /\ excuse = FALSE

-----------------------------------------------------------------------------
(* History *)

Resting == pc \in {"idle", "held", "refused", "yes", "no"}

\* What a reader or caller would accept as a reason not to release a result.
Reason ==
    \/ bound = NoSource \/ (result.content # "diagnostic" /\ bound # result.source)
    \/ purpose = "release" /\ ~policy
    \/ purpose = "release" /\ result.content # "diagnostic" /\ "caller" \notin grants[result.source]
    \/ /\ purpose = "release" /\ result.content = "catalog"
       /\ result.version # catalog[result.source] \/ (result.proof /\ result.source \notin attests)
    \/ purpose \in {"read", "shared"} /\ (~result.proof \/ "reader" \notin readers[result.source])
    \/ purpose = "shared" /\ "caller" \notin readers[result.source]
    \/ purpose \in {"read", "shared"} /\ result.source \notin Policies

\* The last check of a request begins with it, or when the source has answered.
Observe ==
    IF Resting /\ pc' = pc
    THEN UNCHANGED <<lately, bounds>>
    ELSE /\ lately' = IF Resting \/ pc = "run" THEN Now'
                      ELSE [grants |-> lately.grants \cup Now'.grants,
                            readers |-> lately.readers \cup Now'.readers,
                            catalogs |-> lately.catalogs \cup Now'.catalogs]
         /\ bounds' = ({bound'} \ {NoSource}) \cup (IF Resting THEN {} ELSE bounds)

-----------------------------------------------------------------------------
(* The requests *)

Goto(stage) == pc' = stage

Require(condition, stage) == pc' = IF condition THEN stage ELSE "refused"

Excused == excuse' = (excuse \/ (result # NoResult /\ Reason))

\* A step that asks a question and goes on.
Asking == Excused /\ UNCHANGED <<world, changes, request, source, result>>

Begin ==
    /\ pc = "idle"
    /\ Goto("policy")
    /\ Asking

\* The host asks for the release of the saved result, or a reader does, who needs
\* no grant of the tool; only a completed result can be read.
AskRelease ==
    /\ pc \in {"held", "refused"}
    /\ result # NoResult
    /\ asked < MaxRequests
    /\ asked' = asked + 1
    /\ \/ purpose' = "release" /\ Goto("policy")
       \/ purpose' \in {"read", "shared"} /\ Goto("take") /\ result.content # "diagnostic"
    /\ excuse' = FALSE
    /\ source' = NoSource
    /\ UNCHANGED <<world, changes, family, wants, result>>

\* authorize: the host grants the tool. Whether it is available depends on a
\* catalog, a concrete call on a source only.
AskPolicy ==
    /\ pc = "policy"
    /\ IF purpose = "available"
       THEN Goto(IF policy THEN "take" ELSE "no")
       ELSE Require(policy, "present")
    /\ Asking

SourcePresent == pc = "present" /\ Require(bound # NoSource, "take") /\ Asking

\* A saved result belongs to the source that gave it; a diagnostic to any.
Belongs == bound # NoSource /\ (result.content = "diagnostic" \/ bound = result.source)

\* source: the request takes the source that is bound now.
Take ==
    /\ pc = "take"
    /\ source' = bound
    /\ CASE purpose = "available" -> Goto(IF bound = NoSource THEN "no" ELSE "ask")
         [] purpose = "invoke" -> Require(bound # NoSource, "ask")
         [] OTHER -> Require(Belongs, IF result.content = "diagnostic" THEN "held" ELSE "judge")
    /\ Excused
    /\ UNCHANGED <<world, changes, request, result>>

\* ConversationToolAvailable: something is in the catalog.
AskAvailable ==
    /\ pc = "ask"
    /\ purpose = "available"
    /\ Goto(IF "caller" \in grants[source] /\ catalog[source] > 0 THEN "yes" ELSE "no")
    /\ Asking

\* The source is asked for its catalog, or to run the query, and grants it.
Ask ==
    /\ pc = "ask"
    /\ purpose = "invoke"
    /\ Require("caller" \in grants[source], "run")
    /\ Asking

\* It takes its time. What it says of a query must be complete and proved.
Receive ==
    /\ pc = "run"
    /\ result' = [content |-> wants, source |-> source,
                  version |-> IF wants = "catalog" THEN catalog[source] ELSE 0,
                  proof |-> source \in attests]
    /\ Goto(IF family = "report" /\ wants = "query" THEN "confirm" ELSE "measure")
    /\ UNCHANGED <<world, changes, request, source, excuse>>

Bug_Measure == pc = "measure" /\ Goto("held") /\ Asking

\* The result is not too long. An analysis is confirmed after that, a report before.
Measure ==
    /\ pc = "measure"
    /\ Goto(IF family = "analysis" /\ wants = "query" THEN "confirm" ELSE "held")
    /\ Asking

\* AuthorizeReportResult, AuthorizeAnalysisResult: the owner grants the result.
Confirm ==
    /\ pc = "confirm"
    /\ IF "caller" \in grants[source]
       THEN Goto(IF family = "analysis" THEN "held" ELSE "measure") /\ UNCHANGED result
       ELSE Goto("refused") /\ result' = NoResult
    /\ Excused
    /\ UNCHANGED <<world, changes, request, source>>

\* The diagnostics of an analysis are results, and carry no data.
Diagnose ==
    /\ pc \in {"run", "measure", "confirm"}
    /\ purpose = "invoke" /\ family = "analysis"
    /\ Goto("held")
    /\ result' = [content |-> "diagnostic", source |-> source, version |-> 0, proof |-> FALSE]
    /\ UNCHANGED <<world, changes, request, source, excuse>>

Bug_SameCatalog == result.version = catalog[source] /\ result.proof = (source \in attests)

\* A catalog saved without a read proof is as good as one with it.
SameCatalog == result.version = catalog[source] /\ (result.proof => source \in attests)

\* The release to the caller: the owner grants the result, or shows the same
\* catalog. The release to a reader: the owner's reading policy decides, about
\* results that were attested.
Judge ==
    /\ pc = "judge"
    /\ Require(
          CASE purpose = "release" ->
                 "caller" \in grants[source] /\ (result.content = "catalog" => SameCatalog)
            [] OTHER ->
                 /\ result.proof /\ source \in Policies
                 /\ "reader" \in readers[source]
                 /\ purpose = "shared" => "caller" \in readers[source], "held")
    /\ Asking

\* A source or the host fails, the time is up, the answer is invalid or too long.
Fail ==
    /\ pc \in {"policy", "take", "ask", "run", "measure", "confirm", "judge"}
    /\ Goto("refused")
    /\ excuse' = TRUE
    /\ result' = IF purpose = "invoke" THEN NoResult ELSE result
    /\ UNCHANGED <<world, changes, request, source>>

Step ==
    \/ Begin \/ AskRelease \/ AskPolicy \/ SourcePresent \/ Take \/ AskAvailable \/ Ask
    \/ Receive \/ Measure \/ Confirm \/ Diagnose \/ Judge \/ Fail

-----------------------------------------------------------------------------
(* The world *)

Toggle(set, x) == IF x \in set THEN set \ {x} ELSE set \cup {x}

Rebind ==
    /\ bound' \in (Sources \cup {NoSource}) \ {bound}
    /\ UNCHANGED <<policy, grants, readers, catalog, attests>>

SetPolicy == policy' = ~policy /\ UNCHANGED <<bound, grants, readers, catalog, attests>>

SetGrant(s) ==
    /\ grants' = [grants EXCEPT ![s] = Toggle(@, "caller")]
    /\ UNCHANGED <<policy, bound, readers, catalog, attests>>

SetReader(s, a) ==
    /\ readers' = [readers EXCEPT ![s] = Toggle(@, a)]
    /\ UNCHANGED <<policy, bound, grants, catalog, attests>>

Publish(s) ==
    /\ catalog' = [catalog EXCEPT ![s] = (@ + 1) % (MaxVersion + 1)]
    /\ UNCHANGED <<policy, bound, grants, readers, attests>>

Attest(s) ==
    /\ attests' = Toggle(attests, s)
    /\ UNCHANGED <<policy, bound, grants, readers, catalog>>

World ==
    /\ changes < MaxChanges
    /\ changes' = changes + 1
    /\ \/ Rebind
       \/ SetPolicy
       \/ \E s \in Sources :
            \/ SetGrant(s) \/ Publish(s) \/ Attest(s)
            \/ \E a \in Actors : SetReader(s, a)
    /\ UNCHANGED <<request, pc, source, result>>
    /\ excuse' = (excuse \/ (result # NoResult /\ (Reason \/ Reason')))

Done == pc \in {"held", "refused", "yes", "no"} /\ UNCHANGED vars

Next == ((Step \/ World) /\ Observe) \/ Done

Spec == Init /\ [][Next]_vars

-----------------------------------------------------------------------------
(* Properties *)

\* What is handed over belongs to a source that was bound during the request, and
\* was allowed by it at a moment of the last check: to the caller after a query was
\* run, and again, with the same catalog, when the result is released; to a reader,
\* and with a published result to its producer, by the reading policy and only when
\* it was attested. Diagnostics need no right of the source. The tool is available
\* when a source shows the caller something.
HandedOverWasAllowed ==
    /\ pc = "held" /\ result.content # "diagnostic" =>
        /\ result.source \in bounds
        /\ purpose = "invoke" /\ wants = "query" => <<result.source, "caller">> \in lately.grants
        /\ purpose = "release" =>
            /\ <<result.source, "caller">> \in lately.grants
            /\ result.content = "catalog" => <<result.source, result.version>> \in lately.catalogs
        /\ purpose \in {"read", "shared"} => result.proof /\ <<result.source, "reader">> \in lately.readers
        /\ purpose = "shared" => <<result.source, "caller">> \in lately.readers
    /\ pc = "yes" => \E s \in bounds :
        <<s, "caller">> \in lately.grants /\ \E v \in 1..MaxVersion : <<s, v>> \in lately.catalogs

\* A saved result is refused for a reason: the source is another one or refuses, the
\* catalog is another one, or it was never attested. A catalog that was saved before
\* its source began to attest is not refused for that.
RefusedForAReason == pc = "refused" /\ purpose \in {"release", "read", "shared"} => excuse
===============================================================================
