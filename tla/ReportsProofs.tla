----------------------------- MODULE ReportsProofs -----------------------------
(***************************************************************************)
(* What is handed over of reports and analyses was allowed at a moment of  *)
(* its last check, and a saved result is refused for a reason only, for    *)
(* any sources, catalogs and changes. Then what two functions of other     *)
(* tools return for every argument: the date that a relative date names    *)
(* (TimeResolution) and the decimal that is shown of a fraction            *)
(* (Rounding). Those two sections use nothing of the others.               *)
(***************************************************************************)
EXTENDS Reports, TimeResolution, Rounding, TLAPS

-----------------------------------------------------------------------------
(* The flow of a request *)

Releases == {"release", "read", "shared"}

\* Which requests come to which stage, and what they have gathered there.
FlowInv ==
    /\ pc \in {"ask", "run", "measure", "confirm", "judge"} => source \in bounds
    /\ pc = "ask" => purpose \in {"available", "invoke"}
    /\ pc \in {"run", "measure", "confirm"} => purpose = "invoke"
    /\ pc \in {"measure", "confirm"} =>
         result # NoResult /\ result.source = source /\ result.content = wants
    /\ pc = "judge" =>
         purpose \in Releases /\ result.source = source /\ result.content # "diagnostic"
    /\ purpose \in Releases => result # NoResult
    /\ purpose = "available" => result = NoResult
    /\ purpose = "invoke" /\ result # NoResult => pc \in {"measure", "confirm", "held"}
    /\ purpose \in {"read", "shared"} => pc \notin {"idle", "policy", "present"}
    /\ pc = "measure" /\ family = "report" /\ wants = "query" =>
         <<source, "caller">> \in lately.grants
    /\ pc \in {"held", "yes"} => purpose \in Releases \cup {"available", "invoke"}
    /\ pc = "yes" => purpose = "available"

Inv == TypeOK /\ FlowInv /\ HandedOverWasAllowed /\ RefusedForAReason

-----------------------------------------------------------------------------
(* Types and history *)

\* The history of a step takes in what is allowed after it, and keeps what was
\* allowed before unless a check begins.
LEMMA Observed ==
    ASSUME TypeOK, Observe,
           grants' \in [Sources -> SUBSET Actors], readers' \in [Sources -> SUBSET Actors],
           catalog' \in [Sources -> Version], bound' \in Sources \cup {NoSource}
    PROVE  /\ lately' \in Past /\ bounds' \subseteq Sources
           /\ ~(Resting /\ pc' = pc) =>
                /\ \A s \in Sources, a \in Actors :
                     /\ a \in grants'[s] => <<s, a>> \in lately'.grants
                     /\ a \in readers'[s] => <<s, a>> \in lately'.readers
                /\ \A s \in Sources : <<s, catalog'[s]>> \in lately'.catalogs
                /\ bound' # NoSource => bound' \in bounds'
           /\ ~Resting => bounds \subseteq bounds'
           /\ ~Resting /\ pc # "run" => lately.grants \subseteq lately'.grants
           /\ Resting /\ pc' = pc => UNCHANGED <<lately, bounds>>
<1>1. CASE Resting /\ pc' = pc
  BY <1>1 DEF Observe, TypeOK
<1>2. ASSUME ~(Resting /\ pc' = pc)
      PROVE  /\ lately' \in Past /\ bounds' \subseteq Sources
             /\ bound' # NoSource => bound' \in bounds'
             /\ ~Resting => bounds \subseteq bounds'
             /\ Now'.grants \subseteq lately'.grants
             /\ Now'.readers \subseteq lately'.readers
             /\ Now'.catalogs \subseteq lately'.catalogs
             /\ ~Resting /\ pc # "run" => lately.grants \subseteq lately'.grants
  <2>1. Now' \in Past
    BY DEF Now, Past
  <2>2. lately \in Past /\ bounds \subseteq Sources
    BY DEF TypeOK
  <2>3. CASE Resting \/ pc = "run"
    <3>1. lately' = Now'
      BY <1>2, <2>3 DEF Observe
    <3>2. bounds' = ({bound'} \ {NoSource}) \cup (IF Resting THEN {} ELSE bounds)
      BY <1>2 DEF Observe
    <3>3. QED
      BY <2>1, <2>2, <2>3, <3>1, <3>2
  <2>4. CASE ~(Resting \/ pc = "run")
    <3>1. lately' = [grants |-> lately.grants \cup Now'.grants,
                     readers |-> lately.readers \cup Now'.readers,
                     catalogs |-> lately.catalogs \cup Now'.catalogs]
      BY <1>2, <2>4 DEF Observe
    <3>2. bounds' = ({bound'} \ {NoSource}) \cup bounds
      BY <1>2, <2>4 DEF Observe
    <3>3. QED
      BY <2>1, <2>2, <3>1, <3>2 DEF Past
  <2>5. QED
    BY <2>3, <2>4
<1>3. /\ \A s \in Sources, a \in Actors :
           /\ a \in grants'[s] => <<s, a>> \in Now'.grants
           /\ a \in readers'[s] => <<s, a>> \in Now'.readers
      /\ \A s \in Sources : <<s, catalog'[s]>> \in Now'.catalogs
  BY DEF Now
<1>4. QED
  BY <1>1, <1>2, <1>3

LEMMA WorldTypes ==
    ASSUME TypeOK, World
    PROVE  /\ policy' \in BOOLEAN /\ bound' \in Sources \cup {NoSource}
           /\ grants' \in [Sources -> SUBSET Actors] /\ readers' \in [Sources -> SUBSET Actors]
           /\ catalog' \in [Sources -> Version] /\ attests' \subseteq Sources
           /\ changes' \in 0..MaxChanges
           /\ UNCHANGED <<request, pc, source, result>>
           /\ excuse' \in BOOLEAN /\ (excuse => excuse')
<1> USE DEF TypeOK
<1>1. changes' \in 0..MaxChanges /\ UNCHANGED <<request, pc, source, result>>
  BY ConstantsAssumption DEF World
<1>2. excuse' \in BOOLEAN /\ (excuse => excuse')
  BY DEF World
<1>3. CASE Rebind
  BY <1>1, <1>2, <1>3 DEF Rebind
<1>4. CASE SetPolicy
  BY <1>1, <1>2, <1>4 DEF SetPolicy
<1>5. ASSUME NEW s \in Sources, SetGrant(s)
      PROVE  grants' \in [Sources -> SUBSET Actors] /\ UNCHANGED <<policy, bound, readers, catalog, attests>>
  BY <1>5 DEF SetGrant, Toggle, Actors
<1>6. ASSUME NEW s \in Sources, Publish(s)
      PROVE  catalog' \in [Sources -> Version] /\ UNCHANGED <<policy, bound, grants, readers, attests>>
  <2>1. (catalog[s] + 1) % (MaxVersion + 1) \in Version
    BY ConstantsAssumption DEF Version
  <2>2. QED
    BY <1>6, <2>1 DEF Publish
<1>7. ASSUME NEW s \in Sources, Attest(s)
      PROVE  attests' \subseteq Sources /\ UNCHANGED <<policy, bound, grants, readers, catalog>>
  BY <1>7 DEF Attest, Toggle
<1>8. ASSUME NEW s \in Sources, NEW a \in Actors, SetReader(s, a)
      PROVE  readers' \in [Sources -> SUBSET Actors] /\ UNCHANGED <<policy, bound, grants, catalog, attests>>
  BY <1>8 DEF SetReader, Toggle
<1>9. QED
  BY <1>1, <1>2, <1>3, <1>4, <1>5, <1>6, <1>7, <1>8 DEF World

\* The types that the steps of a request can disturb.
StepTyped ==
    /\ UNCHANGED <<world, changes, family, wants>>
    /\ purpose' \in {"available", "invoke", "release", "read", "shared"}
    /\ asked' \in 0..MaxRequests
    /\ pc' \in Stage
    /\ source' \in Sources \cup {NoSource}
    /\ result' \in Result \cup {NoResult}
    /\ excuse' \in BOOLEAN

LEMMA StepTypes == ASSUME Inv, Step PROVE StepTyped
<1> USE DEF Inv, StepTyped, TypeOK, Goto, Require, Excused, Stage, request
<1>1. CASE Begin \/ AskPolicy \/ SourcePresent \/ AskAvailable \/ Ask \/ Measure \/ Judge
  BY <1>1 DEF Begin, AskPolicy, SourcePresent, AskAvailable, Ask, Measure, Judge, Asking
<1>2. CASE AskRelease
  <2>1. asked' \in 0..MaxRequests
    BY <1>2, ConstantsAssumption DEF AskRelease
  <2>2. purpose' \in Releases /\ pc' \in {"policy", "take"} /\ excuse' \in BOOLEAN
    BY <1>2 DEF AskRelease, Releases
  <2>3. QED
    BY <1>2, <2>1, <2>2 DEF AskRelease, Releases
<1>3. CASE Take
  BY <1>3 DEF Take
<1>4. CASE Receive
  <2>1. source \in Sources
    BY <1>4 DEF Receive, FlowInv
  <2>2. catalog[source] \in Version /\ 0 \in Version
    BY <2>1, ConstantsAssumption DEF Version
  <2>3. [content |-> wants, source |-> source,
         version |-> IF wants = "catalog" THEN catalog[source] ELSE 0,
         proof |-> source \in attests] \in Result
    BY <2>1, <2>2 DEF Result, Content
  <2>4. QED
    BY <1>4, <2>3 DEF Receive
<1>5. CASE Confirm \/ Fail
  BY <1>5 DEF Confirm, Fail
<1>6. CASE Diagnose
  <2>1. source \in Sources /\ 0 \in Version
    BY <1>6, ConstantsAssumption DEF Diagnose, FlowInv, Version
  <2>2. [content |-> "diagnostic", source |-> source, version |-> 0, proof |-> FALSE] \in Result
    BY <2>1 DEF Result, Content
  <2>3. QED
    BY <1>6, <2>2 DEF Diagnose
<1>7. QED
  BY <1>1, <1>2, <1>3, <1>4, <1>5, <1>6 DEF Step

-----------------------------------------------------------------------------
(* The invariant *)

LEMMA InitInv == Init => Inv
<1> SUFFICES ASSUME Init PROVE Inv
  OBVIOUS
<1>1. TypeOK
  <2>1. MaxVersion \in Version /\ 0 \in 0..MaxChanges /\ 0 \in 0..MaxRequests
    BY ConstantsAssumption DEF Version
  <2>2. Now \in Past
    BY <2>1 DEF Init, Now, Past
  <2>3. QED
    BY <2>1, <2>2 DEF Init, TypeOK, Stage
<1>2. QED
  BY <1>1 DEF Inv, Init, FlowInv, HandedOverWasAllowed, RefusedForAReason, Releases

\* A step keeps the types.
LEMMA TypeStep == ASSUME Inv, [Next]_vars PROVE TypeOK'
<1>1. CASE UNCHANGED vars
  BY <1>1 DEF vars, world, request, Inv, TypeOK
<1>2. CASE Step /\ Observe
  <2>1. StepTyped
    BY <1>2, StepTypes
  <2>2. lately' \in Past /\ bounds' \subseteq Sources
    BY <1>2, <2>1, Observed DEF Inv, TypeOK, StepTyped, world
  <2>3. QED
    BY <2>1, <2>2 DEF Inv, TypeOK, StepTyped, world
<1>3. CASE World /\ Observe
  <2>1. lately' \in Past /\ bounds' \subseteq Sources
    BY <1>3, WorldTypes, Observed DEF Inv
  <2>2. QED
    BY <1>3, <2>1, WorldTypes DEF Inv, TypeOK, request
<1>4. QED
  BY <1>1, <1>2, <1>3 DEF Next, Done

\* The world moves on while a request rests, or keeps the history growing.
LEMMA WorldInv == ASSUME Inv, World, Observe PROVE FlowInv' /\ HandedOverWasAllowed' /\ RefusedForAReason'
<1>1. /\ UNCHANGED <<request, pc, source, result>>
      /\ excuse => excuse'
  BY WorldTypes DEF Inv
<1>2. /\ ~Resting => bounds \subseteq bounds'
      /\ ~Resting /\ pc # "run" => lately.grants \subseteq lately'.grants
      /\ Resting => UNCHANGED <<lately, bounds>>
  BY <1>1, WorldTypes, Observed DEF Inv
<1>3. FlowInv'
  BY <1>1, <1>2 DEF Inv, FlowInv, Resting, request
<1>4. HandedOverWasAllowed'
  BY <1>1, <1>2 DEF Inv, HandedOverWasAllowed, Resting, request
<1>5. QED
  BY <1>1, <1>3, <1>4 DEF Inv, RefusedForAReason, request

LEMMA StepInv == ASSUME Inv, Step, Observe PROVE FlowInv' /\ HandedOverWasAllowed' /\ RefusedForAReason'
<1>1. StepTyped
  BY StepTypes
<1>2. UNCHANGED <<grants, readers, catalog, attests, policy, bound, changes, family, wants>>
  BY <1>1 DEF StepTyped, world
<1>3. /\ ~(Resting /\ pc' = pc) =>
            /\ \A s \in Sources, a \in Actors :
                 /\ a \in grants[s] => <<s, a>> \in lately'.grants
                 /\ a \in readers[s] => <<s, a>> \in lately'.readers
            /\ \A s \in Sources : <<s, catalog[s]>> \in lately'.catalogs
            /\ bound # NoSource => bound \in bounds'
      /\ ~Resting => bounds \subseteq bounds'
      /\ ~Resting /\ pc # "run" => lately.grants \subseteq lately'.grants
      /\ bounds' \subseteq Sources
  BY <1>2, Observed DEF Inv, TypeOK
<1>4. /\ Actors = {"caller", "reader"} /\ NoSource \notin Sources
      /\ NoResult.content = "none"
  BY ConstantsAssumption DEF Actors, NoResult
<1> USE DEF Inv, TypeOK, Goto, Require, Excused, request, Releases, Resting
<1>5. CASE Begin
  BY <1>5, <1>2, <1>3, <1>4 DEF Begin, Asking, FlowInv, HandedOverWasAllowed, RefusedForAReason
<1>6. CASE AskRelease
  BY <1>6, <1>2, <1>3, <1>4 DEF AskRelease, FlowInv, HandedOverWasAllowed, RefusedForAReason
<1>7. CASE AskPolicy
  BY <1>7, <1>2, <1>3, <1>4 DEF AskPolicy, Asking, FlowInv, HandedOverWasAllowed, RefusedForAReason, Reason
<1>8. CASE SourcePresent
  BY <1>8, <1>2, <1>3, <1>4 DEF SourcePresent, Asking, FlowInv, HandedOverWasAllowed, RefusedForAReason, Reason
<1>9. CASE Take
  BY <1>9, <1>2, <1>3, <1>4 DEF Take, Belongs, FlowInv, HandedOverWasAllowed, RefusedForAReason, Reason
<1>10. CASE AskAvailable
  <2>1. source \in Sources /\ source \in bounds'
    BY <1>10, <1>3 DEF AskAvailable, FlowInv
  <2>2. catalog[source] > 0 => catalog[source] \in 1..MaxVersion
    BY <2>1, ConstantsAssumption DEF Version
  <2>3. QED
    BY <1>10, <1>2, <1>3, <1>4, <2>1, <2>2 DEF AskAvailable, Asking, FlowInv, HandedOverWasAllowed, RefusedForAReason
<1>11. CASE Ask
  BY <1>11, <1>2, <1>3, <1>4 DEF Ask, Asking, FlowInv, HandedOverWasAllowed, RefusedForAReason
<1>12. CASE Receive
  <2>1. result'.content = wants /\ result'.source = source /\ result' # NoResult
    BY <1>12, <1>4 DEF Receive
  <2>2. QED
    BY <1>12, <1>2, <1>3, <1>4, <2>1, ConstantsAssumption DEF Receive, FlowInv, HandedOverWasAllowed, RefusedForAReason
<1>13. CASE Measure
  BY <1>13, <1>2, <1>3, <1>4, ConstantsAssumption DEF Measure, Asking, FlowInv, HandedOverWasAllowed, RefusedForAReason
<1>14. CASE Confirm
  <2>1. CASE "caller" \in grants[source]
    <3>1. /\ pc' = IF family = "analysis" THEN "held" ELSE "measure"
          /\ UNCHANGED <<result, purpose, source>>
      BY <1>14, <2>1 DEF Confirm
    <3>2. source \in bounds /\ purpose = "invoke" /\ result # NoResult
          /\ result.source = source /\ result.content = wants
      BY <1>14 DEF Confirm, FlowInv
    <3>3. <<source, "caller">> \in lately'.grants /\ source \in bounds'
      BY <1>14, <1>3, <1>4, <2>1, <3>2 DEF Confirm
    <3>4. FlowInv'
      BY <1>2, <3>1, <3>2, <3>3 DEF FlowInv
    <3>5. HandedOverWasAllowed' /\ RefusedForAReason'
      BY <1>14, <1>2, <1>3, <1>4, <2>1, <3>1, <3>2, <3>3 DEF Confirm, HandedOverWasAllowed, RefusedForAReason
    <3>6. QED
      BY <3>4, <3>5
  <2>2. CASE "caller" \notin grants[source]
    BY <1>14, <1>2, <1>3, <1>4, <2>2 DEF Confirm, FlowInv, HandedOverWasAllowed, RefusedForAReason
  <2>3. QED
    BY <2>1, <2>2
<1>15. CASE Diagnose
  <2>1. result'.content = "diagnostic" /\ result' # NoResult
    BY <1>15, <1>4 DEF Diagnose
  <2>2. QED
    BY <1>15, <1>2, <1>3, <1>4, <2>1 DEF Diagnose, FlowInv, HandedOverWasAllowed, RefusedForAReason
<1>16. CASE Judge
  <2>1. result \in Result /\ source \in Sources /\ source \in bounds' /\ result.source = source
    BY <1>16, <1>3, <1>4 DEF Judge, FlowInv
  <2>2. result.proof \in BOOLEAN
    BY <2>1 DEF Result
  <2>3. FlowInv' /\ HandedOverWasAllowed'
    BY <1>16, <1>2, <1>3, <1>4, <2>1, <2>2 DEF Judge, SameCatalog, Asking, FlowInv, HandedOverWasAllowed
  <2>4. RefusedForAReason'
    BY <1>16, <1>2, <1>4, <2>1, <2>2 DEF Judge, SameCatalog, Asking, FlowInv, RefusedForAReason, Reason
  <2>5. QED
    BY <2>3, <2>4
<1>17. CASE Fail
  BY <1>17, <1>2, <1>3, <1>4 DEF Fail, FlowInv, HandedOverWasAllowed, RefusedForAReason
<1>18. QED
  BY <1>5, <1>6, <1>7, <1>8, <1>9, <1>10, <1>11, <1>12, <1>13, <1>14, <1>15, <1>16, <1>17 DEF Step

THEOREM Invariant == Spec => []Inv
<1>1. Inv /\ [Next]_vars => Inv'
  <2> SUFFICES ASSUME Inv, [Next]_vars PROVE Inv'
    OBVIOUS
  <2>1. TypeOK'
    BY TypeStep
  <2>2. FlowInv' /\ HandedOverWasAllowed' /\ RefusedForAReason'
    <3>1. CASE UNCHANGED vars
      BY <3>1 DEF vars, world, request, Inv, FlowInv, HandedOverWasAllowed, RefusedForAReason
    <3>2. CASE (Step \/ World) /\ Observe
      BY <3>2, StepInv, WorldInv
    <3>3. QED
      BY <3>1, <3>2 DEF Next, Done
  <2>3. QED
    BY <2>1, <2>2 DEF Inv
<1>2. QED
  BY InitInv, <1>1, PTL DEF Spec

-----------------------------------------------------------------------------
(* Theorems *)

\* The state of Reports keeps its type, for all sources, policies and versions.
THEOREM TypeCorrect == Spec => []TypeOK
BY Invariant, PTL DEF Inv

\* Invoke, AuthorizeResult and AuthorizeResultRead hand over only what a source
\* that was bound during the request allowed at a moment of its last check.
THEOREM HandedOver == Spec => []HandedOverWasAllowed
BY Invariant, PTL DEF Inv

\* authorizeResult refuses a saved result for a reason only; a read proof that a
\* catalog was saved without is none.
THEOREM RefusedWithReason == Spec => []RefusedForAReason
BY Invariant, PTL DEF Inv

-----------------------------------------------------------------------------
(* How often a request asks *)

Ended == pc \in {"held", "refused", "yes", "no"}

\* A report is confirmed before it is measured, an analysis after that.
StepsLeft ==
    CASE Ended -> 0
      [] pc = "measure" -> IF family = "report" THEN 1 ELSE 2
      [] pc = "confirm" -> IF family = "report" THEN 2 ELSE 1
      [] OTHER -> [idle |-> 8, policy |-> 7, present |-> 6, take |-> 5, ask |-> 4, run |-> 3,
                   judge |-> 1][pc]

\* Every step brings a request nearer to its answer, and nothing around it throws it
\* back, gives it another source or changes its result. Only a request for the release
\* of the result goes on from there.
RequestsRunDown ==
    [][/\ StepsLeft \in 0..8
       /\ StepsLeft = 0 <=> Ended
       /\ Step /\ ~Ended => StepsLeft' < StepsLeft
       /\ Step /\ Ended => asked' = asked + 1
       /\ ~Step => UNCHANGED <<pc, source, result, request>>]_vars

LEMMA StepsAreLeft == ASSUME TypeOK PROVE StepsLeft \in 0..8 /\ (StepsLeft = 0 <=> Ended)
BY DEF TypeOK, Stage, StepsLeft, Ended

LEMMA StepRunsDown ==
    ASSUME TypeOK, Step
    PROVE  /\ ~Ended => StepsLeft' < StepsLeft
           /\ Ended => asked' = asked + 1
<1> USE DEF TypeOK, StepsLeft, Ended, Goto, Require, request
<1>0. family \in {"report", "analysis"}
  BY ConstantsAssumption
<1>1. CASE Begin
  BY <1>1 DEF Begin
<1>2. CASE AskRelease
  BY <1>2 DEF AskRelease
<1>3. CASE AskPolicy
  BY <1>3 DEF AskPolicy
<1>4. CASE SourcePresent
  BY <1>4 DEF SourcePresent
<1>5. CASE Take
  BY <1>5 DEF Take
<1>6. CASE AskAvailable
  BY <1>6 DEF AskAvailable
<1>7. CASE Ask
  BY <1>7 DEF Ask
<1>8. CASE Receive
  BY <1>0, <1>8 DEF Receive
<1>9. CASE Measure
  BY <1>0, <1>9 DEF Measure, Asking
<1>10. CASE Confirm
  BY <1>0, <1>10 DEF Confirm
<1>11. CASE Diagnose
  BY <1>11 DEF Diagnose
<1>12. CASE Judge
  BY <1>12 DEF Judge
<1>13. CASE Fail
  BY <1>0, <1>13 DEF Fail
<1>14. QED
  BY <1>1, <1>2, <1>3, <1>4, <1>5, <1>6, <1>7, <1>8, <1>9, <1>10, <1>11, <1>12, <1>13 DEF Step

\* Report and analysis tools answer, hand over or refuse after at most eight steps,
\* whatever becomes of the source, the grants and the catalog on the way: none of
\* the checks is begun again.
THEOREM RequestsComeToAnEnd == Spec => RequestsRunDown
<1> DEFINE RunsDown ==
        /\ StepsLeft \in 0..8
        /\ StepsLeft = 0 <=> Ended
        /\ Step /\ ~Ended => StepsLeft' < StepsLeft
        /\ Step /\ Ended => asked' = asked + 1
        /\ ~Step => UNCHANGED <<pc, source, result, request>>
<1>1. ASSUME TypeOK, [Next]_vars PROVE RunsDown
  <2>1. ~Step => UNCHANGED <<pc, source, result, request>>
    BY <1>1 DEF Next, World, Done, vars
  <2>2. QED
    BY <1>1, <2>1, StepsAreLeft, StepRunsDown
<1>2. TypeOK /\ [Next]_vars => [RunsDown]_vars
  <2> HIDE DEF RunsDown
  <2>1. QED
    BY <1>1
<1>3. QED
  BY <1>2, TypeCorrect, PTL DEF Spec, RequestsRunDown

-----------------------------------------------------------------------------
(* The clock tool *)

\* The zone of an empty name.
LEMMA UTCIsAZone == UTC \in Zones
BY ZonesAssumption DEF UTC, Zones

\* Division: equal sums have equal quotients.
LEMMA QuotientsMove ==
    ASSUME NEW unit \in Nat \ {0}, NEW k \in Int, NEW m \in Int, NEW days \in Int,
           NEW r \in 0..unit - 1, NEW s \in 0..unit - 1,
           unit * k + r = unit * m + s + days * unit
    PROVE  k = m + days
<1> DEFINE d == k - m - days
<1>1. d \in Int /\ d * unit = s - r
  OBVIOUS
<1> HIDE DEF d
<1>2. d >= 1 => d * unit >= unit
  BY <1>1
<1>3. d <= -1 => d * unit <= -unit
  BY <1>1
<1>4. d = 0
  BY <1>1, <1>2, <1>3
<1> QED
  BY <1>4 DEF d

\* A date moves by as many days as its wall time is moved by whole days.
LEMMA DayMoves ==
    ASSUME NEW wall \in Int, NEW days \in Int, NEW later \in Int,
           later = wall + days * Units
    PROVE  DayOf(wall) \in Int /\ DayOf(later) = DayOf(wall) + days
<1>1. /\ DayOf(wall) \in Int /\ DayOf(later) \in Int
      /\ wall % Units \in 0..Units - 1 /\ later % Units \in 0..Units - 1
      /\ wall = Units * DayOf(wall) + (wall % Units)
      /\ later = Units * DayOf(later) + (later % Units)
  BY ZonesAssumption DEF DayOf
<1> QED
  BY <1>1, QuotientsMove, ZonesAssumption

\* Wall times at most a day apart are at most one date apart.
LEMMA DaysNear ==
    ASSUME NEW v \in Int, NEW w \in Int, v - w \in -Units..Units
    PROVE  DayOf(v) - DayOf(w) \in -1..1
<1> DEFINE k == DayOf(v) - DayOf(w)
<1>1. /\ DayOf(v) \in Int /\ DayOf(w) \in Int
      /\ v % Units \in 0..Units - 1 /\ w % Units \in 0..Units - 1
      /\ v = Units * DayOf(v) + (v % Units)
      /\ w = Units * DayOf(w) + (w % Units)
  BY ZonesAssumption DEF DayOf
<1>2. k \in Int /\ k * Units = (v - w) + ((w % Units) - (v % Units))
  BY <1>1, ZonesAssumption
<1> HIDE DEF k
<1>3. k >= 2 => k * Units >= 2 * Units
  BY <1>2, ZonesAssumption
<1>4. k <= -2 => k * Units <= -(2 * Units)
  BY <1>2, ZonesAssumption
<1>5. k \in -1..1
  BY <1>1, <1>2, <1>3, <1>4, ZonesAssumption
<1> QED
  BY <1>5 DEF k

\* The table of Resolve names the date that is meant.
LEMMA DaysAreMeant ==
    ASSUME NEW relative \in Relatives, NEW day \in Int
    PROVE  Days(relative, day) \in Int /\ Meant(relative, day) = day + Days(relative, day)
<1>1. CASE relative = "next_week"
  <2> DEFINE n == Days(relative, day)
  <2>1. n = IF day % 7 = 0 THEN 1 ELSE 8 - (day % 7)
    BY <1>1 DEF Days, Weekday
  <2>2. /\ n \in 1..7
        /\ (day + n) % 7 = 1
        /\ \A d \in day + 1..day + 7 : d % 7 = 1 => d = day + n
    BY <2>1
  <2> HIDE DEF n
  <2>3. day + n \in day + 1..day + 7 /\ n \in Int
    BY <2>2
  <2>4. \A d \in day + 1..day + 7 : Weekday(d) = 1 <=> d = day + n
    BY <2>2, <2>3 DEF Weekday
  <2>5. Meant(relative, day) = CHOOSE d \in day + 1..day + 7 : Weekday(d) = 1
    BY <1>1 DEF Meant
  <2> QED
    BY <2>3, <2>4, <2>5 DEF n
<1>2. CASE relative # "next_week"
  BY <1>2 DEF Days, Meant, Relatives
<1> QED
  BY <1>1, <1>2

\* An instant that time.Date returns shows the wall time it is given, or there
\* is none that does and it is off by the change.
LEMMA InstantsShow ==
    ASSUME NEW zone \in Zones, NEW wall \in Int, NEW t \in Instants(zone, wall)
    PROVE  /\ t \in Int /\ Wall(zone, t) \in Int
           /\ \/ Wall(zone, t) = wall
              \/ Skipped(zone, wall) /\ Wall(zone, t) - wall \in -Units..Units
BY ZonesAssumption DEF Zones, Instants, Wall, Skipped

\* Resolve: whatever is asked, by whomever, in whichever zone and at whichever
\* moment.
THEOREM DatesMeant ==
    ASSUME question \in Questions, moment \in Int
    PROVE  DatesAreMeant
<1> DEFINE named == Named(question)
           zone  == Location(named.zone)
           day   == DayOf(Wall(zone, moment))
           n     == Days(question.relative, day)
           refused == ~Loads(question.user) \/ ~Loads(question.timezone)
                        \/ question.relative \notin Relatives \cup {""}
<1>1. SUFFICES ASSUME NEW answer \in Resolve(question, moment), answer.ok,
                      question.relative # "", NEW date \in answer.resolved
               PROVE  LET meant == Meant(question.relative, answer.date)
                          wall  == answer.wall + (meant - answer.date) * Units
                      IN \/ date = meant
                         \/ /\ Skipped(Location(answer.timezone), wall)
                            /\ date \in {meant - 1, meant + 1}
  BY DEF DatesAreMeant, ResolvedIsMeant
<1>2. ~refused
  <2>1. refused => Resolve(question, moment) = {[ok |-> FALSE]}
    BY DEF Resolve
  <2>2. refused => answer = [ok |-> FALSE]
    BY <1>1, <2>1
  <2>3. answer = [ok |-> FALSE] => ~answer.ok
    OBVIOUS
  <2> QED
    BY <1>1, <2>2, <2>3
<1>3. question.relative \in Relatives
  BY <1>1, <1>2
<1>4. /\ answer.timezone = named.zone
      /\ answer.wall = Wall(zone, moment)
      /\ answer.date = day
      /\ \E t \in AddDate(zone, moment, n) : date = DayOf(Wall(zone, t))
  <2>1. Resolve(question, moment) =
          {[ok |-> TRUE, timezone |-> named.zone, source |-> named.source,
            wall |-> Wall(zone, moment), date |-> day, weekday |-> Weekday(day),
            resolved |-> {DayOf(Wall(zone, t))}] : t \in AddDate(zone, moment, n)}
    BY <1>1, <1>2 DEF Resolve
  <2> HIDE DEF named, zone, day, n
  <2>2. PICK t \in AddDate(zone, moment, n) :
           answer = [ok |-> TRUE, timezone |-> named.zone, source |-> named.source,
                     wall |-> Wall(zone, moment), date |-> day, weekday |-> Weekday(day),
                     resolved |-> {DayOf(Wall(zone, t))}]
    BY <1>1, <2>1
  <2> QED
    BY <1>1, <2>2
<1>5. PICK t \in AddDate(zone, moment, n) : date = DayOf(Wall(zone, t))
  BY <1>4
<1>6. zone \in Zones
  BY <1>2, UTCIsAZone, ZonesAssumption DEF Loads, Location, Named, Questions
<1> HIDE DEF named, zone, refused
<1>7. Wall(zone, moment) \in Int
  BY <1>6 DEF Zones, Wall
<1> DEFINE wall == Wall(zone, moment) + n * Units
<1>8. /\ day \in Int /\ n \in Int /\ Meant(question.relative, day) = day + n
      /\ wall \in Int /\ DayOf(wall) = day + n
  <2>1. day \in Int
    BY <1>7, ZonesAssumption DEF DayOf
  <2>2. n \in Int /\ Meant(question.relative, day) = day + n
    BY <1>3, <2>1, DaysAreMeant
  <2>3. wall \in Int
    BY <1>7, <2>2, ZonesAssumption
  <2> QED
    BY <1>7, <2>1, <2>2, <2>3, DayMoves
<1>9. answer.wall + (Meant(question.relative, answer.date) - answer.date) * Units = wall
  BY <1>4, <1>8
<1>10. t \in Instants(zone, wall)
  BY <1>5 DEF AddDate
<1> HIDE DEF wall, day, n
<1>11. CASE Wall(zone, t) = wall
  BY <1>4, <1>5, <1>8, <1>11
<1>12. CASE Skipped(zone, wall) /\ Wall(zone, t) - wall \in -Units..Units
  <2>1. Wall(zone, t) \in Int
    BY <1>6, <1>8, <1>10, InstantsShow
  <2>2. DayOf(Wall(zone, t)) - DayOf(wall) \in -1..1 /\ DayOf(Wall(zone, t)) \in Int
    BY <1>8, <1>12, <2>1, DaysNear, ZonesAssumption DEF DayOf
  <2>3. date \in {day + n - 1, day + n, day + n + 1}
    BY <1>5, <1>8, <2>2
  <2> QED
    BY <1>4, <1>8, <1>9, <1>12, <2>3 DEF zone
<1> QED
  BY <1>6, <1>8, <1>10, <1>11, <1>12, InstantsShow

-----------------------------------------------------------------------------
(* The decimal that is shown *)

\* What the quotient and the remainder of DecimalRound are.
LEMMA Divided ==
    ASSUME NEW num \in Nat, NEW den \in Nat \ {0}, NEW unit \in Nat \ {0}
    PROVE  /\ num * unit \in Nat
           /\ (num * unit) \div den \in Nat
           /\ (num * unit) % den \in 0..den - 1
           /\ num * unit = den * ((num * unit) \div den) + ((num * unit) % den)
<1> DEFINE scaled == num * unit
<1>1. scaled \in Nat
  OBVIOUS
<1> HIDE DEF scaled
<1>2. /\ scaled \div den \in Int
      /\ scaled % den \in 0..den - 1
      /\ scaled = den * (scaled \div den) + (scaled % den)
  BY <1>1
<1>3. \A q \in Int : q <= -1 => den * q <= -den
  OBVIOUS
<1>4. scaled \div den \in Nat
  BY <1>1, <1>2, <1>3
<1> QED
  BY <1>1, <1>2, <1>4 DEF scaled

\* The difference of two products with one factor in common.
LEMMA Products ==
    ASSUME NEW x \in Int, NEW y \in Int, NEW factor \in Nat \ {0}
    PROVE  /\ x * factor \in Int
           /\ x <= y <=> x * factor <= y * factor
           /\ x = y <=> x * factor = y * factor
           /\ (x - y) * factor = x * factor - y * factor
           /\ (2 * x) * factor = 2 * (x * factor)
<1>1. (x - y) * factor = x * factor - y * factor /\ x * factor \in Int /\ y * factor \in Int
  OBVIOUS
<1>2. /\ x - y >= 1 => (x - y) * factor >= 1
      /\ x - y <= -1 => (x - y) * factor <= -1
  OBVIOUS
<1> QED
  BY <1>1, <1>2

\* Nearest leaves no choice: of two values the larger is not given fewer units.
LEMMA NearestIsOrderly ==
    ASSUME NEW num \in Nat, NEW den \in Nat \ {0}, NEW unit \in Nat \ {0},
           NEW larger \in Nat, NEW under \in Nat \ {0}, num * under <= larger * den,
           NEW rounding \in Roundings, NEW m \in Nat, NEW n \in Nat,
           Nearest(num, den, unit, rounding, m), Nearest(larger, under, unit, rounding, n)
    PROVE  m <= n
<1> DEFINE a == num * unit
           b == m * den
           c == larger * unit
           d == n * under
           both == den * under
<1>1. /\ a \in Int /\ b \in Int /\ c \in Int /\ d \in Int /\ both \in Nat \ {0}
      /\ a * under \in Int /\ c * den \in Int
      /\ b * under = m * both /\ d * den = n * both
      /\ (n + 1) * under = d + under /\ (d + under) * den = n * both + both
  OBVIOUS
<1>2. a * under <= c * den
  <2>1. a * under = (num * under) * unit /\ c * den = (larger * den) * unit
    OBVIOUS
  <2> QED
    BY <2>1, Products
<1>3. ~(m <= n) => m * both >= n * both + both /\ (m * both = n * both + both => m = n + 1)
  <2>1. (n + 1) * both = n * both + both
    BY <1>1
  <2> QED
    BY <1>1, <2>1, Products
<1>4. m * both \in Int /\ n * both \in Int
  BY <1>1
<1>5. CASE rounding = "toward_zero"
  <2>1. b <= a /\ c < d + under
    BY <1>1, <1>5 DEF Nearest
  <2> HIDE DEF a, b, c, d, both
  <2>2. m * both <= a * under /\ c * den < n * both + both
    BY <1>1, <2>1, Products
  <2> QED
    BY <1>1, <1>2, <1>3, <1>4, <2>2
<1>6. CASE rounding # "toward_zero"
  <2>1. /\ 2 * (b - a) <= den /\ -under <= 2 * (d - c)
        /\ 2 * (b - a) = den  => rounding = "half_up" \/ m % 2 = 0
        /\ 2 * (d - c) = -under => rounding = "half_even" /\ n % 2 = 0
    BY <1>6 DEF Nearest
  <2> HIDE DEF a, b, c, d
  <2>2. /\ (2 * (b - a)) * under = 2 * (m * both - a * under)
        /\ (2 * (d - c)) * den = 2 * (n * both - c * den)
        /\ (-under) * den = -both
    BY <1>1
  <2>3. /\ 2 * (m * both - a * under) <= both
        /\ -both <= 2 * (n * both - c * den)
        /\ 2 * (m * both - a * under) = both => 2 * (b - a) = den
        /\ 2 * (n * both - c * den) = -both => 2 * (d - c) = -under
    BY <1>1, <2>1, <2>2, Products
  <2> HIDE DEF both
  <2>4. ~(m <= n) => m = n + 1 /\ m % 2 = 0 /\ n % 2 = 0
    BY <1>1, <1>2, <1>3, <1>4, <2>1, <2>3
  <2> QED
    BY <2>4
<1> QED
  BY <1>5, <1>6

\* DecimalRound: the number of units is the nearest one, for every value, every
\* precision and every rounding.
LEMMA RoundedIsNearest ==
    ASSUME NEW num \in Nat, NEW den \in Nat \ {0}, NEW unit \in Nat \ {0},
           NEW rounding \in Roundings
    PROVE  /\ RoundedUnits(num, den, unit, rounding) \in Nat
           /\ Nearest(num, den, unit, rounding, RoundedUnits(num, den, unit, rounding))
<1> DEFINE a == num * unit
           q == a \div den
           r == a % den
           units == RoundedUnits(num, den, unit, rounding)
<1>1. a \in Nat /\ q \in Nat /\ r \in 0..den - 1 /\ a = den * q + r
  BY Divided
<1>2. units = IF RoundsUp(2 * r, den, q, rounding) THEN q + 1 ELSE q
  BY <1>1 DEF RoundedUnits
<1> HIDE DEF q, r, units
<1>3. q * den = a - r /\ (q + 1) * den = a - r + den /\ (q + 1 + 1) * den = a - r + 2 * den
  BY <1>1
<1> HIDE DEF a
<1>4. units \in Nat
  BY <1>1, <1>2
<1>5. CASE RoundsUp(2 * r, den, q, rounding)
  <2>1. units * den - a = den - r /\ units = q + 1
    BY <1>1, <1>2, <1>3, <1>5
  <2>2. /\ rounding # "toward_zero"
        /\ 2 * r > den \/ (2 * r = den /\ (rounding = "half_up" \/ q % 2 = 1))
    BY <1>5 DEF RoundsUp
  <2>3. Nearest(num, den, unit, rounding, units)
    BY <1>1, <2>1, <2>2 DEF Nearest, a
  <2> QED
    BY <1>4, <2>3 DEF units
<1>6. CASE ~RoundsUp(2 * r, den, q, rounding)
  <2>1. units * den - a = -r /\ units = q /\ (units + 1) * den = a - r + den
    BY <1>1, <1>2, <1>3, <1>6
  <2>2. rounding = "toward_zero" \/ 2 * r < den
          \/ (2 * r = den /\ rounding = "half_even" /\ q % 2 = 0)
    BY <1>1, <1>6 DEF RoundsUp, Roundings
  <2>3. Nearest(num, den, unit, rounding, units)
    BY <1>1, <2>1, <2>2 DEF Nearest, a
  <2> QED
    BY <1>4, <2>3 DEF units
<1> QED
  BY <1>5, <1>6

\* DecimalRound: what is shown is the one nearest number of units.
THEOREM RoundingIsExact ==
    ASSUME NEW num \in Nat, NEW den \in Nat \ {0}, NEW unit \in Nat \ {0},
           NEW rounding \in Roundings
    PROVE  \A units \in Nat :
              Nearest(num, den, unit, rounding, units)
                <=> units = RoundedUnits(num, den, unit, rounding)
<1> SUFFICES ASSUME NEW units \in Nat, Nearest(num, den, unit, rounding, units)
             PROVE  units = RoundedUnits(num, den, unit, rounding)
  BY RoundedIsNearest
<1> DEFINE rounded == RoundedUnits(num, den, unit, rounding)
<1>1. num * den <= num * den
  OBVIOUS
<1>2. rounded \in Nat /\ Nearest(num, den, unit, rounding, rounded)
  BY RoundedIsNearest
<1> HIDE DEF rounded
<1>3. units <= rounded /\ rounded <= units
  BY <1>1, <1>2, NearestIsOrderly
<1> QED
  BY <1>2, <1>3 DEF rounded

\* DecimalRound never shows a larger value as the smaller one.
THEOREM RoundingKeepsOrder ==
    ASSUME NEW num \in Nat, NEW den \in Nat \ {0}, NEW unit \in Nat \ {0},
           NEW larger \in Nat, NEW under \in Nat \ {0}, num * under <= larger * den,
           NEW rounding \in Roundings
    PROVE  RoundedUnits(num, den, unit, rounding) <= RoundedUnits(larger, under, unit, rounding)
BY RoundedIsNearest, NearestIsOrderly

\* DecimalRound says that it rounded if and only if what it shows is not the value.
THEOREM RoundingIsTold ==
    ASSUME NEW num \in Nat, NEW den \in Nat \ {0}, NEW unit \in Nat \ {0},
           NEW rounding \in Roundings
    PROVE  RoundedAway(num, den, unit)
             <=> RoundedUnits(num, den, unit, rounding) * den # num * unit
<1> DEFINE a == num * unit
           q == a \div den
           r == a % den
           units == RoundedUnits(num, den, unit, rounding)
<1>1. a \in Nat /\ q \in Nat /\ r \in 0..den - 1 /\ a = den * q + r
  BY Divided
<1>2. /\ units \in {q, q + 1}
      /\ r = 0 => units = q
  BY <1>1 DEF RoundedUnits, RoundsUp
<1>3. RoundedAway(num, den, unit) <=> r # 0
  BY DEF RoundedAway
<1> HIDE DEF q, r, units
<1>4. q * den = a - r /\ (q + 1) * den = a - r + den
  BY <1>1
<1> QED
  BY <1>1, <1>2, <1>3, <1>4 DEF units
=============================================================================
