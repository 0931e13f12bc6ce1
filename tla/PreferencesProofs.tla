--------------------------- MODULE PreferencesProofs ---------------------------
(***************************************************************************)
(* Safety of the tool settings for any number of users, tools, versions,   *)
(* requests and revisions, and that the table is one register for each     *)
(* user and tool.                                                          *)
(***************************************************************************)
EXTENDS Preferences, FiniteSetTheorems, TLAPS

-----------------------------------------------------------------------------
(* The inductive invariant *)

\* The history record of the update that request c asks for.
UpdateOf(c) == [by |-> c, row |-> <<input[c].user, input[c].tool>>,
                expected |-> input[c].expected, enabled |-> input[c].enabled]

\* What a request has established by the stage it has reached.
RequestInv(c) ==
    /\ reply[c] # "none" => pc[c] = "done"
    /\ pc[c] = "save" => input[c].kind = "update" /\ c \in seenVersion
    /\ input[c].kind = "update" =>
          /\ tool[c] = input[c].tool
          /\ todo[c] = {}
          /\ pc[c] # "read"
          /\ pc[c] = "connect" \/ reply[c] = "ok" => UpdateOf(c) \in applied

\* What an update the table took stands for.
TakenInv(u) ==
    /\ u = UpdateOf(u.by)
    /\ u.by \in seenVersion
    /\ input[u.by].kind = "update"
    /\ pc[u.by] \in {"connect", "done"}
    /\ reply[u.by] \in {"none", "ok", "yes", "no", "unavailable"}
    /\ u.expected < rows[u.row].revision

Taken(r) == {u \in applied : u.row = r}

\* What a row of the table holds.
RowInv(r) ==
    /\ rows[r].revision = Cardinality(Taken(r))
    /\ \A u \in Taken(r) : u.expected + 1 = rows[r].revision => u.enabled = rows[r].enabled

IInv ==
    /\ TypeOK
    /\ IsFiniteSet(applied)
    /\ OneWinnerPerRevision
    /\ \A c \in Calls : RequestInv(c)
    /\ \A u \in applied : TakenInv(u)
    /\ \A r \in Row : RowInv(r)

-----------------------------------------------------------------------------
(* Types *)

LEMMA RequestTypes ==
    /\ Requests \subseteq Input
    /\ \A i \in Input : /\ i.kind \in Kind /\ i.user \in Users /\ i.tool \in Tools
                        /\ i.enabled \in BOOLEAN /\ i.expected \in -1..MaxRevision
                        /\ i.version \in Versions
    /\ MaxRevision \in Nat \ {0}
    /\ MaxChanges \in Nat
    /\ Default \in Preference
BY ConstantsAssumption DEF Input, Default, Preference

LEMMA InitTypes == Init => TypeOK
BY RequestTypes DEF Init, TypeOK, Stage, Status, Connection, Row

\* The part of the state that a request itself changes.
CoreTypes ==
    /\ rows \in [Row -> Preference]
    /\ pc \in [Calls -> Stage]
    /\ todo \in [Calls -> SUBSET Tools]
    /\ tool \in [Calls -> Tools]
    /\ pref \in [Calls -> Preference]
    /\ items \in [Calls -> SUBSET Setting]
    /\ reply \in [Calls -> Status]
    /\ applied \subseteq Update

LEMMA ObserveTypes == ASSUME TypeOK, CoreTypes', UNCHANGED input, Observe
                      PROVE  seen' \in [Calls -> SUBSET (Tools \X Preference)] /\ seenVersion' \subseteq Calls
<1>1. \A c \in Calls, t \in Tools : rows'[<<input[c].user, t>>] \in Preference
  BY RequestTypes DEF CoreTypes, TypeOK, Row
<1>2. ASSUME NEW c \in Calls
      PROVE  {<<t, rows'[<<input[c].user, t>>]>> : t \in Tools} \subseteq Tools \X Preference
  <2>1. \A t \in Tools : <<t, rows'[<<input[c].user, t>>]>> \in Tools \X Preference
    BY <1>1
  <2>2. QED
    BY <2>1, Zenon
<1>3. seen' \in [Calls -> SUBSET (Tools \X Preference)]
  BY <1>2 DEF Observe, TypeOK
<1>4. QED
  BY <1>3 DEF Observe, TypeOK

LEMMA SaveTypes == ASSUME TypeOK, NEW c \in Calls, Save(c) PROVE CoreTypes'
<1> DEFINE next == [enabled |-> input[c].enabled, revision |-> input[c].expected + 1]
           entry == [by |-> c, row |-> RowOf(c),
                     expected |-> input[c].expected, enabled |-> input[c].enabled]
<1>1. input[c] \in Input
  BY RequestTypes DEF TypeOK
<1>2. RowOf(c) \in Row
  BY <1>1, RequestTypes DEF RowOf, Row, TypeOK
<1>3. Savable(c) => input[c].expected \in 0..(MaxRevision - 1)
  BY <1>1, RequestTypes DEF Savable
<1>4. Savable(c) => next \in Preference /\ entry \in Update
  BY <1>1, <1>2, <1>3, RequestTypes DEF Preference, Update
<1>5. /\ pc' \in [Calls -> Stage]
      /\ reply' \in [Calls -> Status]
      /\ UNCHANGED <<todo, tool, items>>
  BY DEF Save, AfterCommit, Unfitting, Goto, Answer, TypeOK, Stage, Status
<1>6. CASE Savable(c) /\ Fits(c)
  <2>1. /\ rows' = [rows EXCEPT ![RowOf(c)] = next]
        /\ applied' = applied \cup {entry}
        /\ pref' = [pref EXCEPT ![c] = next]
    BY <1>6 DEF Save
  <2>2. QED
    BY <1>4, <1>5, <1>6, <2>1 DEF CoreTypes, TypeOK
<1>7. CASE ~(Savable(c) /\ Fits(c))
  <2>1. UNCHANGED <<rows, applied, pref>>
    BY <1>7 DEF Save
  <2>2. QED
    BY <1>5, <2>1 DEF CoreTypes, TypeOK
<1>8. QED
  BY <1>6, <1>7

LEMMA StepTypes == ASSUME TypeOK, NEW c \in Calls, Step(c) PROVE TypeOK'
<1> USE DEF Stage, Status
<1>1. UNCHANGED <<input, world>> /\ Observe
  BY DEF Step, Start, ReadCatalog, Save, Read, Connect, Fail
<1>2. ASSUME Start(c) PROVE CoreTypes'
  BY <1>2 DEF Start, Goto, Answer, CoreTypes, TypeOK
<1>3. ASSUME ReadCatalog(c) PROVE CoreTypes'
  BY <1>3 DEF ReadCatalog, ReadNext, Goto, Answer, CoreTypes, TypeOK
<1>4. ASSUME Save(c) PROVE CoreTypes'
  BY <1>4, SaveTypes
<1>5. ASSUME Read(c) PROVE CoreTypes'
  <2>1. rows[RowOf(c)] \in Preference
    BY RequestTypes DEF RowOf, Row, TypeOK
  <2>2. QED
    BY <1>5, <2>1 DEF Read, ReadRow, Goto, CoreTypes, TypeOK
<1>6. ASSUME Connect(c) PROVE CoreTypes'
  <2>1. StateOf(c) \in State /\ Availability(c) \in Status
    BY DEF StateOf, Availability, State
  <2>2. [tool |-> tool[c], pref |-> pref[c], state |-> StateOf(c)] \in Setting
    BY <2>1 DEF Setting, TypeOK
  <2>3. items' \in [Calls -> SUBSET Setting]
    BY <1>6, <2>2 DEF Connect, TypeOK
  <2>4. QED
    BY <1>6, <2>1, <2>3 DEF Connect, ReadNext, Goto, Answer, CoreTypes, TypeOK
<1>7. ASSUME Fail(c) PROVE CoreTypes'
  BY <1>7 DEF Fail, Goto, Answer, CoreTypes, TypeOK
<1>8. CoreTypes'
  BY <1>2, <1>3, <1>4, <1>5, <1>6, <1>7 DEF Step
<1>9. QED
  BY <1>1, <1>8, ObserveTypes DEF TypeOK, CoreTypes, world

LEMMA WorldTypes == ASSUME TypeOK, World PROVE TypeOK'
<1>1. UNCHANGED <<rows, applied, request>> /\ Observe
  BY DEF World, Change
<1>2. CoreTypes'
  BY <1>1 DEF CoreTypes, TypeOK, request
<1>3. changes' \in 0..MaxChanges
  BY RequestTypes DEF World, Change, TypeOK
<1>4. /\ catalog' \in [Tools -> Versions \cup {NotListed}]
      /\ access' \subseteq Users
      /\ connection' \in [Tools -> Connection]
  BY DEF World, SetCatalog, SetAccess, SetConnection, TypeOK
<1>5. QED
  BY <1>1, <1>2, <1>3, <1>4, ObserveTypes DEF TypeOK, CoreTypes, request

-----------------------------------------------------------------------------
(* A step that saves nothing keeps what the updates stand for *)

LEMMA InitIInv == Init => IInv
<1> SUFFICES ASSUME Init PROVE IInv
  OBVIOUS
<1>1. IsFiniteSet(applied) /\ OneWinnerPerRevision
  BY FS_EmptySet DEF Init, OneWinnerPerRevision
<1>2. \A r \in Row : RowInv(r)
  <2>1. \A r \in Row : Taken(r) = {} /\ rows[r].revision = 0
    BY DEF Init, Taken, Default
  <2>2. QED
    BY <2>1, FS_EmptySet DEF RowInv
<1>3. \A c \in Calls : RequestInv(c)
  BY DEF Init, RequestInv
<1>4. \A u \in applied : TakenInv(u)
  BY DEF Init
<1>5. QED
  BY <1>1, <1>2, <1>3, <1>4, InitTypes DEF IInv

\* With the table and the history of updates unchanged, only the stages that
\* requests have reached can disturb the invariant.
LEMMA UnsavedKeepsIInv ==
    ASSUME IInv, TypeOK', UNCHANGED <<rows, applied, input>>, seenVersion \subseteq seenVersion',
           \A c \in Calls : RequestInv(c)',
           \A u \in applied : pc'[u.by] \in {"connect", "done"}
                              /\ reply'[u.by] \in {"none", "ok", "yes", "no", "unavailable"}
    PROVE  IInv'
<1>1. \A u \in applied' : TakenInv(u)'
  BY DEF IInv, TakenInv, UpdateOf
<1>2. \A r \in Row : RowInv(r)'
  BY DEF IInv, RowInv, Taken
<1>3. IsFiniteSet(applied') /\ OneWinnerPerRevision'
  BY DEF IInv, OneWinnerPerRevision
<1>4. QED
  BY <1>1, <1>2, <1>3 DEF IInv

LEMMA OtherRequestsInv ==
    ASSUME IInv, NEW c \in Calls, NEW d \in Calls, c # d, Step(c)
    PROVE  /\ RequestInv(d)'
           /\ pc'[d] = pc[d] /\ reply'[d] = reply[d]
<1>1. /\ pc'[d] = pc[d] /\ reply'[d] = reply[d]
      /\ tool'[d] = tool[d] /\ todo'[d] = todo[d]
      /\ input' = input /\ applied \subseteq applied' /\ seenVersion \subseteq seenVersion'
  BY DEF IInv, TypeOK, Step, Start, ReadCatalog, ReadNext, Save, AfterCommit, Unfitting, Read,
         ReadRow, Connect, Fail, Goto, Answer, Observe
<1>2. QED
  BY <1>1 DEF IInv, RequestInv, UpdateOf

LEMMA UnsavingStepKeepsIInv ==
    ASSUME IInv, NEW c \in Calls, Step(c), ~(pc[c] = "save" /\ Savable(c) /\ Fits(c))
    PROVE  IInv' /\ UNCHANGED rows
<1> DEFINE Reached == pc'[c] \in {"connect", "done"}
                      /\ reply'[c] \in {"none", "ok", "yes", "no", "unavailable"}
<1> TypeOK /\ RequestInv(c)
  BY DEF IInv
<1>1. /\ UNCHANGED <<rows, applied, input>>
      /\ seenVersion \subseteq seenVersion'
      /\ pc'[c] \notin {"idle", "done"} /\ catalog'[input[c].tool] = input[c].version => c \in seenVersion'
  BY DEF Step, Start, ReadCatalog, Save, Read, Connect, Fail, Observe
<1>2. ASSUME Start(c) PROVE RequestInv(c)' /\ pc[c] = "idle"
  BY <1>1, <1>2 DEF Start, Goto, Answer, RequestInv, TypeOK
<1>3. ASSUME ReadCatalog(c) PROVE RequestInv(c)' /\ pc[c] = "catalog"
  BY <1>1, <1>3 DEF ReadCatalog, NamesCurrent, ReadNext, Goto, Answer, RequestInv, TypeOK, world
<1>4. ASSUME Save(c) PROVE RequestInv(c)' /\ pc[c] = "save"
  BY <1>1, <1>4 DEF Save, Unfitting, Goto, Answer, RequestInv, TypeOK
<1>5. ASSUME Read(c) PROVE RequestInv(c)' /\ pc[c] = "read"
  BY <1>1, <1>5 DEF Read, Goto, RequestInv, TypeOK
<1>6. ASSUME Connect(c) PROVE RequestInv(c)' /\ (input[c].kind = "update" => Reached)
  <2>1. input[c].kind = "update" => todo[c] \ {tool[c]} = {} /\ UpdateOf(c) \in applied /\ reply[c] = "none"
    BY <1>6 DEF Connect, RequestInv, TypeOK, Status
  <2>2. input[c].kind = "update" => pc'[c] = "done" /\ reply'[c] = "ok" /\ UNCHANGED tool /\ todo'[c] = {}
    BY <1>6, <2>1 DEF Connect, ReadNext, Answer, Goto, TypeOK
  <2>3. pc'[c] \in {"read", "done"} /\ (reply'[c] # "none" => pc'[c] = "done")
    BY <1>6 DEF Connect, ReadNext, Answer, Goto, TypeOK, RequestInv
  <2>4. QED
    BY <1>1, <2>1, <2>2, <2>3 DEF RequestInv, UpdateOf
<1>7. ASSUME Fail(c) PROVE RequestInv(c)' /\ Reached /\ pc[c] # "done"
  BY <1>1, <1>7 DEF Fail, Interruptible, Goto, Answer, RequestInv, TypeOK
<1>8. RequestInv(c)'
  BY <1>2, <1>3, <1>4, <1>5, <1>6, <1>7 DEF Step
<1>9. \A d \in Calls : RequestInv(d)'
  BY <1>8, OtherRequestsInv
<1>10. ASSUME NEW u \in applied
       PROVE  pc'[u.by] \in {"connect", "done"}
              /\ reply'[u.by] \in {"none", "ok", "yes", "no", "unavailable"}
  <2>1. u.by \in Calls /\ TakenInv(u)
    BY DEF IInv, TypeOK, Update
  <2>2. CASE u.by # c
    BY <2>1, <2>2, OtherRequestsInv DEF TakenInv
  <2>3. CASE u.by = c
    BY <2>1, <2>3, <1>2, <1>3, <1>4, <1>5, <1>6, <1>7 DEF Step, TakenInv
  <2>4. QED
    BY <2>2, <2>3
<1>11. QED
  BY <1>1, <1>9, <1>10, StepTypes, UnsavedKeepsIInv

LEMMA WorldKeepsIInv == ASSUME IInv, World \/ UNCHANGED vars PROVE IInv' /\ UNCHANGED rows
<1>1. UNCHANGED <<rows, applied, request>> /\ seenVersion \subseteq seenVersion'
  BY DEF World, Change, Observe, vars, request, history
<1>2. TypeOK'
  <2>1. CASE World
    BY <2>1, WorldTypes DEF IInv
  <2>2. CASE UNCHANGED vars
    BY <2>2 DEF IInv, TypeOK, vars, world, request, history
  <2>3. QED
    BY <2>1, <2>2
<1>3. \A c \in Calls : RequestInv(c)'
  BY <1>1 DEF IInv, RequestInv, UpdateOf, request
<1>4. \A u \in applied : pc'[u.by] \in {"connect", "done"}
                         /\ reply'[u.by] \in {"none", "ok", "yes", "no", "unavailable"}
  BY <1>1 DEF IInv, TakenInv, request
<1>5. QED
  BY <1>1, <1>2, <1>3, <1>4, UnsavedKeepsIInv DEF request

-----------------------------------------------------------------------------
(* A save that fits is one update of the register *)

LEMMA SavingStep ==
    ASSUME IInv, NEW c \in Calls, Step(c), pc[c] = "save", Savable(c), Fits(c)
    PROVE  /\ input[c] \in Input
           /\ UpdateOf(c) \in Update
           /\ UpdateOf(c).row = RowOf(c)
           /\ RowOf(c) \in Row
           /\ UpdateOf(c) \notin applied
           /\ rows[RowOf(c)].revision = input[c].expected
           /\ input[c].expected \in 0..(MaxRevision - 1)
           /\ \/ UNCHANGED <<rows, applied>> /\ Fail(c)
              \/ /\ Save(c)
                 /\ applied' = applied \cup {UpdateOf(c)}
                 /\ rows' = [rows EXCEPT ![RowOf(c)] =
                       [enabled |-> input[c].enabled, revision |-> input[c].expected + 1]]
<1> TypeOK /\ RequestInv(c)
  BY DEF IInv
<1>1. input[c] \in Input /\ input[c].kind = "update" /\ RowOf(c) = <<input[c].user, input[c].tool>>
  BY RequestTypes DEF TypeOK, RequestInv, RowOf
<1>2. input[c].expected \in 0..(MaxRevision - 1) /\ RowOf(c) \in Row
  BY <1>1, RequestTypes DEF Savable, Row
<1>3. UpdateOf(c) \in Update /\ UpdateOf(c).row = RowOf(c) /\ UpdateOf(c).by = c
  BY <1>1, <1>2, RequestTypes DEF UpdateOf, Update
<1>4. UpdateOf(c) \notin applied
  BY <1>3 DEF IInv, TakenInv
<1>5. Save(c) \/ Fail(c)
  BY DEF Step, Start, ReadCatalog, Read, Connect
<1>6. Save(c) => /\ applied' = applied \cup {UpdateOf(c)}
                 /\ rows' = [rows EXCEPT ![RowOf(c)] =
                       [enabled |-> input[c].enabled, revision |-> input[c].expected + 1]]
  BY <1>1 DEF Save, UpdateOf
<1>7. Fail(c) => UNCHANGED <<rows, applied>>
  BY DEF Fail
<1>8. QED
  BY <1>1, <1>2, <1>3, <1>4, <1>5, <1>6, <1>7 DEF Fits

LEMMA SavingStepKeepsIInv ==
    ASSUME IInv, NEW c \in Calls, Step(c), pc[c] = "save", Savable(c), Fits(c), Save(c)
    PROVE  IInv'
<1> DEFINE new == UpdateOf(c)
<1> TypeOK /\ RequestInv(c)
  BY DEF IInv
<1>1. TypeOK'
  BY StepTypes DEF IInv
<1>2. /\ new \in Update /\ new.row = RowOf(c) /\ RowOf(c) \in Row
      /\ new \notin applied
      /\ rows[RowOf(c)].revision = new.expected
      /\ new.expected \in Nat
      /\ new.by = c
      /\ new.enabled = input[c].enabled
      /\ applied' = applied \cup {new}
      /\ rows' = [rows EXCEPT ![RowOf(c)] = [enabled |-> new.enabled, revision |-> new.expected + 1]]
  <2>1. applied' # applied
    BY SavingStep DEF Save, RowOf, UpdateOf, RequestInv
  <2>2. QED
    BY <2>1, SavingStep DEF UpdateOf
<1>3. rows'[RowOf(c)].revision = new.expected + 1 /\ rows'[RowOf(c)].enabled = new.enabled
  BY <1>2 DEF TypeOK
<1>4. \A r \in Row : r # RowOf(c) => rows'[r] = rows[r]
  BY <1>2 DEF TypeOK
<1>5. /\ UNCHANGED <<input, tool, todo>>
      /\ seenVersion \subseteq seenVersion'
      /\ pc'[c] \in {"connect", "done"}
      /\ reply'[c] \in {"none", "unavailable"}
      /\ reply'[c] # "none" => pc'[c] = "done"
  BY DEF Save, AfterCommit, Goto, Answer, Step, Observe, TypeOK, RequestInv
<1>6. \A u \in applied : u.row \in Row /\ u.by \in Calls /\ u.by # c /\ u.expected \in Nat /\ TakenInv(u)
  BY DEF IInv, TypeOK, Update, TakenInv
<1>7. \A u \in applied : u.row = RowOf(c) => u.expected < new.expected
  BY <1>2, <1>6 DEF TakenInv
<1>8. IsFiniteSet(applied') /\ OneWinnerPerRevision'
  BY <1>2, <1>7, FS_AddElement DEF IInv, OneWinnerPerRevision
<1>9. \A d \in Calls : RequestInv(d)'
  <2>1. RequestInv(c)'
    BY <1>2, <1>5 DEF RequestInv, UpdateOf
  <2>2. QED
    BY <2>1, OtherRequestsInv
<1>10. \A u \in applied' : TakenInv(u)'
  <2>1. ASSUME NEW u, u = new PROVE TakenInv(u)'
    BY <1>2, <1>3, <1>5, <2>1 DEF TakenInv, UpdateOf, RequestInv
  <2>2. ASSUME NEW u \in applied PROVE TakenInv(u)'
    <3>1. u.by \in Calls /\ u.by # c /\ u.row \in Row /\ u.expected \in Nat /\ TakenInv(u)
      BY <1>6
    <3>2. pc'[u.by] = pc[u.by] /\ reply'[u.by] = reply[u.by]
      BY <3>1, OtherRequestsInv
    <3>3. u.expected < rows'[u.row].revision
      BY <1>2, <1>3, <1>4, <1>7, <3>1 DEF TakenInv
    <3>4. QED
      BY <1>5, <3>1, <3>2, <3>3 DEF TakenInv, UpdateOf
  <2>3. QED
    BY <1>2, <2>1, <2>2
<1>11. \A r \in Row : RowInv(r)'
  <2> SUFFICES ASSUME NEW r \in Row PROVE RowInv(r)'
    OBVIOUS
  <2>1. CASE r # RowOf(c)
    <3>1. Taken(r)' = Taken(r) /\ rows'[r] = rows[r]
      BY <1>2, <1>4, <2>1 DEF Taken
    <3>2. QED
      BY <3>1 DEF IInv, RowInv
  <2>2. CASE r = RowOf(c)
    <3>1. Taken(r)' = Taken(r) \cup {new} /\ new \notin Taken(r)
      BY <1>2, <2>2 DEF Taken
    <3>2. IsFiniteSet(Taken(r)) /\ Taken(r) \subseteq applied
      BY FS_Subset DEF IInv, Taken
    <3>3. Cardinality(Taken(r)') = Cardinality(Taken(r)) + 1
      BY <3>1, <3>2, FS_AddElement
    <3>4. rows'[r].revision = Cardinality(Taken(r)')
      BY <1>2, <1>3, <2>2, <3>3 DEF IInv, RowInv
    <3>5. \A u \in Taken(r) : u.expected < new.expected /\ u.expected \in Nat
      BY <1>6, <1>7, <2>2 DEF Taken
    <3>6. \A u \in Taken(r)' : u.expected + 1 = rows'[r].revision => u.enabled = rows'[r].enabled
      BY <1>2, <1>3, <2>2, <3>1, <3>5
    <3>7. QED
      BY <3>4, <3>6 DEF RowInv
  <2>3. QED
    BY <2>1, <2>2
<1>12. QED
  BY <1>1, <1>8, <1>9, <1>10, <1>11 DEF IInv

-----------------------------------------------------------------------------
(* The theorems *)

LEMMA NextIInv == ASSUME IInv, [Next]_vars
                  PROVE  IInv' /\ [\E r \in Row, enabled \in BOOLEAN : Register!Update(r, enabled)]_rows
<1>1. CASE World \/ UNCHANGED vars
  BY <1>1, WorldKeepsIInv
<1>2. ASSUME NEW c \in Calls, Step(c)
      PROVE  IInv' /\ [\E r \in Row, enabled \in BOOLEAN : Register!Update(r, enabled)]_rows
  <2>1. CASE ~(pc[c] = "save" /\ Savable(c) /\ Fits(c))
    BY <1>2, <2>1, UnsavingStepKeepsIInv
  <2>2. CASE pc[c] = "save" /\ Savable(c) /\ Fits(c)
    <3>1. CASE UNCHANGED <<rows, applied>> /\ Fail(c)
      <4>1. TypeOK' /\ UNCHANGED <<rows, applied, input>> /\ seenVersion \subseteq seenVersion'
        BY <1>2, <3>1, StepTypes DEF IInv, Fail, Step, Start, ReadCatalog, Save, Read, Connect, Observe
      <4>2. RequestInv(c)'
        BY <3>1, <4>1 DEF Fail, Goto, Answer, RequestInv, IInv, TypeOK
      <4>3. \A d \in Calls : RequestInv(d)'
        BY <1>2, <4>2, OtherRequestsInv
      <4>4. \A u \in applied : u.by \in Calls /\ u.by # c /\ TakenInv(u)
        BY <2>2 DEF IInv, TypeOK, Update, TakenInv
      <4>5. \A u \in applied : pc'[u.by] \in {"connect", "done"}
                               /\ reply'[u.by] \in {"none", "ok", "yes", "no", "unavailable"}
        BY <1>2, <4>4, OtherRequestsInv DEF TakenInv
      <4>6. QED
        BY <4>1, <4>3, <4>5, UnsavedKeepsIInv
    <3>2. CASE Save(c) /\ rows' = [rows EXCEPT ![RowOf(c)] =
                       [enabled |-> input[c].enabled, revision |-> input[c].expected + 1]]
      <4>1. IInv'
        BY <1>2, <2>2, <3>2, SavingStepKeepsIInv
      <4>2. /\ RowOf(c) \in Row /\ input[c].enabled \in BOOLEAN
            /\ rows[RowOf(c)].revision = input[c].expected
            /\ input[c].expected < MaxRevision
        BY <1>2, <2>2, SavingStep, RequestTypes
      <4>3. Register!Update(RowOf(c), input[c].enabled)
        BY <3>2, <4>2 DEF Register!Update
      <4>4. QED
        BY <4>1, <4>2, <4>3
    <3>3. QED
      BY <1>2, <2>2, <3>1, <3>2, SavingStep
  <2>3. QED
    BY <2>1, <2>2
<1>3. QED
  BY <1>1, <1>2 DEF Next, AllDone

LEMMA AlwaysIInv == Spec => []IInv
BY InitIInv, NextIInv, PTL DEF Spec

\* Types hold throughout; above all no revision passes the largest one.
THEOREM TypeCorrect == Spec => []TypeOK
<1>1. IInv => TypeOK
  BY DEF IInv
<1>2. QED
  BY <1>1, AlwaysIInv, PTL

\* Of the updates that name one revision of a setting at most one is taken.
THEOREM OneWinner == Spec => []OneWinnerPerRevision
<1>1. IInv => OneWinnerPerRevision
  BY DEF IInv
<1>2. QED
  BY <1>1, AlwaysIInv, PTL

\* A setting is the last of the updates taken, and its revision counts them.
THEOREM NoneLost == Spec => []NoUpdateLost
<1>1. IInv => NoUpdateLost
  BY DEF IInv, RowInv, Taken, NoUpdateLost
<1>2. QED
  BY <1>1, AlwaysIInv, PTL

\* The updates taken on a setting follow each other, revision by revision.
THEOREM Sequence == Spec => []UpdatesInSequence
<1>1. OneWinnerPerRevision /\ NoUpdateLost => UpdatesInSequence
  BY DEF UpdatesInSequence
<1>2. QED
  BY <1>1, OneWinner, NoneLost, PTL

\* A refused update has not been taken and never will be.
THEOREM RefusalIsFinal == Spec => []RefusedMeansUntaken
<1>1. IInv => RefusedMeansUntaken
  BY DEF IInv, TakenInv, RefusedMeansUntaken
<1>2. QED
  BY <1>1, AlwaysIInv, PTL

\* An acknowledged update was taken, for the user who asked and as asked.
THEOREM AcknowledgementIsReal == Spec => []AcknowledgedMeansTaken
<1>1. IInv => AcknowledgedMeansTaken
  BY DEF IInv, RequestInv, UpdateOf, AcknowledgedMeansTaken
<1>2. QED
  BY <1>1, AlwaysIInv, PTL

\* What a user is told of his update is true and stays true.
THEOREM AnswersAreFinal == Spec => []AnswersAreTrue
<1>1. RefusedMeansUntaken /\ AcknowledgedMeansTaken => AnswersAreTrue
  BY DEF AnswersAreTrue
<1>2. QED
  BY <1>1, RefusalIsFinal, AcknowledgementIsReal, PTL

\* An update is taken only if its version was listed while the request ran.
THEOREM VersionWasListed == Spec => []TakenForListedVersion
<1>1. IInv => TakenForListedVersion
  BY DEF IInv, TakenInv, TakenForListedVersion
<1>2. QED
  BY <1>1, AlwaysIInv, PTL

\* Every step of the requests and of what surrounds them is one update of the
\* register of one user and tool, or leaves all registers alone.
THEOREM Refinement == Spec => ImplementsRegister
<1>1. Init => Register!Init
  BY DEF Init, Register!Init, Default
<1>2. IInv /\ [Next]_vars => [Register!Next]_rows
  BY NextIInv DEF Register!Next
<1>3. QED
  BY <1>1, <1>2, AlwaysIInv, PTL DEF Spec, ImplementsRegister, Register!Spec

\* A row that changes was saved by a request of its user.
LEMMA RowChangesBySave ==
    ASSUME IInv, [Next]_vars, NEW r \in Row, rows'[r] # rows[r]
    PROVE  \E c \in Calls : pc[c] = "save" /\ input[c].user = r[1]
<1>1. ~(World \/ UNCHANGED vars)
  BY WorldKeepsIInv
<1>2. PICK c \in Calls : Step(c)
  BY <1>1 DEF Next, AllDone
<1>3. pc[c] = "save" /\ Savable(c) /\ Fits(c)
  BY <1>2, UnsavingStepKeepsIInv
<1>4. rows' = [rows EXCEPT ![RowOf(c)] =
                 [enabled |-> input[c].enabled, revision |-> input[c].expected + 1]]
  BY <1>2, <1>3, SavingStep
<1>5. r = RowOf(c)
  BY <1>4 DEF IInv, TypeOK
<1>6. QED
  BY <1>3, <1>5 DEF RowOf

\* A setting changes only by a request of its own user.
THEOREM Isolation == Spec => OwnersAreIsolated
<1>1. IInv /\ [Next]_vars =>
        [\A r \in Row : rows'[r] # rows[r] =>
            \E c \in Calls : pc[c] = "save" /\ input[c].user = r[1]]_vars
  BY RowChangesBySave
<1>2. QED
  BY <1>1, AlwaysIInv, PTL DEF Spec, OwnersAreIsolated

-----------------------------------------------------------------------------
(* What a request shows *)

Seen(c, t, p) == <<t, p>> \in seen[c]

\* What a request has looked at, and what it passes on of that.
ShowInv(c) ==
    /\ pc[c] = "connect" => Seen(c, tool[c], pref[c])
    /\ input[c].kind = "availability" => tool[c] = input[c].tool
    /\ \A i \in items[c] : Seen(c, i.tool, i.pref)
    /\ reply[c] = "yes" => \E p \in Preference : p.enabled /\ Seen(c, input[c].tool, p)

\* What was seen stays seen, and a request that goes on sees its user's rows.
LEMMA SeenGrows ==
    ASSUME TypeOK, UNCHANGED input, Observe, NEW c \in Calls
    PROVE  /\ seen[c] \subseteq seen'[c]
           /\ pc'[c] \notin {"idle", "done"} =>
                 \A t \in Tools : <<t, rows'[<<input[c].user, t>>]>> \in seen'[c]
BY DEF TypeOK, Observe

LEMMA StandingStillKeepsShowInv ==
    ASSUME TypeOK, NEW c \in Calls, ShowInv(c), seen[c] \subseteq seen'[c],
           pc'[c] = pc[c], input'[c] = input[c], tool'[c] = tool[c], pref'[c] = pref[c],
           items'[c] = items[c], reply'[c] = reply[c]
    PROVE  ShowInv(c)'
BY DEF ShowInv, Seen

LEMMA StepKeepsShowInv ==
    ASSUME TypeOK, TypeOK', NEW c \in Calls, ShowInv(c), RequestInv(c), Step(c)
    PROVE  ShowInv(c)'
<1> USE DEF ShowInv, Seen, Goto, Answer
<1>1. UNCHANGED input /\ Observe
  BY DEF Step, Start, ReadCatalog, Save, Read, Connect, Fail
<1>2. seen[c] \subseteq seen'[c]
  BY <1>1, SeenGrows
<1>3. tool[c] \in Tools /\ pref[c] \in Preference /\ (reply[c] = "yes" => pc[c] = "done")
  BY DEF TypeOK, RequestInv
<1>4. CASE Start(c)
  <2>1. UNCHANGED <<input, tool, pref, items>> /\ pc'[c] # "connect" /\ reply'[c] # "yes"
    BY <1>3, <1>4 DEF TypeOK, RequestInv, Start
  <2>2. QED
    BY <1>2, <2>1
<1>5. CASE ReadCatalog(c)
  <2>1. UNCHANGED <<input, pref, items>> /\ pc'[c] # "connect" /\ reply'[c] # "yes"
    BY <1>3, <1>5 DEF TypeOK, RequestInv, ReadCatalog, ReadNext
  <2>2. input[c].kind # "availability"
    BY <1>5 DEF ReadCatalog
  <2>3. QED
    BY <1>2, <2>1, <2>2
<1>6. CASE Save(c)
  <2>1. reply[c] # "yes"
    BY <1>3, <1>6 DEF Save
  <2>2. UNCHANGED <<tool, items>> /\ reply'[c] # "yes"
    BY <1>6, <2>1 DEF Save, AfterCommit, Unfitting, TypeOK
  <2>3. CASE pc'[c] = "connect"
    <3>1. rows'[RowOf(c)] = pref'[c]
      <4>1. RowOf(c) \in DOMAIN rows
        BY RequestTypes DEF TypeOK, RowOf, Row
      <4>2. PICK next : rows' = [rows EXCEPT ![RowOf(c)] = next] /\ pref' = [pref EXCEPT ![c] = next]
        BY <1>6, <2>3 DEF Save, Unfitting, TypeOK
      <4>3. QED
        BY <4>1, <4>2 DEF TypeOK
    <3>2. <<tool[c], rows'[<<input[c].user, tool[c]>>]>> \in seen'[c]
      BY <1>1, <2>3, SeenGrows DEF TypeOK
    <3>3. QED
      BY <1>1, <1>2, <2>2, <3>1, <3>2 DEF RowOf
  <2>4. CASE pc'[c] # "connect"
    BY <1>1, <1>2, <2>2, <2>4
  <2>5. QED
    BY <2>3, <2>4
<1>7. CASE Read(c)
  <2>1. UNCHANGED <<tool, items, reply, rows>> /\ pc'[c] = "connect" /\ pref'[c] = rows[RowOf(c)]
    BY <1>7 DEF Read, ReadRow, TypeOK
  <2>2. <<tool[c], rows'[<<input[c].user, tool[c]>>]>> \in seen'[c]
    BY <1>1, <2>1, SeenGrows DEF TypeOK
  <2>3. QED
    BY <1>1, <1>2, <2>1, <2>2 DEF RowOf
<1>8. CASE Connect(c)
  <2>1. <<tool[c], pref[c]>> \in seen'[c] /\ pc'[c] # "connect" /\ reply[c] # "yes"
    BY <1>2, <1>8 DEF Connect, ReadNext, TypeOK, RequestInv
  <2>2. CASE input[c].kind = "availability"
    <3>1. UNCHANGED <<items, tool>> /\ reply'[c] = Availability(c)
      BY <1>8, <2>2 DEF Connect, TypeOK
    <3>2. Availability(c) = "yes" => pref[c].enabled
      BY DEF Availability, StateOf
    <3>3. QED
      BY <1>1, <1>2, <2>1, <2>2, <3>1, <3>2 DEF TypeOK
  <2>3. CASE input[c].kind # "availability"
    <3>1. /\ items'[c] = items[c] \cup {[tool |-> tool[c], pref |-> pref[c], state |-> StateOf(c)]}
          /\ reply'[c] # "yes"
      BY <1>8, <2>1, <2>3 DEF Connect, ReadNext, TypeOK
    <3>2. QED
      BY <1>1, <1>2, <2>1, <2>3, <3>1
  <2>4. QED
    BY <2>2, <2>3
<1>9. CASE Fail(c)
  BY <1>2, <1>9 DEF TypeOK, Fail, Interruptible
<1>10. QED
  BY <1>4, <1>5, <1>6, <1>7, <1>8, <1>9 DEF Step

LEMMA OtherStepKeepsShowInv ==
    ASSUME TypeOK, NEW c \in Calls, NEW d \in Calls, d # c, ShowInv(d), Step(c)
    PROVE  ShowInv(d)'
<1>1. UNCHANGED input /\ Observe
  BY DEF Step, Start, ReadCatalog, Save, Read, Connect, Fail
<1>2. /\ pc'[d] = pc[d] /\ tool'[d] = tool[d] /\ pref'[d] = pref[d]
      /\ items'[d] = items[d] /\ reply'[d] = reply[d]
  BY DEF TypeOK, Step, Start, ReadCatalog, Save, Read, Connect, Fail, Goto, Answer, ReadNext,
         AfterCommit, Unfitting, ReadRow
<1>3. QED
  BY <1>1, <1>2, SeenGrows, StandingStillKeepsShowInv

\* Every setting shown was in the user's own table row at some moment of the
\* request, and so was the switch behind an availability granted.
THEOREM ShownIsTrue == Spec => []ShownWasTrue
<1> DEFINE Shows == \A c \in Calls : ShowInv(c)
<1>1. Init => Shows
  BY DEF Init, ShowInv
<1>2. IInv /\ IInv' /\ Shows /\ [Next]_vars => Shows'
  <2> SUFFICES ASSUME IInv, IInv', Shows, [Next]_vars, NEW d \in Calls
               PROVE  ShowInv(d)'
    OBVIOUS
  <2>1. TypeOK /\ TypeOK' /\ RequestInv(d)
    BY DEF IInv
  <2>2. ASSUME NEW c \in Calls, Step(c) PROVE ShowInv(d)'
    BY <2>1, <2>2, StepKeepsShowInv, OtherStepKeepsShowInv
  <2>3. CASE World
    <3>1. UNCHANGED request /\ Observe
      BY <2>3 DEF World, Change
    <3>2. seen[d] \subseteq seen'[d]
      BY <2>1, <3>1, SeenGrows DEF request
    <3>3. QED
      BY <2>1, <3>1, <3>2, StandingStillKeepsShowInv DEF request
  <2>4. CASE UNCHANGED vars
    BY <2>1, <2>4, StandingStillKeepsShowInv DEF vars, request, history
  <2>5. QED
    BY <2>2, <2>3, <2>4 DEF Next, AllDone
<1>3. Shows => ShownWasTrue
  BY DEF ShowInv, Seen, ShownWasTrue
<1>4. QED
  BY <1>1, <1>2, <1>3, AlwaysIInv, PTL DEF Spec

-----------------------------------------------------------------------------
(* Progress. What liveness rests on but for fairness: the steps a request  *)
(* may still take.                                                         *)

\* The stages of a request. A list goes back from "connect" to "read" for its
\* next tool.
Place == [idle |-> 5, catalog |-> 4, save |-> 3, read |-> 2, connect |-> 1, done |-> 0]

\* A step ahead: to a later stage, or from one tool of the list to the rest of
\* the list.
Nearer(c) ==
    \/ Place[pc'[c]] < Place[pc[c]] /\ (todo'[c] = todo[c] \/ pc[c] = "catalog")
    \/ pc[c] = "connect" /\ todo'[c] \subseteq todo[c] /\ todo'[c] # todo[c]

\* Every step of a request brings it nearer to its answer, and it does not end
\* without one; no step of another request or of the world throws it back; and
\* what was answered is not answered again.
RequestsRunDown ==
    [][\A c \in Calls :
          /\ pc[c] = "done" <=> reply[c] # "none"
          /\ Step(c) => Nearer(c)
          /\ ~Step(c) => UNCHANGED <<pc[c], todo[c], reply[c]>>
          /\ reply[c] # "none" => UNCHANGED <<pc[c], reply[c]>>]_vars

\* The tool whose row is read is one of those left.
ListInv(c) ==
    /\ pc[c] = "done" => reply[c] # "none"
    /\ pc[c] \in {"catalog", "save", "read", "connect"} => input[c].kind # "malformed"
    /\ input[c].kind = "list" /\ pc[c] \in {"read", "connect"} => tool[c] \in todo[c]

LEMMA StepRunsDown ==
    ASSUME TypeOK, NEW c \in Calls, RequestInv(c), ListInv(c), Step(c)
    PROVE  Nearer(c) /\ reply[c] = "none" /\ ListInv(c)'
<1> USE DEF TypeOK, RequestInv, ListInv, Nearer, Place, Goto, Answer
<1>1. UNCHANGED input /\ reply[c] = "none"
  BY DEF Step, Start, ReadCatalog, Save, Read, Connect, Fail, Interruptible
<1>2. CASE Start(c)
  BY <1>1, <1>2 DEF Start
<1>3. CASE ReadCatalog(c)
  BY <1>1, <1>3 DEF ReadCatalog, ReadNext
<1>4. CASE Save(c)
  BY <1>1, <1>4 DEF Save, AfterCommit, Unfitting
<1>5. CASE Read(c)
  BY <1>1, <1>5 DEF Read
<1>6. CASE Connect(c)
  <2>1. CASE input[c].kind = "availability"
    BY <1>1, <1>6, <2>1 DEF Connect, Availability
  <2>2. CASE input[c].kind = "update"
    <3>1. ReadNext(c, {})
      BY <1>6, <2>2 DEF Connect
    <3>2. pc'[c] = "done" /\ reply'[c] = "ok" /\ todo'[c] = todo[c]
      BY <1>6, <2>2, <3>1 DEF Connect, ReadNext
    <3>3. QED
      BY <1>1, <1>6, <2>2, <3>2 DEF Connect
  <2>3. CASE input[c].kind = "list"
    <3>1. pc[c] = "connect" /\ ReadNext(c, todo[c] \ {tool[c]})
      BY <1>6, <2>3 DEF Connect
    <3>2. todo'[c] = todo[c] \ {tool[c]} /\ tool[c] \in todo[c]
      BY <2>3, <3>1 DEF ReadNext
    <3>3. Nearer(c)
      <4>1. tool[c] \notin todo'[c] /\ todo'[c] \subseteq todo[c]
        BY <3>2
      <4>2. QED
        BY <3>1, <3>2, <4>1
    <3>4. ListInv(c)'
      BY <1>1, <2>3, <3>1, <3>2 DEF ReadNext
    <3>5. QED
      BY <1>1, <3>3, <3>4
  <2>4. QED
    BY <1>1, <1>6, <2>1, <2>2, <2>3, RequestTypes DEF Connect, Kind
<1>7. CASE Fail(c)
  BY <1>1, <1>7 DEF Fail, Interruptible
<1>8. QED
  BY <1>2, <1>3, <1>4, <1>5, <1>6, <1>7 DEF Step

\* Nobody else moves a request.
LEMMA OthersLeaveRequest ==
    ASSUME TypeOK, [Next]_vars, NEW c \in Calls, ~Step(c)
    PROVE  UNCHANGED <<pc[c], todo[c], reply[c], input[c], tool[c]>>
<1>1. ASSUME NEW d \in Calls, d # c, Step(d)
      PROVE  UNCHANGED <<pc[c], todo[c], reply[c], input[c], tool[c]>>
  BY <1>1 DEF TypeOK, Step, Start, ReadCatalog, Save, Read, Connect, Fail, Goto, Answer, ReadNext,
              AfterCommit, Unfitting, ReadRow
<1>2. CASE World
  BY <1>2 DEF World, Change, request
<1>3. CASE UNCHANGED vars
  BY <1>3 DEF vars, request
<1>4. QED
  BY <1>1, <1>2, <1>3 DEF Next, AllDone

\* A request is answered after finitely many of its own steps, two for each tool of
\* a list and at most four besides, whatever others do in between, and its answer
\* stays (ListToolSettings, UpdateToolSetting and
\* ConversationToolAvailable do not retry).
THEOREM RequestsComeToAnEnd == Spec => RequestsRunDown
<1> DEFINE Lists == \A c \in Calls : ListInv(c)
<1>1. Init => Lists
  BY DEF Init, ListInv
<1>2. ASSUME IInv, Lists, [Next]_vars, NEW c \in Calls
      PROVE  /\ ListInv(c)'
             /\ pc[c] = "done" <=> reply[c] # "none"
             /\ Step(c) => Nearer(c)
             /\ ~Step(c) => UNCHANGED <<pc[c], todo[c], reply[c]>>
             /\ reply[c] # "none" => UNCHANGED <<pc[c], reply[c]>>
  <2>1. TypeOK /\ RequestInv(c) /\ ListInv(c)
    BY <1>2 DEF IInv
  <2>2. pc[c] = "done" <=> reply[c] # "none"
    BY <2>1 DEF RequestInv, ListInv
  <2>3. CASE Step(c)
    BY <2>1, <2>2, <2>3, StepRunsDown
  <2>4. CASE ~Step(c)
    BY <1>2, <2>1, <2>2, <2>4, OthersLeaveRequest DEF ListInv
  <2>5. QED
    BY <2>3, <2>4
<1>3. IInv /\ Lists /\ [Next]_vars => Lists'
  BY <1>2
<1>4. IInv /\ Lists /\ [Next]_vars =>
        [\A c \in Calls :
            /\ pc[c] = "done" <=> reply[c] # "none"
            /\ Step(c) => Nearer(c)
            /\ ~Step(c) => UNCHANGED <<pc[c], todo[c], reply[c]>>
            /\ reply[c] # "none" => UNCHANGED <<pc[c], reply[c]>>]_vars
  BY <1>2
<1>5. QED
  BY <1>1, <1>3, <1>4, AlwaysIInv, PTL DEF Spec, RequestsRunDown
=============================================================================
