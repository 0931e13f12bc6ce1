-------------------------------- MODULE Records --------------------------------
(***************************************************************************)
(* Saving and reading records (recordtools/adapter.go), called through a   *)
(* selection (registry.go): Invoke saves, or reads; Reconcile looks a save *)
(* up by its receipt, or reads; InspectOutcome only looks up. Saved        *)
(* results are read in ResultReads.                                        *)
(*                                                                         *)
(* Calls run side by side, and each may give up waiting while its save is  *)
(* still on the way. The record owner is external: it keeps immutable      *)
(* revisions, and the receipt of a save is the revision that carries the   *)
(* client ID of the save.                                                  *)
(*                                                                         *)
(* An operator Bug_X is the definition X with a plausible bug in it.       *)
(***************************************************************************)
EXTENDS Naturals, Sequences

CONSTANTS
    Attempts,    \* calls
    Keys,        \* idempotency keys
    NoKey,       \* a call without one
    Writes,      \* what the call of each key saves: [id, expected], id 0 for a new record
    MaxId,       \* bound: records
    MaxRevision, \* bound: revisions of a record
    MaxChanges   \* bound: changes of the host's policy

Ids == 1..MaxId

ASSUME ConstantsAssumption ==
    /\ MaxId \in Nat \ {0}
    /\ MaxRevision \in Nat \ {0}
    /\ MaxChanges \in Nat
    /\ NoKey \notin Keys
    /\ Writes \in [Keys -> [id : 0..MaxId, expected : 0..MaxRevision]]

Kind == {"save", "reconcile", "inspect", "read"}

Row   == [id : Ids, revision : 1..MaxRevision]
NoRow == [id |-> 0, revision |-> 0]

VARIABLES
    policy,   \* whether the host's Authorize grants the tool
    changes,  \* changes so far
    versions, \* each record's revisions: the client ID each was saved with
    kind,     \* what each attempt is
    key,      \* its idempotency key
    wanted,   \* the record and revision a read names; revision 0 for the head
    stage,    \* where each attempt stands
    answer,   \* the row that a completed attempt shows
    sent,     \* saves the owner has not decided on
    reply,    \* the owner's answer to each save: a row, or NoRow
    saved     \* history: the row each attempt's save wrote, or NoRow

call == <<kind, key, wanted>>
vars == <<policy, changes, versions, call, stage, answer, sent, reply, saved>>

-----------------------------------------------------------------------------

\* The client ID digests the idempotency key.
ClientID(a) == key[a]

Client == Keys \cup {NoKey}

\* Two stages are an uncertain outcome for the host: "missing" has the code
\* record.receipt_missing and "withheld" the code tool.output_invalid.
Stage == {"idle", "authorize", "invoke", "lookup", "saving", "replied",
          "completed", "missing", "withheld", "refused", "failed"}

TypeOK ==
    /\ policy \in BOOLEAN
    /\ changes \in 0..MaxChanges
    /\ versions \in [Ids -> Seq(Client)]
    /\ kind \in [Attempts -> Kind]
    /\ key \in [Attempts -> Client]
    /\ wanted \in [Attempts -> [id : Ids, revision : 0..MaxRevision]]
    /\ stage \in [Attempts -> Stage]
    /\ answer \in [Attempts -> Row \cup {NoRow}]
    /\ sent \subseteq Attempts
    /\ reply \in [Attempts -> Row \cup {NoRow}]
    /\ saved \in [Attempts -> Row \cup {NoRow}]

Init ==
    /\ policy = TRUE
    /\ changes = 0
    /\ versions = [i \in Ids |-> <<>>]
    /\ kind \in [Attempts -> Kind]
    /\ key \in [Attempts -> Client]
    /\ wanted \in [Attempts -> [id : Ids, revision : 0..MaxRevision]]
    /\ \A a \in Attempts :
        IF kind[a] = "read" THEN key[a] = NoKey ELSE wanted[a] = [id |-> 1, revision |-> 0]
    /\ stage = [a \in Attempts |-> "idle"]
    /\ answer = [a \in Attempts |-> NoRow]
    /\ sent = {}
    /\ reply = [a \in Attempts |-> NoRow]
    /\ saved = [a \in Attempts |-> NoRow]

-----------------------------------------------------------------------------
(* The record owner *)

HasRow(row) == row.id \in Ids /\ row.revision \in 1..Len(versions[row.id])

\* The receipts under a client ID.
Receipts(client) == {row \in Row : HasRow(row) /\ versions[row.id][row.revision] = client}

\* The head of a record, or the revision asked for.
Found(w) == [id |-> w.id, revision |-> IF w.revision = 0 THEN Len(versions[w.id]) ELSE w.revision]

\* Which record a save is for, and whether it is at the revision it expects.
Fits(w, i) ==
    /\ IF w.id = 0 THEN versions[i] = <<>> ELSE w.id = i
    /\ Len(versions[i]) = w.expected
    /\ Len(versions[i]) < MaxRevision

Decided(a, row) ==
    /\ sent' = sent \ {a}
    /\ reply' = [reply EXCEPT ![a] = row]
    /\ stage' = [stage EXCEPT ![a] = IF @ = "saving" THEN "replied" ELSE @]
    /\ UNCHANGED <<policy, changes, call, answer>>

\* A save of a client ID that was saved before is answered with that revision.
OwnerRepeat(a) ==
    /\ a \in sent
    /\ \E row \in Receipts(ClientID(a)) : Decided(a, row)
    /\ UNCHANGED <<versions, saved>>

\* Anything else is written, whether the caller still waits or not.
OwnerWrite(a) ==
    /\ a \in sent
    /\ Receipts(ClientID(a)) = {}
    /\ \E i \in Ids :
        /\ Fits(Writes[key[a]], i)
        /\ versions' = [versions EXCEPT ![i] = Append(@, ClientID(a))]
        /\ LET row == [id |-> i, revision |-> Len(versions[i]) + 1] IN
            /\ saved' = [saved EXCEPT ![a] = row]
            /\ Decided(a, row)

\* Validation or a conflict refuses it, or the owner fails before it is durable.
OwnerRefuse(a) ==
    /\ a \in sent
    /\ Receipts(ClientID(a)) = {}
    /\ Decided(a, NoRow)
    /\ UNCHANGED <<versions, saved>>

Owner == \E a \in Attempts : OwnerRepeat(a) \/ OwnerWrite(a) \/ OwnerRefuse(a)

-----------------------------------------------------------------------------
(* The calls *)

Goto(a, s) == stage' = [stage EXCEPT ![a] = s]

\* A step that only moves the attempt on.
Moving == UNCHANGED <<policy, changes, versions, call, answer, sent, reply, saved>>

Complete(a, row) ==
    /\ Goto(a, "completed")
    /\ answer' = [answer EXCEPT ![a] = row]
    /\ UNCHANGED <<policy, changes, versions, call, sent, reply, saved>>

Bug_Disclose(a, row) == Complete(a, row) \/ (Goto(a, "missing") /\ Moving)

\* The selection shows a completed result to the host, unless its content is too
\* large or off the schema: then the outcome is uncertain, though there is a row.
\* What the rows hold is left out, so that any row may be withheld.
Disclose(a, row) == Complete(a, row) \/ (Goto(a, "withheld") /\ Moving)

\* An inspection without an idempotency key is refused right away.
Begin(a) ==
    /\ stage[a] = "idle"
    /\ Goto(a, IF kind[a] = "inspect" /\ key[a] = NoKey THEN "refused" ELSE "authorize")
    /\ Moving

Authorize(a) ==
    /\ stage[a] = "authorize"
    /\ Goto(a, IF ~policy THEN "refused"
               ELSE IF kind[a] \in {"save", "read"} THEN "invoke" ELSE "lookup")
    /\ Moving

\* A save without an idempotency key is not sent.
InvokeSave(a) ==
    /\ stage[a] = "invoke"
    /\ kind[a] = "save"
    /\ IF key[a] = NoKey
       THEN Goto(a, "failed") /\ UNCHANGED sent
       ELSE Goto(a, "saving") /\ sent' = sent \cup {a}
    /\ UNCHANGED <<policy, changes, versions, call, answer, reply, saved>>

\* Reconciling a read reads again.
InvokeRead(a) ==
    /\ stage[a] = "invoke"
    /\ kind[a] = "read"
    /\ IF HasRow(Found(wanted[a]))
       THEN Disclose(a, Found(wanted[a]))
       ELSE Goto(a, "failed") /\ Moving

\* The answer to a save arrives.
Receive(a) ==
    /\ stage[a] = "replied"
    /\ IF reply[a] = NoRow THEN Goto(a, "failed") /\ Moving ELSE Disclose(a, reply[a])

Bug_Reconcile(a) ==
    /\ stage[a] = "lookup"
    /\ \/ key[a] = NoKey /\ Goto(a, "failed") /\ Moving
       \/ key[a] # NoKey /\ \E row \in Receipts(ClientID(a)) : Disclose(a, row)
       \/ key[a] # NoKey /\ Goto(a, "missing") /\ Moving

\* A save is looked up by its receipt and never sent again.
Reconcile(a) ==
    /\ stage[a] = "lookup"
    /\ \/ key[a] = NoKey /\ Goto(a, "failed") /\ Moving
       \/ key[a] # NoKey /\ \E row \in Receipts(ClientID(a)) : Disclose(a, row)
       \/ key[a] # NoKey /\ Receipts(ClientID(a)) = {} /\ Goto(a, "missing") /\ Moving

\* The call fails or runs out of time; what it has sent is not taken back.
Fail(a) ==
    /\ stage[a] \in {"authorize", "invoke", "lookup", "saving", "replied"}
    /\ Goto(a, "failed")
    /\ Moving

Step(a) ==
    \/ Begin(a) \/ Authorize(a) \/ InvokeSave(a) \/ InvokeRead(a) \/ Receive(a)
    \/ Reconcile(a) \/ Fail(a)

SetPolicy ==
    /\ changes < MaxChanges
    /\ changes' = changes + 1
    /\ policy' = ~policy
    /\ UNCHANGED <<versions, call, stage, answer, sent, reply, saved>>

Ended == {"completed", "missing", "withheld", "refused", "failed"}

AllDone == sent = {} /\ (\A a \in Attempts : stage[a] \in Ended) /\ UNCHANGED vars

Next == (\E a \in Attempts : Step(a)) \/ Owner \/ SetPolicy \/ AllDone

Spec == Init /\ [][Next]_vars

-----------------------------------------------------------------------------
(* Properties *)

Saved == {[key |-> key[a], row |-> saved[a]] : a \in {b \in Attempts : saved[b] # NoRow}}

Telling == {"completed", "missing", "withheld"}

Told ==
    {[key |-> key[a], status |-> stage[a], row |-> answer[a]] :
        a \in {b \in Attempts : kind[b] # "read" /\ stage[b] \in Telling}}

Ledger == INSTANCE SaveLedger WITH saved <- Saved, told <- Told

\* Calls of one idempotency key write one revision between them, late answers,
\* retries and reconciliations included, and whoever is told of a result is told of
\* that revision. An uncertain outcome is never ambiguous: a missing receipt is
\* reported only while nothing is written, a result that cannot be shown only of a
\* revision that is.
ImplementsLedger == Ledger!Spec
===============================================================================
