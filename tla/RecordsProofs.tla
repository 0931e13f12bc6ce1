----------------------------- MODULE RecordsProofs -----------------------------
(***************************************************************************)
(* Saving records keeps the promise of SaveLedger, for any calls, keys and *)
(* records and any order of late answers.                                  *)
(***************************************************************************)
EXTENDS Records, TLAPS

-----------------------------------------------------------------------------
(* The invariant *)

\* What an attempt has written, sent or heard agrees with the owner's receipts.
AttemptInv(a) ==
    /\ saved[a] # NoRow => key[a] \in Keys /\ saved[a] \in Receipts(key[a])
    /\ a \in sent => key[a] \in Keys /\ saved[a] = NoRow
    /\ reply[a] # NoRow => key[a] \in Keys /\ reply[a] \in Receipts(key[a])
    /\ stage[a] \in {"idle", "authorize", "invoke", "lookup"} => saved[a] = NoRow /\ a \notin sent
    /\ stage[a] \in {"saving", "replied"} => kind[a] = "save" /\ key[a] \in Keys
    /\ stage[a] = "lookup" => kind[a] \in {"reconcile", "inspect"}
    /\ stage[a] # "completed" => answer[a] = NoRow

\* Every receipt was written by an attempt with its key.
WrittenInv ==
    \A k \in Keys : \A row \in Receipts(k) : \E a \in Attempts : saved[a] = row /\ key[a] = k

LengthInv == \A i \in Ids : Len(versions[i]) <= MaxRevision

Inv == TypeOK /\ (\A a \in Attempts : AttemptInv(a)) /\ WrittenInv /\ LengthInv

-----------------------------------------------------------------------------
(* Lemmas about rows and receipts *)

LEMMA Constants == MaxId \in Nat \ {0} /\ MaxRevision \in Nat \ {0} /\ NoKey \notin Keys /\ NoRow \notin Row
BY ConstantsAssumption DEF NoRow, Row, Ids

\* An appended revision is a new receipt, and the only one.
LEMMA ReceiptsGrow ==
    ASSUME TypeOK, NEW i \in Ids, NEW c \in Client, NEW row,
           Len(versions[i]) < MaxRevision,
           versions' = [versions EXCEPT ![i] = Append(@, c)],
           row = [id |-> i, revision |-> Len(versions[i]) + 1]
    PROVE  /\ versions' \in [Ids -> Seq(Client)]
           /\ row \in Row
           /\ row \in Receipts(c)'
           /\ \A k : Receipts(k) \subseteq Receipts(k)'
<1>1. /\ versions \in [Ids -> Seq(Client)] /\ versions[i] \in Seq(Client)
      /\ Len(versions[i]) \in Nat
  BY DEF TypeOK
<1>2. Append(versions[i], c) \in Seq(Client)
  BY <1>1
<1>3. versions' \in [Ids -> Seq(Client)]
  BY <1>1, <1>2
<1>4. /\ versions'[i] = Append(versions[i], c)
      /\ Len(versions'[i]) = Len(versions[i]) + 1
      /\ versions'[i][Len(versions[i]) + 1] = c
      /\ \A n \in 1..Len(versions[i]) : versions'[i][n] = versions[i][n]
      /\ \A j \in Ids : j # i => versions'[j] = versions[j]
  BY <1>1
<1>5. row \in Row
  BY <1>1, Constants DEF Row
<1>6. row \in Receipts(c)'
  BY <1>1, <1>4, <1>5 DEF Receipts, HasRow
<1>7. ASSUME NEW k, NEW r \in Receipts(k) PROVE r \in Receipts(k)'
  <2>1. r \in Row /\ r.id \in Ids /\ r.revision \in 1..Len(versions[r.id]) /\ versions[r.id][r.revision] = k
    BY DEF Receipts, HasRow
  <2>2. r.revision \in 1..Len(versions'[r.id]) /\ versions'[r.id][r.revision] = k
    BY <1>1, <1>4, <2>1
  <2>3. QED
    BY <2>1, <2>2 DEF Receipts, HasRow
<1>8. QED
  BY <1>3, <1>5, <1>6, <1>7

\* A row that was found is a row.
LEMMA FoundRows ==
    ASSUME TypeOK, LengthInv
    PROVE  /\ \A a \in Attempts : HasRow(Found(wanted[a])) => Found(wanted[a]) \in Row
           /\ \A k : Receipts(k) \subseteq Row
<1>1. ASSUME NEW a \in Attempts, HasRow(Found(wanted[a])) PROVE Found(wanted[a]) \in Row
  <2>1. wanted[a] \in [id : Ids, revision : 0..MaxRevision]
    BY DEF TypeOK
  <2>2. wanted[a].id \in Ids /\ Len(versions[wanted[a].id]) \in Nat
        /\ Len(versions[wanted[a].id]) <= MaxRevision
    BY <2>1 DEF TypeOK, LengthInv
  <2>3. /\ Found(wanted[a]).id \in Ids
        /\ Found(wanted[a]).revision \in 1..MaxRevision
    BY <1>1, <2>1, <2>2, Constants DEF HasRow, Found
  <2>4. QED
    BY <2>3 DEF Found, Row
<1>2. QED
  BY <1>1 DEF Receipts

-----------------------------------------------------------------------------
(* The invariant is inductive *)

LEMMA InitInv == Init => Inv
<1> SUFFICES ASSUME Init PROVE Inv
  OBVIOUS
<1>1. TypeOK
  BY ConstantsAssumption DEF Init, TypeOK, Stage, Client
<1>2. \A i \in Ids : Len(versions[i]) = 0
  BY DEF Init
<1>3. WrittenInv
  BY <1>2 DEF WrittenInv, Receipts, HasRow
<1>4. \A a \in Attempts : AttemptInv(a)
  BY DEF Init, AttemptInv
<1>5. LengthInv
  BY <1>2, Constants DEF LengthInv
<1>6. QED
  BY <1>1, <1>3, <1>4, <1>5 DEF Inv

\* The owner decides on a save: what it answers is a receipt of the key.
LEMMA DecidedInv ==
    ASSUME Inv, NEW a \in Attempts, NEW row \in Row \cup {NoRow}, a \in sent, Decided(a, row),
           UNCHANGED <<versions, saved>>,
           row # NoRow => row \in Receipts(key[a])
    PROVE  Inv'
<1>1. /\ sent' = sent \ {a} /\ reply' = [reply EXCEPT ![a] = row]
      /\ stage' = [stage EXCEPT ![a] = IF @ = "saving" THEN "replied" ELSE @]
      /\ UNCHANGED <<policy, changes, kind, key, wanted, answer>>
  BY DEF Decided, call
<1>2. TypeOK'
  BY <1>1 DEF Inv, TypeOK, Stage
<1>3. \A k : Receipts(k)' = Receipts(k)
  BY DEF Receipts, HasRow
<1>4. key[a] \in Keys
  BY DEF Inv, AttemptInv
<1>5. ASSUME NEW b \in Attempts PROVE AttemptInv(b)'
  <2>1. CASE b = a
    <3>1. /\ stage[a] \in Stage /\ stage'[a] = IF stage[a] = "saving" THEN "replied" ELSE stage[a]
          /\ reply'[a] = row /\ a \notin sent' /\ answer'[a] = answer[a] /\ saved'[a] = saved[a]
          /\ kind'[a] = kind[a] /\ key'[a] = key[a]
      BY <1>1 DEF Inv, TypeOK
    <3>2. stage'[a] # stage[a] => stage[a] = "saving" /\ stage'[a] = "replied"
      BY <3>1
    <3>3. AttemptInv(a)
      BY DEF Inv
    <3>4. QED
      BY <1>3, <1>4, <2>1, <3>1, <3>2, <3>3 DEF AttemptInv
  <2>2. CASE b # a
    BY <1>1, <1>3, <2>2 DEF Inv, TypeOK, AttemptInv
  <2>3. QED
    BY <2>1, <2>2
<1>6. WrittenInv' /\ LengthInv'
  BY <1>1, <1>3 DEF Inv, WrittenInv, LengthInv
<1>7. QED
  BY <1>2, <1>5, <1>6 DEF Inv

LEMMA WriteInv == ASSUME Inv, NEW a \in Attempts, OwnerWrite(a) PROVE Inv'
<1> USE DEF ClientID
<1>1. PICK i \in Ids :
        /\ Fits(Writes[key[a]], i)
        /\ versions' = [versions EXCEPT ![i] = Append(@, key[a])]
        /\ saved' = [saved EXCEPT ![a] = [id |-> i, revision |-> Len(versions[i]) + 1]]
        /\ Decided(a, [id |-> i, revision |-> Len(versions[i]) + 1])
  BY DEF OwnerWrite
<1> PICK row : row = [id |-> i, revision |-> Len(versions[i]) + 1]
  OBVIOUS
<1>2. a \in sent /\ key[a] \in Keys /\ saved[a] = NoRow /\ Len(versions[i]) < MaxRevision
  <2>1. a \in sent /\ AttemptInv(a)
    BY DEF OwnerWrite, Inv
  <2>2. Len(versions[i]) < MaxRevision
    BY <1>1 DEF Fits
  <2>3. QED
    BY <2>1, <2>2 DEF AttemptInv
<1> PICK c \in Client : c = key[a]
  BY <1>2 DEF Client
<1>3. /\ versions' \in [Ids -> Seq(Client)] /\ row \in Row /\ row \in Receipts(c)'
      /\ \A k : Receipts(k) \subseteq Receipts(k)'
  <2>1. TypeOK /\ versions' = [versions EXCEPT ![i] = Append(@, c)] /\ Len(versions[i]) < MaxRevision
    BY <1>1, <1>2 DEF Inv
  <2>2. QED
    BY <2>1, ReceiptsGrow
<1>4. /\ sent' = sent \ {a} /\ reply' = [reply EXCEPT ![a] = row]
      /\ stage' = [stage EXCEPT ![a] = IF @ = "saving" THEN "replied" ELSE @]
      /\ UNCHANGED <<policy, changes, kind, key, wanted, answer>>
      /\ saved' = [saved EXCEPT ![a] = row]
  BY <1>1 DEF Decided, call
<1>5. TypeOK'
  BY <1>3, <1>4 DEF Inv, TypeOK, Stage
<1>6. ASSUME NEW b \in Attempts PROVE AttemptInv(b)'
  <2>1. CASE b = a
    BY <1>2, <1>3, <1>4, <2>1 DEF Inv, TypeOK, AttemptInv
  <2>2. CASE b # a
    BY <1>3, <1>4, <2>2 DEF Inv, TypeOK, AttemptInv
  <2>3. QED
    BY <2>1, <2>2
<1>7. WrittenInv'
  <2>a. TypeOK /\ versions' = [versions EXCEPT ![i] = Append(@, c)] /\ Len(versions[i]) < MaxRevision
    BY <1>1, <1>2 DEF Inv
  <2>b. \A k \in Client, r \in Row : r \in Receipts(k)' => r \in Receipts(k) \/ (r = row /\ k = c)
    <3> SUFFICES ASSUME NEW k \in Client, NEW r \in Row, r \in Receipts(k)'
                 PROVE  r \in Receipts(k) \/ (r = row /\ k = c)
      OBVIOUS
    <3>1. /\ versions \in [Ids -> Seq(Client)] /\ versions[i] \in Seq(Client)
          /\ Len(versions[i]) \in Nat
      BY <2>a DEF TypeOK
    <3>2. /\ versions'[i] = Append(versions[i], c)
          /\ Len(versions'[i]) = Len(versions[i]) + 1
          /\ versions'[i][Len(versions[i]) + 1] = c
          /\ \A n \in 1..Len(versions[i]) : versions'[i][n] = versions[i][n]
          /\ \A j \in Ids : j # i => versions'[j] = versions[j]
      BY <2>a, <3>1
    <3>3. r \in Row /\ r.id \in Ids /\ r.revision \in 1..Len(versions'[r.id]) /\ versions'[r.id][r.revision] = k
      BY DEF Receipts, HasRow
    <3>4. CASE r.id = i /\ r.revision = Len(versions[i]) + 1
      <4>1. r = row
        BY <3>3, <3>4 DEF Row
      <4>2. QED
        BY <3>2, <3>3, <3>4, <4>1
    <3>5. CASE ~(r.id = i /\ r.revision = Len(versions[i]) + 1)
      <4>1. r.revision \in 1..Len(versions[r.id]) /\ versions[r.id][r.revision] = k
        BY <3>1, <3>2, <3>3, <3>5
      <4>2. QED
        BY <3>3, <4>1 DEF Receipts, HasRow
    <3>6. QED
      BY <3>4, <3>5
  <2> SUFFICES ASSUME NEW k \in Keys, NEW r \in Receipts(k)'
               PROVE  \E b \in Attempts : saved'[b] = r /\ key'[b] = k
    BY DEF WrittenInv
  <2>c. k \in Client /\ r \in Row
    BY DEF Client, Receipts
  <2>0. r \in Receipts(k) \/ (r = row /\ k = c)
    BY <2>b, <2>c
  <2>1. CASE r = row /\ k = c
    BY <1>4, <2>1 DEF Inv, TypeOK
  <2>2. CASE r \in Receipts(k)
    <3>1. PICK b \in Attempts : saved[b] = r /\ key[b] = k
      BY <2>2 DEF Inv, WrittenInv
    <3>2. r # NoRow
      BY <2>2, Constants DEF Receipts
    <3>3. QED
      BY <1>2, <1>4, <3>1, <3>2 DEF Inv, TypeOK
  <2>3. QED
    BY <2>0, <2>1, <2>2
<1>8. LengthInv'
  <2>1. \A j \in Ids : versions[j] \in Seq(Client) /\ Len(versions[j]) \in Nat
    BY DEF Inv, TypeOK
  <2>2. Len(Append(versions[i], key[a])) = Len(versions[i]) + 1
    BY <2>1
  <2>3. QED
    BY <1>1, <1>2, <2>1, <2>2, Constants DEF Inv, TypeOK, LengthInv
<1>9. QED
  BY <1>5, <1>6, <1>7, <1>8 DEF Inv

LEMMA OwnerInv == ASSUME Inv, Owner PROVE Inv'
<1> USE DEF ClientID
<1>1. ASSUME NEW a \in Attempts, OwnerRepeat(a) PROVE Inv'
  <2>1. PICK row \in Receipts(key[a]) : Decided(a, row)
    BY <1>1 DEF OwnerRepeat
  <2>2. row \in Row
    BY <2>1 DEF Receipts
  <2>3. QED
    BY <1>1, <2>1, <2>2, DecidedInv DEF OwnerRepeat
<1>2. ASSUME NEW a \in Attempts, OwnerRefuse(a) PROVE Inv'
  BY <1>2, DecidedInv DEF OwnerRefuse
<1>3. QED
  BY <1>1, <1>2, WriteInv DEF Owner

\* The steps of a call touch neither receipts nor what was written.
LEMMA StepInv == ASSUME Inv, NEW a \in Attempts, Step(a) PROVE Inv'
<1> USE DEF ClientID
<1>1. UNCHANGED <<policy, changes, versions, kind, key, wanted, reply, saved>>
  BY DEF Step, Begin, Authorize, InvokeSave, InvokeRead, Receive, Reconcile, Fail, Disclose, Complete, Moving, call
<1>2. \A k : Receipts(k)' = Receipts(k)
  BY <1>1 DEF Receipts, HasRow
<1>3. WrittenInv' /\ LengthInv'
  BY <1>1, <1>2 DEF Inv, WrittenInv, LengthInv
<1>4. /\ \A r : HasRow(Found(wanted[a])) => Found(wanted[a]) \in Row
      /\ Receipts(key[a]) \subseteq Row
  BY FoundRows DEF Inv
<1> DEFINE Typed == stage' \in [Attempts -> Stage] /\ answer' \in [Attempts -> Row \cup {NoRow}] /\ sent' \subseteq Attempts
<1> DEFINE Others ==
      /\ \A b \in Attempts \ {a} : stage'[b] = stage[b] /\ answer'[b] = answer[b] /\ (b \in sent' <=> b \in sent)
<1> DEFINE Own == AttemptInv(a)'
<1>5. ASSUME Begin(a) PROVE Typed /\ Others /\ Own
  BY <1>1, <1>2, <1>5 DEF Begin, Goto, Moving, Inv, TypeOK, Stage, AttemptInv
<1>6. ASSUME Authorize(a) PROVE Typed /\ Others /\ Own
  BY <1>1, <1>2, <1>6 DEF Authorize, Goto, Moving, Inv, TypeOK, Stage, AttemptInv, Kind
<1>7. ASSUME InvokeSave(a) PROVE Typed /\ Others /\ Own
  <2>1. CASE key[a] = NoKey
    BY <1>1, <1>2, <1>7, <2>1 DEF InvokeSave, Goto, Inv, TypeOK, Stage, AttemptInv
  <2>2. CASE key[a] # NoKey
    <3>1. key[a] \in Keys
      BY <2>2 DEF Inv, TypeOK, Client
    <3>2. /\ stage' = [stage EXCEPT ![a] = "saving"] /\ sent' = sent \cup {a}
          /\ stage[a] = "invoke" /\ kind[a] = "save" /\ answer' = answer
      BY <1>7, <2>2 DEF InvokeSave, Goto
    <3>3. Typed /\ Others
      BY <3>2 DEF Inv, TypeOK, Stage
    <3>4. stage'[a] = "saving" /\ AttemptInv(a)
      BY <3>2 DEF Inv, TypeOK
    <3>5. Own
      BY <1>1, <1>2, <3>1, <3>2, <3>4 DEF AttemptInv
    <3>6. QED
      BY <3>3, <3>5
  <2>3. QED
    BY <2>1, <2>2
<1>8. ASSUME InvokeRead(a) PROVE Typed /\ Others /\ Own
  BY <1>1, <1>2, <1>4, <1>8 DEF InvokeRead, Goto, Moving, Disclose, Complete, Inv, TypeOK, Stage, AttemptInv
<1>9. ASSUME Receive(a) PROVE Typed /\ Others /\ Own
  BY <1>1, <1>2, <1>9 DEF Receive, Goto, Moving, Disclose, Complete, Inv, TypeOK, Stage, AttemptInv
<1>10. ASSUME Reconcile(a) PROVE Typed /\ Others /\ Own
  <2>1. ASSUME NEW row \in Receipts(key[a]), Complete(a, row) PROVE Typed /\ Others /\ Own
    BY <1>1, <1>2, <1>4, <1>10, <2>1 DEF Reconcile, Goto, Complete, Inv, TypeOK, Stage, AttemptInv
  <2>2. ASSUME NEW s \in {"failed", "missing", "withheld"}, Goto(a, s), Moving PROVE Typed /\ Others /\ Own
    BY <1>1, <1>2, <1>10, <2>2 DEF Reconcile, Goto, Moving, Inv, TypeOK, Stage, AttemptInv
  <2> HIDE DEF Typed, Others, Own
  <2>3. QED
    BY <1>10, <2>1, <2>2 DEF Reconcile, Disclose
<1>11. ASSUME Fail(a) PROVE Typed /\ Others /\ Own
  BY <1>1, <1>2, <1>11 DEF Fail, Goto, Moving, Inv, TypeOK, Stage, AttemptInv
<1>12. Typed /\ Others /\ Own
  BY <1>5, <1>6, <1>7, <1>8, <1>9, <1>10, <1>11 DEF Step
<1>13. TypeOK'
  BY <1>1, <1>12 DEF Inv, TypeOK
<1>14. ASSUME NEW b \in Attempts \ {a} PROVE AttemptInv(b)'
  BY <1>1, <1>2, <1>12 DEF Inv, AttemptInv
<1>15. QED
  BY <1>3, <1>12, <1>13, <1>14 DEF Inv

THEOREM Invariant == Spec => []Inv
<1>1. Inv /\ [Next]_vars => Inv'
  <2> SUFFICES ASSUME Inv, [Next]_vars PROVE Inv'
    OBVIOUS
  <2>1. CASE SetPolicy
    <3>1. \A k : Receipts(k)' = Receipts(k)
      BY <2>1 DEF SetPolicy, Receipts, HasRow
    <3>2. TypeOK'
      BY <2>1, ConstantsAssumption DEF SetPolicy, call, Inv, TypeOK
    <3>3. QED
      BY <2>1, <3>1, <3>2 DEF SetPolicy, call, Inv, AttemptInv, WrittenInv, LengthInv
  <2>2. CASE UNCHANGED vars
    BY <2>2 DEF vars, call, Inv, TypeOK, AttemptInv, WrittenInv, LengthInv, Receipts, HasRow
  <2>3. QED
    BY <2>1, <2>2, StepInv, OwnerInv DEF Next, AllDone
<1>2. QED
  BY InitInv, <1>1, PTL DEF Spec

-----------------------------------------------------------------------------
(* The refinement *)

\* A step that ends no save, reconciliation or inspection tells nothing.
LEMMA Silent ==
    ASSUME UNCHANGED call,
           \A b \in Attempts : kind[b] # "read" =>
              /\ stage[b] \in Telling <=> stage'[b] \in Telling
              /\ stage[b] \in Telling => stage'[b] = stage[b] /\ answer'[b] = answer[b]
    PROVE  UNCHANGED Told
BY DEF Told, call

\* The end of a call tells one thing more.
LEMMA Tells ==
    ASSUME TypeOK, NEW a \in Attempts, NEW s \in Telling, UNCHANGED call,
           kind[a] # "read", stage[a] \notin Telling,
           stage' = [stage EXCEPT ![a] = s],
           \A b \in Attempts : b # a => answer'[b] = answer[b]
    PROVE  Told' = Told \cup {[key |-> key[a], status |-> s, row |-> answer'[a]]}
<1>1. stage'[a] = s /\ \A b \in Attempts : b # a => stage'[b] = stage[b]
  BY DEF TypeOK
<1>2. UNCHANGED <<kind, key>>
  BY DEF call
<1>3. {b \in Attempts : kind'[b] # "read" /\ stage'[b] \in Telling} =
      {b \in Attempts : kind[b] # "read" /\ stage[b] \in Telling} \cup {a}
  BY <1>1, <1>2
<1>4. a \notin {b \in Attempts : kind[b] # "read" /\ stage[b] \in Telling}
  OBVIOUS
<1>5. QED
  BY <1>1, <1>2, <1>3, <1>4 DEF Told

LEMMA SameSaved == ASSUME UNCHANGED <<key, saved>> PROVE UNCHANGED Saved
BY DEF Saved

\* What receipts there are was saved, and nothing else was.
LEMMA SavedAreReceipts ==
    ASSUME Inv
    PROVE  /\ \A k \in Keys : \A row \in Receipts(k) : [key |-> k, row |-> row] \in Saved
           /\ \A k \in Keys : Receipts(k) = {} => \A s \in Saved : s.key # k
<1>1. ASSUME NEW k \in Keys, NEW row \in Receipts(k) PROVE [key |-> k, row |-> row] \in Saved
  <2>1. PICK a \in Attempts : saved[a] = row /\ key[a] = k
    BY DEF Inv, WrittenInv
  <2>2. row # NoRow
    BY Constants DEF Receipts
  <2>3. QED
    BY <2>1, <2>2 DEF Saved
<1>2. ASSUME NEW k \in Keys, Receipts(k) = {}, NEW s \in Saved PROVE s.key # k
  <2>1. PICK a \in Attempts : saved[a] # NoRow /\ s = [key |-> key[a], row |-> saved[a]]
    BY DEF Saved
  <2>2. saved[a] \in Receipts(key[a])
    BY <2>1 DEF Inv, AttemptInv
  <2>3. QED
    BY <1>2, <2>1, <2>2
<1>3. QED
  BY <1>1, <1>2

\* A call that has come to a row shows it or withholds it, and one that finds no
\* receipt says so.
LEMMA TellStep ==
    ASSUME Inv, NEW a \in Attempts, NEW s \in Telling, NEW row, UNCHANGED <<call, saved>>,
           kind[a] # "read", stage[a] \notin Telling, key[a] \in Keys,
           stage' = [stage EXCEPT ![a] = s], row = answer'[a],
           \A b \in Attempts : b # a => answer'[b] = answer[b],
           \/ s = "completed" /\ row \in Receipts(key[a])
           \/ s = "missing" /\ row = NoRow /\ Receipts(key[a]) = {}
           \/ s = "withheld" /\ row = NoRow /\ Receipts(key[a]) # {}
    PROVE  Ledger!Next
<1>1. Ledger!Tell(key[a], s, row)
  BY Tells, SameSaved DEF Inv, Ledger!Tell, call
<1>2. CASE s = "completed" /\ row \in Receipts(key[a])
  <2>1. [key |-> key[a], row |-> row] \in Saved /\ row \in Row
    BY <1>2, SavedAreReceipts DEF Receipts
  <2>2. QED
    BY <1>1, <1>2, <2>1 DEF Ledger!Complete, Ledger!Next
<1>3. CASE s = "missing" /\ row = NoRow /\ Receipts(key[a]) = {}
  <2>1. \A t \in Saved : t.key # key[a]
    BY <1>3, SavedAreReceipts
  <2>2. Ledger!Miss(key[a])
    BY <1>1, <1>3, <2>1 DEF Ledger!Miss, Ledger!Unsaved
  <2>3. QED
    BY <2>2 DEF Ledger!Next
<1>4. CASE s = "withheld" /\ row = NoRow /\ Receipts(key[a]) # {}
  <2>1. PICK found : found \in Receipts(key[a])
    BY <1>4
  <2>2. [key |-> key[a], row |-> found] \in Saved
    BY <2>1, SavedAreReceipts
  <2>3. \E t \in Saved : t.key = key[a]
    BY <2>2
  <2>4. Ledger!Withhold(key[a])
    BY <1>1, <1>4, <2>3 DEF Ledger!Withhold, Ledger!Unsaved
  <2>5. QED
    BY <2>4 DEF Ledger!Next
<1>5. QED
  BY <1>2, <1>3, <1>4

\* How a call discloses a row that its key was saved with.
LEMMA DiscloseStep ==
    ASSUME Inv, NEW a \in Attempts, NEW row \in Receipts(key[a]), Disclose(a, row),
           kind[a] # "read", stage[a] \notin Telling, key[a] \in Keys, answer[a] = NoRow
    PROVE  Ledger!Next
<1>1. CASE Complete(a, row)
  <2>1. /\ stage' = [stage EXCEPT ![a] = "completed"] /\ answer' = [answer EXCEPT ![a] = row]
        /\ UNCHANGED <<call, saved>>
    BY <1>1 DEF Complete, Goto
  <2>2. answer'[a] = row /\ \A b \in Attempts : b # a => answer'[b] = answer[b]
    BY <2>1 DEF Inv, TypeOK
  <2>3. QED
    BY <2>1, <2>2, TellStep DEF Telling
<1>2. CASE Goto(a, "withheld") /\ Moving
  <2>1. stage' = [stage EXCEPT ![a] = "withheld"] /\ UNCHANGED <<call, saved, answer>>
    BY <1>2 DEF Goto, Moving
  <2>2. Receipts(key[a]) # {}
    OBVIOUS
  <2>3. QED
    BY <2>1, <2>2, TellStep DEF Telling
<1>3. QED
  BY <1>1, <1>2 DEF Disclose

LEMMA OwnerStep == ASSUME Inv, Owner PROVE Ledger!Next \/ UNCHANGED <<Saved, Told>>
<1> USE DEF ClientID
<1>1. ASSUME NEW a \in Attempts, NEW row, Decided(a, row) PROVE UNCHANGED Told
  <2>1. /\ UNCHANGED <<call, answer>>
        /\ stage' = [stage EXCEPT ![a] = IF @ = "saving" THEN "replied" ELSE @]
    BY <1>1 DEF Decided
  <2>2. \A b \in Attempts : stage'[b] = stage[b] \/ (stage[b] = "saving" /\ stage'[b] = "replied")
    BY <2>1 DEF Inv, TypeOK
  <2>3. QED
    BY <2>1, <2>2, Silent DEF Telling
<1>2. ASSUME NEW a \in Attempts, OwnerRepeat(a) \/ OwnerRefuse(a) PROVE UNCHANGED <<Saved, Told>>
  <2>1. PICK row : Decided(a, row)
    BY <1>2 DEF OwnerRepeat, OwnerRefuse
  <2>2. UNCHANGED <<key, saved>>
    BY <1>2, <2>1 DEF OwnerRepeat, OwnerRefuse, Decided, call
  <2>3. QED
    BY <1>1, <2>1, <2>2, SameSaved
<1>3. ASSUME NEW a \in Attempts, OwnerWrite(a) PROVE Ledger!Next
  <2>1. PICK i \in Ids :
          /\ Fits(Writes[key[a]], i)
          /\ versions' = [versions EXCEPT ![i] = Append(@, key[a])]
          /\ saved' = [saved EXCEPT ![a] = [id |-> i, revision |-> Len(versions[i]) + 1]]
          /\ Decided(a, [id |-> i, revision |-> Len(versions[i]) + 1])
    BY <1>3 DEF OwnerWrite
  <2> DEFINE row == [id |-> i, revision |-> Len(versions[i]) + 1]
  <2>2. /\ a \in sent /\ key[a] \in Keys /\ saved[a] = NoRow /\ Receipts(key[a]) = {}
        /\ Len(versions[i]) < MaxRevision
    BY <1>3, <2>1 DEF OwnerWrite, Inv, AttemptInv, Fits
  <2>3. row \in Row
    BY <2>2, Constants DEF Row, Inv, TypeOK
  <2>4. row # NoRow
    BY <2>3, Constants
  <2>5. UNCHANGED key /\ UNCHANGED Told
    BY <1>1, <2>1 DEF Decided, call
  <2> HIDE DEF row
  <2>6. saved' = [saved EXCEPT ![a] = row]
    BY <2>1 DEF row
  <2>7. Saved' = Saved \cup {[key |-> key[a], row |-> row]}
    <3>1. {b \in Attempts : saved'[b] # NoRow} = {b \in Attempts : saved[b] # NoRow} \cup {a}
      BY <2>2, <2>4, <2>6 DEF Inv, TypeOK
    <3>2. saved'[a] = row /\ \A b \in Attempts : saved[b] # NoRow => saved'[b] = saved[b]
      BY <2>2, <2>6 DEF Inv, TypeOK
    <3>3. a \notin {b \in Attempts : saved[b] # NoRow}
      BY <2>2
    <3>4. QED
      BY <2>5, <3>1, <3>2, <3>3 DEF Saved
  <2>8. \A s \in Saved : s.key # key[a]
    BY <2>2, SavedAreReceipts
  <2>9. Ledger!Save(key[a], row)
    BY <2>5, <2>7, <2>8 DEF Ledger!Save, Ledger!Unsaved
  <2>10. QED
    BY <2>2, <2>3, <2>9 DEF Ledger!Next
<1>4. QED
  BY <1>2, <1>3 DEF Owner

LEMMA CallStep == ASSUME Inv, NEW a \in Attempts, Step(a) PROVE Ledger!Next \/ UNCHANGED <<Saved, Told>>
<1> USE DEF ClientID
<1>1. UNCHANGED <<versions, call, reply, saved>> /\ UNCHANGED Saved
  <2>1. UNCHANGED <<versions, call, reply, saved>>
    BY DEF Step, Begin, Authorize, InvokeSave, InvokeRead, Receive, Reconcile, Fail, Disclose, Complete, Moving
  <2>2. QED
    BY <2>1, SameSaved DEF call
<1>2. ASSUME NEW s \in Stage \ Telling, stage' = [stage EXCEPT ![a] = s], UNCHANGED answer,
             stage[a] \notin Telling
      PROVE  UNCHANGED Told
  <2>1. \A b \in Attempts : stage'[b] = (IF b = a THEN s ELSE stage[b])
    BY <1>2 DEF Inv, TypeOK
  <2>2. QED
    BY <1>1, <1>2, <2>1, Silent
<1>3. CASE Begin(a) \/ Authorize(a) \/ InvokeSave(a) \/ Fail(a)
  <2>1. stage[a] \notin Telling /\ UNCHANGED answer
    BY <1>3 DEF Begin, Authorize, InvokeSave, Fail, Moving, Telling
  <2>2. \E s \in Stage \ Telling : stage' = [stage EXCEPT ![a] = s]
    BY <1>3 DEF Begin, Authorize, InvokeSave, Fail, Goto, Stage, Telling
  <2>3. QED
    BY <1>1, <1>2, <2>1, <2>2
<1>4. CASE InvokeRead(a)
  <2>1. kind[a] = "read" /\ (\A b \in Attempts : b # a => stage'[b] = stage[b] /\ answer'[b] = answer[b])
    BY <1>4 DEF InvokeRead, Disclose, Complete, Moving, Goto, Inv, TypeOK
  <2>2. QED
    BY <1>1, <2>1, Silent
<1>5. CASE Receive(a)
  <2>1. stage[a] = "replied" /\ kind[a] = "save" /\ key[a] \in Keys /\ answer[a] = NoRow
    BY <1>5 DEF Receive, Inv, AttemptInv
  <2>2. CASE reply[a] = NoRow
    BY <1>1, <1>2, <1>5, <2>1, <2>2 DEF Receive, Goto, Moving, Stage, Telling
  <2>3. CASE reply[a] # NoRow
    <3>1. reply[a] \in Receipts(key[a]) /\ Disclose(a, reply[a])
      BY <1>5, <2>3 DEF Receive, Inv, AttemptInv
    <3>2. QED
      BY <2>1, <3>1, DiscloseStep DEF Telling
  <2>4. QED
    BY <2>2, <2>3
<1>6. CASE Reconcile(a)
  <2>1. stage[a] = "lookup" /\ kind[a] # "read" /\ key[a] \in Client /\ answer[a] = NoRow
    BY <1>6 DEF Reconcile, Inv, TypeOK, AttemptInv
  <2>2. CASE key[a] = NoKey
    <3>1. stage' = [stage EXCEPT ![a] = "failed"] /\ UNCHANGED answer
      BY <1>6, <2>2 DEF Reconcile, Goto, Moving
    <3>2. QED
      BY <1>1, <1>2, <2>1, <3>1 DEF Stage, Telling
  <2>3. ASSUME key[a] # NoKey, NEW row \in Receipts(key[a]), Disclose(a, row) PROVE Ledger!Next
    BY <2>1, <2>3, DiscloseStep DEF Client, Telling
  <2>4. ASSUME key[a] # NoKey, Receipts(key[a]) = {}, Goto(a, "missing"), Moving PROVE Ledger!Next
    <3>1. stage' = [stage EXCEPT ![a] = "missing"] /\ UNCHANGED answer
      BY <2>4 DEF Goto, Moving
    <3>2. QED
      BY <1>1, <2>1, <2>4, <3>1, TellStep DEF Client, Telling
  <2>5. QED
    BY <1>6, <2>2, <2>3, <2>4 DEF Reconcile
<1>7. QED
  BY <1>3, <1>4, <1>5, <1>6 DEF Step

-----------------------------------------------------------------------------
(* Theorems *)

\* The state of Records keeps its type, for all calls, keys and records.
THEOREM TypeCorrect == Spec => []TypeOK
BY Invariant, PTL DEF Inv

LEMMA InitRefines == Init => Ledger!Init
BY DEF Init, Ledger!Init, Saved, Told, Telling

LEMMA NextRefines == Inv /\ [Next]_vars => [Ledger!Next]_(Ledger!vars)
<1> SUFFICES ASSUME Inv, [Next]_vars PROVE Ledger!Next \/ UNCHANGED <<Saved, Told>>
  BY DEF Ledger!vars
<1>1. CASE SetPolicy \/ UNCHANGED vars
  <2>1. UNCHANGED <<call, stage, answer, saved>>
    BY <1>1 DEF SetPolicy, vars
  <2>2. QED
    BY <2>1, Silent, SameSaved DEF call
<1>2. QED
  BY <1>1, OwnerStep, CallStep DEF Next, AllDone

\* Invoke, Reconcile and InspectOutcome keep what SaveLedger promises: one revision
\* for each idempotency key, no call is told of another, and of the two uncertain
\* outcomes a missing receipt means that nothing is written yet and a result that is
\* withheld that a revision is.
THEOREM Refinement == Spec => ImplementsLedger
BY InitRefines, NextRefines, Invariant, PTL DEF Spec, ImplementsLedger, Ledger!Spec

\* What the host is told of one idempotency key by Invoke, Reconcile and
\* InspectOutcome, at any time and in any order, is one and the same revision, and
\* it was saved. So was one of which the host was told only that it cannot be shown.
OneResultPerKey ==
    /\ \A s, t \in Told : s.key = t.key /\ s.status = "completed" /\ t.status = "completed" => s = t
    /\ \A t \in Told : t.status = "completed" => [key |-> t.key, row |-> t.row] \in Saved
    /\ \A t \in Told : t.status = "withheld" => \E s \in Saved : s.key = t.key

\* The promise in its inductive form: what was saved under a key is one revision.
LedgerInv ==
    /\ \A s, t \in Saved : s.key = t.key => s = t
    /\ \A t \in Told :
          /\ t \in [key : Keys, status : Telling, row : Row \cup {NoRow}]
          /\ t.status = "completed" => [key |-> t.key, row |-> t.row] \in Saved
          /\ t.status = "withheld" => \E s \in Saved : s.key = t.key

LEMMA LedgerStep == ASSUME LedgerInv, [Ledger!Next]_(Ledger!vars)
                    PROVE  LedgerInv' /\ Saved \subseteq Saved' /\ Told \subseteq Told'
<1>1. CASE UNCHANGED Ledger!vars
  BY <1>1 DEF Ledger!vars, LedgerInv
<1>2. ASSUME NEW k \in Keys, NEW row \in Row, Ledger!Save(k, row)
      PROVE  LedgerInv' /\ Saved \subseteq Saved' /\ Told \subseteq Told'
  BY <1>2 DEF Ledger!Save, Ledger!Unsaved, LedgerInv
<1>3. ASSUME NEW k \in Keys, NEW status \in Telling, NEW row \in Row \cup {NoRow}, Ledger!Tell(k, status, row),
             status = "completed" => [key |-> k, row |-> row] \in Saved,
             status = "withheld" => \E s \in Saved : s.key = k
      PROVE  LedgerInv' /\ Saved \subseteq Saved' /\ Told \subseteq Told'
  BY <1>3 DEF Ledger!Tell, LedgerInv
<1>4. ASSUME NEW k \in Keys, NEW row \in Row, Ledger!Complete(k, row)
      PROVE  LedgerInv' /\ Saved \subseteq Saved' /\ Told \subseteq Told'
  BY <1>3, <1>4 DEF Ledger!Complete, Telling
<1>5. ASSUME NEW k \in Keys, Ledger!Miss(k)
      PROVE  LedgerInv' /\ Saved \subseteq Saved' /\ Told \subseteq Told'
  BY <1>3, <1>5 DEF Ledger!Miss, Telling
<1>6. ASSUME NEW k \in Keys, Ledger!Withhold(k)
      PROVE  LedgerInv' /\ Saved \subseteq Saved' /\ Told \subseteq Told'
  BY <1>3, <1>6 DEF Ledger!Withhold, Ledger!Unsaved, Telling
<1>7. QED
  BY <1>1, <1>2, <1>4, <1>5, <1>6 DEF Ledger!Next

LEMMA AlwaysLedgerInv == Spec => []LedgerInv
<1>1. Init => LedgerInv
  BY InitRefines DEF Ledger!Init, LedgerInv
<1>2. Inv /\ LedgerInv /\ [Next]_vars => LedgerInv'
  BY NextRefines, LedgerStep
<1>3. QED
  BY <1>1, <1>2, Invariant, PTL DEF Spec

\* A host that retries, reconciles and inspects under one key never has to
\* choose between two answers.
THEOREM AnswersAgree == Spec => []OneResultPerKey
<1>1. LedgerInv => OneResultPerKey
  <2> SUFFICES ASSUME LedgerInv, NEW s \in Told, NEW t \in Told, s.key = t.key,
                      s.status = "completed", t.status = "completed"
               PROVE  s = t
    BY DEF OneResultPerKey, LedgerInv
  <2>1. [key |-> s.key, row |-> s.row] = [key |-> t.key, row |-> t.row]
    BY DEF LedgerInv
  <2>2. s.row = t.row /\ \A r \in {s, t} : r \in [key : Keys, status : Telling, row : Row \cup {NoRow}]
    BY <2>1 DEF LedgerInv
  <2>3. QED
    BY <2>2
<1>2. QED
  BY <1>1, AlwaysLedgerInv, PTL

\* A revision, once saved, stays saved, and no call unsays what it has told.
NothingIsTakenBack == [][Saved \subseteq Saved' /\ Told \subseteq Told']_vars

\* No retry, late answer or failing call undoes a save or revises an answer.
THEOREM AnswersStay == Spec => NothingIsTakenBack
<1>1. Inv /\ LedgerInv /\ [Next]_vars => [Saved \subseteq Saved' /\ Told \subseteq Told']_vars
  BY NextRefines, LedgerStep
<1>2. QED
  BY <1>1, Invariant, AlwaysLedgerInv, PTL DEF Spec, NothingIsTakenBack

-----------------------------------------------------------------------------
(* How often a call asks *)

\* The stages of a call, by what is left of it.
Place ==
    [idle |-> 4, authorize |-> 3, invoke |-> 2, lookup |-> 1, saving |-> 1, replied |-> 1,
     completed |-> 0, missing |-> 0, withheld |-> 0, refused |-> 0, failed |-> 0]

\* Every step of a call brings it nearer to its answer; others can only reply to a
\* save it waits for; an ended call stays as it ended. And it sends a save once at
\* most, if it was called to save.
CallsRunDown ==
    [][\A a \in Attempts :
          /\ Place[stage[a]] = 0 <=> stage[a] \in Ended
          /\ Step(a) => Place[stage'[a]] < Place[stage[a]]
          /\ ~Step(a) =>
               /\ UNCHANGED answer[a]
               /\ UNCHANGED stage[a] \/ (stage[a] = "saving" /\ stage'[a] = "replied")
          /\ stage[a] \in Ended => UNCHANGED <<stage[a], answer[a]>>
          /\ a \in sent' \ sent => Step(a) /\ kind[a] = "save" /\ stage[a] = "invoke"]_vars

LEMMA StepRunsDown ==
    ASSUME TypeOK, NEW a \in Attempts, Step(a)
    PROVE  /\ stage[a] \notin Ended
           /\ Place[stage'[a]] < Place[stage[a]]
           /\ \A b \in Attempts : b # a => UNCHANGED <<stage[b], answer[b]>>
           /\ \A b \in sent' \ sent : b = a /\ kind[a] = "save" /\ stage[a] = "invoke"
<1> USE DEF TypeOK, Place, Ended, Goto, Moving, Complete, Disclose
<1>1. CASE Begin(a)
  BY <1>1 DEF Begin
<1>2. CASE Authorize(a)
  BY <1>2 DEF Authorize
<1>3. CASE InvokeSave(a)
  BY <1>3 DEF InvokeSave
<1>4. CASE InvokeRead(a)
  BY <1>4 DEF InvokeRead
<1>5. CASE Receive(a)
  BY <1>5 DEF Receive
<1>6. CASE Reconcile(a)
  BY <1>6 DEF Reconcile
<1>7. CASE Fail(a)
  BY <1>7 DEF Fail
<1>8. QED
  BY <1>1, <1>2, <1>3, <1>4, <1>5, <1>6, <1>7 DEF Step

\* The owner only replies.
LEMMA OwnerReplies ==
    ASSUME TypeOK, Owner, NEW b \in Attempts
    PROVE  /\ UNCHANGED answer[b] /\ sent' \subseteq sent
           /\ UNCHANGED stage[b] \/ (stage[b] = "saving" /\ stage'[b] = "replied")
<1>1. PICK a \in Attempts : OwnerRepeat(a) \/ OwnerWrite(a) \/ OwnerRefuse(a)
  BY DEF Owner
<1>2. \E row : Decided(a, row)
  BY <1>1 DEF OwnerRepeat, OwnerWrite, OwnerRefuse
<1>3. QED
  BY <1>2 DEF Decided, TypeOK

\* Invoke, Reconcile and InspectOutcome take at most four steps of their own, and
\* the save behind them is sent once: no failure and no lost answer makes them send
\* again.
THEOREM CallsComeToAnEnd == Spec => CallsRunDown
<1> DEFINE RunsDown(a) ==
             /\ Place[stage[a]] = 0 <=> stage[a] \in Ended
             /\ Step(a) => Place[stage'[a]] < Place[stage[a]]
             /\ ~Step(a) =>
                  /\ UNCHANGED answer[a]
                  /\ UNCHANGED stage[a] \/ (stage[a] = "saving" /\ stage'[a] = "replied")
             /\ stage[a] \in Ended => UNCHANGED <<stage[a], answer[a]>>
             /\ a \in sent' \ sent => Step(a) /\ kind[a] = "save" /\ stage[a] = "invoke"
<1>1. ASSUME TypeOK, [Next]_vars, NEW a \in Attempts PROVE RunsDown(a)
  <2>1. Place[stage[a]] = 0 <=> stage[a] \in Ended
    BY <1>1 DEF TypeOK, Stage, Place, Ended
  <2>2. CASE Step(a)
    BY <1>1, <2>1, <2>2, StepRunsDown
  <2>3. ASSUME NEW b \in Attempts, b # a, Step(b)
        PROVE  UNCHANGED <<stage[a], answer[a]>> /\ a \notin sent' \ sent
    BY <1>1, <2>3, StepRunsDown
  <2>4. CASE Owner
    BY <1>1, <2>1, <2>2, <2>4, OwnerReplies DEF Ended
  <2>5. CASE SetPolicy \/ UNCHANGED vars
    BY <2>1, <2>2, <2>5 DEF SetPolicy, vars
  <2>6. QED
    BY <1>1, <2>1, <2>2, <2>3, <2>4, <2>5 DEF Next, AllDone
<1>2. TypeOK /\ [Next]_vars => [\A a \in Attempts : RunsDown(a)]_vars
  <2> HIDE DEF RunsDown
  <2>1. QED
    BY <1>1
<1>3. QED
  BY <1>2, TypeCorrect, PTL DEF Spec, CallsRunDown

\* Each revision is written by a call to save that has not written one yet.
OnlySavesWrite ==
    [][versions' # versions =>
          \E a \in sent : kind[a] = "save" /\ saved[a] = NoRow /\ saved'[a] # NoRow]_vars

\* Reconcile and InspectOutcome never write, and no save writes twice.
THEOREM LookupsNeverWrite == Spec => OnlySavesWrite
<1> DEFINE SendersSave == \A a \in sent : kind[a] = "save"
<1>1. Init => SendersSave
  BY DEF Init
<1>2. ASSUME Inv, SendersSave, [Next]_vars
      PROVE  /\ SendersSave'
             /\ versions' # versions =>
                  \E a \in sent : kind[a] = "save" /\ saved[a] = NoRow /\ saved'[a] # NoRow
  <2>1. UNCHANGED kind
    BY <1>2 DEF Next, Step, Begin, Authorize, InvokeSave, InvokeRead, Receive, Reconcile, Fail,
                Moving, Disclose, Complete, Owner, OwnerRepeat, OwnerWrite, OwnerRefuse, Decided, SetPolicy,
                AllDone, call, vars
  <2>2. ASSUME NEW a \in Attempts, Step(a) PROVE SendersSave' /\ UNCHANGED versions
    <3>1. UNCHANGED versions
      BY <2>2 DEF Step, Begin, Authorize, InvokeSave, InvokeRead, Receive, Reconcile, Fail,
                  Moving, Disclose, Complete
    <3>2. \A b \in sent' \ sent : kind[b] = "save"
      BY <1>2, <2>2, StepRunsDown DEF Inv
    <3>3. QED
      BY <1>2, <2>1, <3>1, <3>2
  <2>3. CASE Owner
    <3>1. sent' \subseteq sent
      BY <2>3 DEF Owner, OwnerRepeat, OwnerWrite, OwnerRefuse, Decided
    <3>2. ASSUME versions' # versions
          PROVE  \E a \in sent : kind[a] = "save" /\ saved[a] = NoRow /\ saved'[a] # NoRow
      <4>1. PICK a \in Attempts : OwnerWrite(a)
        BY <2>3, <3>2 DEF Owner, OwnerRepeat, OwnerRefuse
      <4>2. PICK i \in Ids : saved' = [saved EXCEPT ![a] = [id |-> i, revision |-> Len(versions[i]) + 1]]
        BY <4>1 DEF OwnerWrite
      <4>3. a \in sent /\ saved[a] = NoRow
        BY <1>2, <4>1 DEF OwnerWrite, Inv, AttemptInv
      <4>4. saved'[a] # NoRow
        BY <1>2, <4>2 DEF Inv, TypeOK, NoRow, Ids
      <4>5. QED
        BY <1>2, <4>3, <4>4
    <3>3. QED
      BY <1>2, <2>1, <3>1, <3>2
  <2>4. CASE SetPolicy \/ UNCHANGED vars
    BY <1>2, <2>1, <2>4 DEF SetPolicy, vars
  <2>5. QED
    BY <1>2, <2>2, <2>3, <2>4 DEF Next, AllDone
<1> HIDE DEF SendersSave
<1>3. QED
  BY <1>1, <1>2, Invariant, PTL DEF Spec, OnlySavesWrite
===============================================================================
