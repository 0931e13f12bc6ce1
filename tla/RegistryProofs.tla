---------------------------- MODULE RegistryProofs ----------------------------
(***************************************************************************)
(* Safety of registration, selection and the combined listing for any      *)
(* adapters, keys, definitions and plans, and that the registry is a       *)
(* catalog which only grows and freezes with the first selection.          *)
(***************************************************************************)
EXTENDS Registry, SequenceTheorems, TLAPS

-----------------------------------------------------------------------------
(* The inductive invariant *)

RegistryCopy(k) == Copy(<<"registry">>, k)
SelectionCopy(s, k) == Copy(<<s>>, k)
ListedCopy(s, k) == Copy(<<"listed", s>>, k)

Recoverable(entry) == entry.effect = "write" => entry.recoverable /\ ~entry.parallel

\* What an entry of the registry stands for.
EntryInv(k) ==
    entries[k] # Absent =>
        /\ entries[k].buffer = RegistryCopy(k)
        /\ registered[k] \in Contents
        /\ heap[RegistryCopy(k)] = registered[k]
        /\ Recoverable(entries[k])

\* What an entry of a selection stands for.
SelectedInv(s, k) ==
    selected[s][k] # Absent =>
        /\ outcome[s] = "ok"
        /\ entries[k] # Absent
        /\ selected[s][k].buffer = SelectionCopy(s, k)
        /\ heap[SelectionCopy(s, k)] = registered[k]
        /\ Recoverable(selected[s][k])

\* How far an adapter's registration has come.
AdapterInv(a) ==
    /\ status[a] = "running" => done[a] < Len(plan[a])
    /\ status[a] = "ok" => done[a] = Len(plan[a])
    /\ \A i \in 1..done[a] :
          entries[plan[a][i].key] # Absent /\ entries[plan[a][i].key].by = a

\* What the listing has gathered.
ListingInv ==
    /\ phase \in {"base", "extension", "done"} => \A s \in Selections : outcome[s] = "ok"
    /\ phase \in Selections => todo \subseteq KeysOf(phase) /\ granted \subseteq permitted
    /\ \A i \in found :
          /\ i.key \in KeysOf(i.from)
          /\ i.content = registered[i.key]
          /\ i.key \in permitted
          /\ phase = "done" => i.from = Host(i.key)

IInv ==
    /\ TypeOK
    /\ \A b \in Drafts : heap[b] \in Contents
    /\ \A k \in Keys : EntryInv(k)
    /\ \A s \in Selections, k \in Keys : SelectedInv(s, k)
    /\ \A a \in Adapters : AdapterInv(a)
    /\ ListingInv
    /\ sealed = Chosen

-----------------------------------------------------------------------------
(* Buffers *)

\* Copies of the registry, of the selections and of the listings, and the
\* drafts, are all different buffers.
LEMMA Buffers ==
    ASSUME NEW k \in Keys, NEW s \in Selections
    PROVE  /\ RegistryCopy(k) \in Buffer \ (Drafts \cup Listed)
           /\ SelectionCopy(s, k) \in Buffer \ (Drafts \cup Listed)
           /\ ListedCopy(s, k) \in Listed
           /\ \A a \in Adapters : Draft(a, k) \in Drafts
           /\ Drafts \subseteq Buffer /\ Listed \subseteq Buffer
           /\ \A l \in Keys : RegistryCopy(k) = RegistryCopy(l) => k = l
           /\ \A l \in Keys, t \in Selections : SelectionCopy(s, k) = SelectionCopy(t, l) => k = l /\ s = t
           /\ \A l \in Keys, t \in Selections : RegistryCopy(l) # SelectionCopy(t, k)
<1> USE DEF Copy, Draft, RegistryCopy, SelectionCopy, ListedCopy, Drafts, Listed, Kept, Buffer
<1>1. <<"registry">> # <<s>> /\ s \in {"base", "extension"}
  BY DEF Selections
<1>2. RegistryCopy(k) \in Kept /\ SelectionCopy(s, k) \in Kept
  BY <1>1
<1>3. RegistryCopy(k) \notin Drafts /\ SelectionCopy(s, k) \notin Drafts
  OBVIOUS
<1>4. RegistryCopy(k) \notin Listed /\ SelectionCopy(s, k) \notin Listed
  OBVIOUS
<1>5. ListedCopy(s, k) \in Listed /\ \A a \in Adapters : Draft(a, k) \in Drafts
  OBVIOUS
<1>6. \A l \in Keys, t \in Selections : RegistryCopy(l) # SelectionCopy(t, k)
  BY DEF Selections
<1>7. QED
  BY <1>2, <1>3, <1>4, <1>5, <1>6

LEMMA PlanTypes == ASSUME TypeOK, NEW a \in Adapters, status[a] = "running", AdapterInv(a)
                   PROVE  /\ done[a] \in Nat /\ done[a] + 1 \in 1..Len(plan[a])
                          /\ plan[a][done[a] + 1] \in Registration
                          /\ \A i \in 1..Len(plan[a]) : plan[a][i].key \in Keys
<1>1. plan[a] \in Seq(Registration)
  BY ConstantsAssumption DEF TypeOK
<1>2. done[a] \in 0..Len(plan[a]) /\ done[a] < Len(plan[a]) /\ Len(plan[a]) \in Nat
  BY <1>1 DEF TypeOK, AdapterInv
<1>3. \A i \in 1..Len(plan[a]) : plan[a][i] \in Registration
  BY <1>1, ElementOfSeq
<1>4. QED
  BY <1>2, <1>3 DEF Registration

-----------------------------------------------------------------------------
(* Initial states *)

LEMMA InitIInv == Init => IInv
<1> SUFFICES ASSUME Init PROVE IInv
  OBVIOUS
<1>1. heap \in [Buffer -> Contents \cup {Blank}] /\ \A b \in Drafts : heap[b] \in Contents
  BY DEF Init, Buffer
<1>2. \A a \in Adapters : plan[a] \in Seq(Registration)
  BY ConstantsAssumption DEF Init
<1>3. done \in [Adapters -> Nat] /\ \A a \in Adapters : done[a] <= Len(plan[a]) /\ AdapterInv(a)
  BY <1>2 DEF Init, AdapterInv
<1>4. TypeOK
  <2>1. /\ status \in [Adapters -> {"running", "ok", "failed"}]
        /\ entries \in [Keys -> Entry \cup {Absent}]
        /\ registered \in [Keys -> Contents \cup {Absent}]
        /\ selected \in [Selections -> [Keys -> Entry \cup {Absent}]]
        /\ outcome \in [Selections -> {"none", "refused", "ok"}]
    BY DEF Init, Nothing
  <2>2. changes \in 0..MaxChanges
    BY ConstantsAssumption DEF Init
  <2>3. QED
    BY <1>1, <1>3, <2>1, <2>2 DEF Init, TypeOK
<1>5. \A k \in Keys : EntryInv(k) /\ \A s \in Selections : SelectedInv(s, k)
  BY DEF Init, EntryInv, SelectedInv, Nothing
<1>6. ListingInv
  BY DEF Init, ListingInv, Selections
<1>7. sealed = Chosen
  BY DEF Init, Chosen
<1>8. QED
  BY <1>1, <1>3, <1>4, <1>5, <1>6, <1>7 DEF IInv

-----------------------------------------------------------------------------
(* Registration *)

LEMMA RegisterStep ==
    ASSUME IInv, NEW a \in Adapters, Register(a)
    PROVE  IInv' /\ [Frozen!Next]_<<Catalog, Chosen>>
<1> DEFINE r == plan[a][done[a] + 1]
           said == heap[Draft(a, r.key)]
           new == [by |-> a, effect |-> r.effect, parallel |-> r.parallel,
                   recoverable |-> r.recoverable, buffer |-> RegistryCopy(r.key)]
<1> TypeOK
  BY DEF IInv
<1> "base" \in Selections
  BY DEF Selections
<1>1. /\ r \in Registration /\ r.key \in Keys
      /\ done[a] \in Nat /\ done[a] + 1 \in 1..Len(plan[a]) /\ Len(plan[a]) \in Nat
      /\ \A i \in 1..Len(plan[a]) : plan[a][i].key \in Keys
  <2>1. status[a] = "running" /\ AdapterInv(a)
    BY DEF IInv, Register
  <2>2. /\ r \in Registration /\ done[a] \in Nat /\ done[a] + 1 \in 1..Len(plan[a])
        /\ \A i \in 1..Len(plan[a]) : plan[a][i].key \in Keys
    BY <2>1, PlanTypes
  <2>3. plan[a] \in Seq(Registration)
    BY ConstantsAssumption DEF TypeOK
  <2>4. Len(plan[a]) \in Nat
    BY <2>3
  <2>5. QED
    BY <2>2, <2>4 DEF Registration
<1>2. said \in Contents /\ RegistryCopy(r.key) \in Buffer
  BY <1>1, Buffers DEF IInv
<1>3. CASE Registrable(r) /\ Open(r.key)
  <2>1. /\ entries' = [entries EXCEPT ![r.key] = new]
        /\ heap' = [heap EXCEPT ![RegistryCopy(r.key)] = said]
        /\ registered' = [registered EXCEPT ![r.key] = said]
        /\ done' = [done EXCEPT ![a] = done[a] + 1]
        /\ status' = [status EXCEPT ![a] = IF done[a] + 1 = Len(plan[a]) THEN "ok" ELSE status[a]]
        /\ status[a] = "running"
    BY <1>3 DEF Register, copyDefinition, RegistryCopy
  <2>2. UNCHANGED <<plan, sealed, choice, granted, changes, listing, permitted>>
    BY DEF Register
  <2>3. new \in Entry /\ Recoverable(new) /\ new # Absent
    <3>1. new \in Entry
      BY <1>1, <1>2 DEF Entry, Registration
    <3>2. QED
      BY <1>3, <3>1, AbsentAssumption DEF Recoverable, Registrable
  <2>4. entries[r.key] = Absent /\ ~sealed
    BY <1>3 DEF Open
  <2>5. TypeOK'
    <3>1. done' \in [Adapters -> Nat] /\ \A b \in Adapters : done'[b] <= Len(plan'[b])
      BY <1>1, <2>1, <2>2 DEF TypeOK
    <3>2. status' \in [Adapters -> {"running", "ok", "failed"}]
      BY <2>1 DEF TypeOK
    <3>3. entries' \in [Keys -> Entry \cup {Absent}]
      BY <2>1, <2>3 DEF TypeOK
    <3>4. /\ heap' \in [Buffer -> Contents \cup {Blank}]
          /\ registered' \in [Keys -> Contents \cup {Absent}]
      BY <1>2, <2>1 DEF TypeOK
    <3>5. QED
      BY <2>2, <3>1, <3>2, <3>3, <3>4 DEF TypeOK, choice, listing
  <2>6. \A b \in Drafts : heap'[b] \in Contents
    BY <1>1, <1>2, <2>1, Buffers DEF IInv, TypeOK
  <2>7. ASSUME NEW k \in Keys PROVE EntryInv(k)'
    <3>1. CASE k = r.key
      <4>1. entries'[k] = new /\ registered'[k] = said /\ heap'[RegistryCopy(k)] = said
        BY <1>2, <2>1, <3>1 DEF TypeOK
      <4>2. new.buffer = RegistryCopy(k) /\ new # Absent /\ said \in Contents
        BY <1>2, <2>3, <3>1
      <4> HIDE DEF new, said
      <4>3. QED
        BY <2>3, <4>1, <4>2 DEF EntryInv
    <3>2. CASE k # r.key
      <4>1. entries'[k] = entries[k] /\ registered'[k] = registered[k]
            /\ heap'[RegistryCopy(k)] = heap[RegistryCopy(k)]
        BY <1>1, <2>1, <3>2, Buffers DEF TypeOK
      <4>2. QED
        BY <4>1 DEF IInv, EntryInv
    <3>3. QED
      BY <3>1, <3>2
  <2>8. ASSUME NEW s \in Selections, NEW k \in Keys PROVE SelectedInv(s, k)'
    <3>1. UNCHANGED <<selected, outcome>> /\ SelectedInv(s, k)
      BY <2>2 DEF IInv, choice
    <3>2. k # r.key => entries'[k] = entries[k] /\ registered'[k] = registered[k]
      BY <2>1 DEF TypeOK
    <3>3. heap'[SelectionCopy(s, k)] = heap[SelectionCopy(s, k)]
      BY <1>1, <2>1, Buffers DEF TypeOK
    <3>4. QED
      BY <2>4, <3>1, <3>2, <3>3 DEF SelectedInv
  <2>9. ASSUME NEW b \in Adapters PROVE AdapterInv(b)'
    <3>1. \A i \in 1..done[b] : plan[b][i].key # r.key
      BY <2>4 DEF IInv, AdapterInv
    <3>2. done[b] \in Nat
      BY ConstantsAssumption DEF TypeOK
    <3>3. b # a => done'[b] = done[b] /\ status'[b] = status[b]
      BY <2>1
    <3>4. /\ done'[a] = done[a] + 1
          /\ status'[a] = IF done[a] + 1 = Len(plan[a]) THEN "ok" ELSE "running"
      BY <2>1 DEF TypeOK
    <3>5. CASE b = a
      <4>1. \A i \in 1..done[a] : entries'[plan[a][i].key] = entries[plan[a][i].key]
        BY <2>1, <3>1, <3>5
      <4>2. entries'[r.key] = new
        BY <1>1, <2>1 DEF TypeOK
      <4>3. \A i \in 1..(done[a] + 1) : i \in 1..done[a] \/ i = done[a] + 1
        BY <1>1
      <4>4. \A i \in 1..done'[a] : entries'[plan[a][i].key] # Absent /\ entries'[plan[a][i].key].by = a
        <5>1. \A i \in 1..done[a] : entries[plan[a][i].key] # Absent /\ entries[plan[a][i].key].by = a
          BY DEF IInv, AdapterInv
        <5>2. new.by = a
          OBVIOUS
        <5>3. QED
          BY <2>3, <3>4, <4>1, <4>2, <4>3, <5>1, <5>2
      <4>5. /\ status'[a] = "running" => done'[a] < Len(plan[a])
            /\ status'[a] = "ok" => done'[a] = Len(plan[a])
        BY <1>1, <2>1, <3>4 DEF TypeOK
      <4>6. QED
        BY <2>2, <3>5, <4>4, <4>5 DEF AdapterInv
    <3>6. CASE b # a
      <4>1. \A i \in 1..done[b] : entries'[plan[b][i].key] = entries[plan[b][i].key]
        BY <2>1, <3>1
      <4>2. QED
        BY <2>2, <3>3, <3>6, <4>1 DEF IInv, AdapterInv
    <3>7. QED
      BY <3>5, <3>6
  <2>10. ListingInv'
    <3>1. \A k \in Keys : k # r.key => registered'[k] = registered[k]
      BY <2>1
    <3>2. \A i \in found : i.key \in Keys /\ i.from \in Selections /\ i.key # r.key
      BY <2>4 DEF IInv, ListingInv, KeysOf, SelectedInv, TypeOK, Item
    <3>3. QED
      BY <2>2, <3>1, <3>2 DEF IInv, ListingInv, KeysOf, Host, choice, listing
  <2>11. Frozen!Add(r.key, said)
    <3>1. Catalog[r.key] = Absent
      BY <1>1, <2>4 DEF Catalog
    <3>2. \A k \in Keys : Catalog'[k] = IF k = r.key THEN said ELSE Catalog[k]
      <4>1. \A k \in Keys : k # r.key =>
              entries'[k] = entries[k] /\ heap'[RegistryCopy(k)] = heap[RegistryCopy(k)]
        BY <1>1, <2>1, Buffers DEF TypeOK
      <4>2. \A k \in Keys : entries[k] # Absent => entries[k].buffer = RegistryCopy(k)
        BY DEF IInv, EntryInv
      <4>3. entries'[r.key] = new /\ heap'[RegistryCopy(r.key)] = said
        BY <1>1, <1>2, <2>1 DEF TypeOK
      <4>4. new.buffer = RegistryCopy(r.key)
        OBVIOUS
      <4> HIDE DEF new, said
      <4>5. QED
        BY <2>3, <4>1, <4>2, <4>3, <4>4 DEF Catalog
    <3>3. Catalog' = [Catalog EXCEPT ![r.key] = said]
      BY <3>2 DEF Catalog
    <3>4. QED
      BY <2>2, <2>4, <3>1, <3>3 DEF Frozen!Add, Chosen, choice, IInv
  <2>12. sealed' = Chosen'
    BY <2>2 DEF IInv, Chosen, choice
  <2>13. QED
    BY <2>12, <1>1, <1>2, <2>5, <2>6, <2>7, <2>8, <2>9, <2>10, <2>11 DEF IInv, Frozen!Next
<1>4. CASE ~(Registrable(r) /\ Open(r.key))
  <2>1. /\ UNCHANGED <<entries, heap, registered, done, plan, sealed, choice, granted, changes, listing, permitted>>
        /\ status' = [status EXCEPT ![a] = "failed"]
    BY <1>4 DEF Register
  <2>2. TypeOK'
    BY <2>1 DEF TypeOK, choice, listing
  <2>3. \A b \in Adapters : AdapterInv(b)'
    BY <2>1 DEF IInv, AdapterInv, TypeOK
  <2>4. ListingInv'
    BY <2>1 DEF IInv, ListingInv, KeysOf, Host, choice, listing
  <2>5. \A k \in Keys : EntryInv(k)' /\ \A s \in Selections : SelectedInv(s, k)'
    BY <2>1 DEF IInv, EntryInv, SelectedInv, choice
  <2>6. UNCHANGED <<Catalog, Chosen>> /\ sealed' = Chosen'
    BY <2>1 DEF Catalog, Chosen, choice, IInv
  <2>7. QED
    BY <2>1, <2>2, <2>3, <2>4, <2>5, <2>6 DEF IInv
<1>5. QED
  BY <1>3, <1>4
-----------------------------------------------------------------------------
(* Selection *)

LEMMA SelectStep ==
    ASSUME IInv, NEW s \in Selections, Select(s)
    PROVE  IInv' /\ [Frozen!Next]_<<Catalog, Chosen>>
<1> TypeOK
  BY DEF IInv
<1>1. UNCHANGED <<adapters, entries, declared, granted, changes, listing, registered, permitted>>
      /\ outcome[s] # "ok"
  BY DEF Select
<1>2. KeysOf(s) = {} /\ phase \notin {"base", "extension", "done"}
  BY <1>1 DEF IInv, SelectedInv, KeysOf, ListingInv
<1>3. CASE UNCHANGED <<selected, heap, sealed>> /\ outcome' = [outcome EXCEPT ![s] = "refused"]
  <2>1. TypeOK'
    BY <1>1, <1>3 DEF TypeOK, adapters, listing
  <2>2. ListingInv'
    BY <1>1, <1>2, <1>3 DEF IInv, ListingInv, KeysOf, Host, listing, TypeOK, Selections
  <2>3. \A t \in Selections, k \in Keys : SelectedInv(t, k)'
    BY <1>1, <1>3 DEF IInv, SelectedInv, TypeOK
  <2>4. (\A k \in Keys : EntryInv(k)') /\ \A a \in Adapters : AdapterInv(a)'
    BY <1>1, <1>3 DEF IInv, EntryInv, AdapterInv, adapters
  <2>5. UNCHANGED <<Catalog, Chosen>> /\ sealed' = Chosen'
    <3>1. \A t \in Selections : outcome'[t] = "ok" <=> outcome[t] = "ok"
      BY <1>1, <1>3 DEF TypeOK
    <3>2. QED
      BY <1>1, <1>3, <3>1 DEF Catalog, Chosen, IInv
  <2>6. QED
    BY <1>3, <2>1, <2>2, <2>3, <2>4, <2>5 DEF IInv
<1>4. ASSUME NEW keys \in SUBSET Keys,
             \A k \in keys : entries[k] # Absent,
             selected' = [selected EXCEPT ![s] = [k \in Keys |->
                 IF k \in keys THEN [entries[k] EXCEPT !.buffer = SelectionCopy(s, k)] ELSE Absent]],
             heap' = [b \in Buffer |->
                 IF \E k \in keys : b = SelectionCopy(s, k)
                 THEN heap[entries[CHOOSE k \in keys : b = SelectionCopy(s, k)].buffer]
                 ELSE heap[b]],
             sealed' = TRUE,
             outcome' = [outcome EXCEPT ![s] = "ok"]
      PROVE  IInv' /\ [Frozen!Next]_<<Catalog, Chosen>>
  <2>1. \A k \in Keys : entries[k] # Absent => entries[k].buffer = RegistryCopy(k) /\ entries[k] \in Entry
                                               /\ RegistryCopy(k) \in Buffer
    BY Buffers DEF IInv, EntryInv, TypeOK
  <2>2. \A k \in keys : /\ SelectionCopy(s, k) \in Buffer
                        /\ heap'[SelectionCopy(s, k)] = heap[RegistryCopy(k)]
    <3> SUFFICES ASSUME NEW k \in keys
                 PROVE  SelectionCopy(s, k) \in Buffer /\ heap'[SelectionCopy(s, k)] = heap[RegistryCopy(k)]
      OBVIOUS
    <3>1. (CHOOSE l \in keys : SelectionCopy(s, k) = SelectionCopy(s, l)) = k
      BY Buffers
    <3>2. QED
      BY <1>4, <2>1, <3>1, Buffers
  <2>3. \A b \in Buffer : (\A k \in keys : b # SelectionCopy(s, k)) => heap'[b] = heap[b]
    BY <1>4
  <2>4. \A k \in Keys : heap'[RegistryCopy(k)] = heap[RegistryCopy(k)]
    BY <2>3, Buffers
  <2>5. \A t \in Selections, k \in Keys : t # s => heap'[SelectionCopy(t, k)] = heap[SelectionCopy(t, k)]
    BY <2>3, Buffers
  <2>6. \A b \in Drafts : heap'[b] = heap[b]
    BY <2>3, Buffers DEF Buffer
  <2>7. ASSUME NEW k \in keys PROVE [entries[k] EXCEPT !.buffer = SelectionCopy(s, k)] \in Entry
    <3>1. entries[k] \in Entry /\ SelectionCopy(s, k) \in Buffer
      BY <1>4, <2>1, <2>2
    <3>2. ASSUME NEW e \in Entry, NEW b \in Buffer PROVE [e EXCEPT !.buffer = b] \in Entry
      BY DEF Entry
    <3>3. QED
      BY <3>1, <3>2
  <2>8. TypeOK'
    <3>1. heap' \in [Buffer -> Contents \cup {Blank}]
      <4>1. \A k \in keys : heap[RegistryCopy(k)] \in Contents \cup {Blank}
        BY <1>4, <2>1 DEF TypeOK
      <4>2. \A b \in Buffer : heap'[b] \in Contents \cup {Blank}
        BY <2>2, <2>3, <4>1 DEF TypeOK
      <4>3. QED
        BY <1>4, <4>2
    <3>2. selected' \in [Selections -> [Keys -> Entry \cup {Absent}]]
      BY <1>4, <2>7 DEF TypeOK
    <3>3. outcome' \in [Selections -> {"none", "refused", "ok"}]
      BY <1>4 DEF TypeOK
    <3>4. QED
      BY <1>1, <1>4, <3>1, <3>2, <3>3 DEF TypeOK, adapters, listing
  <2>9. \A k \in Keys : EntryInv(k)'
    BY <1>1, <2>4 DEF IInv, EntryInv
  <2>10. ASSUME NEW t \in Selections, NEW k \in Keys PROVE SelectedInv(t, k)'
    <3>1. CASE t # s
      <4>1. selected'[t][k] = selected[t][k] /\ outcome'[t] = outcome[t]
        BY <1>4, <3>1 DEF TypeOK
      <4>2. QED
        BY <1>1, <2>5, <3>1, <4>1 DEF IInv, SelectedInv
    <3>2. CASE t = s
      <4>1. /\ selected'[t][k] = IF k \in keys THEN [entries[k] EXCEPT !.buffer = SelectionCopy(s, k)]
                                               ELSE Absent
            /\ outcome'[t] = "ok"
        BY <1>4, <3>2 DEF TypeOK
      <4>2. CASE k \in keys
        <5>1. /\ selected'[t][k].buffer = SelectionCopy(s, k)
              /\ selected'[t][k].effect = entries[k].effect
              /\ selected'[t][k].recoverable = entries[k].recoverable
              /\ selected'[t][k].parallel = entries[k].parallel
              /\ entries[k] # Absent
          BY <1>4, <2>1, <4>1, <4>2 DEF Entry
        <5>2. heap'[SelectionCopy(s, k)] = registered[k] /\ Recoverable(entries[k])
          BY <2>2, <4>2, <5>1 DEF IInv, EntryInv
        <5>3. QED
          BY <1>1, <3>2, <4>1, <5>1, <5>2 DEF SelectedInv, Recoverable
      <4>3. CASE k \notin keys
        BY <4>1, <4>3 DEF SelectedInv
      <4>4. QED
        BY <4>2, <4>3
    <3>3. QED
      BY <3>1, <3>2
  <2>11. \A a \in Adapters : AdapterInv(a)'
    BY <1>1 DEF IInv, AdapterInv, adapters
  <2>12. ListingInv'
    <3>1. \A t \in Selections : t # s => KeysOf(t)' = KeysOf(t)
      BY <1>4 DEF KeysOf, TypeOK
    <3>2. \A i \in found : i.from \in Selections /\ i.from # s
      BY <1>2 DEF IInv, ListingInv, TypeOK, Item
    <3>3. QED
      BY <1>1, <1>2, <3>1, <3>2 DEF IInv, ListingInv, Host, listing, Selections
  <2>13. Catalog' = Catalog
    BY <1>1, <2>1, <2>4 DEF Catalog
  <2>14. Chosen' = TRUE
    BY <1>4 DEF Chosen, TypeOK
  <2>15. Frozen!Freeze
    BY <2>13, <2>14 DEF Frozen!Freeze
  <2>16. QED
    BY <1>4, <2>15, <2>6, <2>8, <2>9, <2>10, <2>11, <2>12, <2>14 DEF IInv, Frozen!Next
<1>5. QED
  BY <1>3, <1>4 DEF Select, copyDefinition, Seal, SelectionCopy

-----------------------------------------------------------------------------
(* Listing, and writes of callers *)

\* Whatever only writes buffers that callers own leaves entries as they are.
LEMMA CallersBuffers ==
    ASSUME IInv, UNCHANGED <<adapters, registry, choice, registered>>,
           \A b \in Buffer \ (Drafts \cup Listed) : heap'[b] = heap[b]
    PROVE  /\ \A k \in Keys : EntryInv(k)'
           /\ \A s \in Selections, k \in Keys : SelectedInv(s, k)'
           /\ \A a \in Adapters : AdapterInv(a)'
           /\ UNCHANGED <<Catalog, Chosen>> /\ sealed' = Chosen'
           /\ \A s \in Selections : KeysOf(s)' = KeysOf(s)
<1> "base" \in Selections
  BY DEF Selections
<1>1. \A k \in Keys : heap'[RegistryCopy(k)] = heap[RegistryCopy(k)]
  BY Buffers
<1>2. \A s \in Selections, k \in Keys : heap'[SelectionCopy(s, k)] = heap[SelectionCopy(s, k)]
  BY Buffers
<1>3. \A k \in Keys : EntryInv(k)'
  BY <1>1 DEF IInv, EntryInv, registry
<1>4. \A s \in Selections, k \in Keys : SelectedInv(s, k)'
  BY <1>2 DEF IInv, SelectedInv, registry, choice
<1>5. \A a \in Adapters : AdapterInv(a)'
  BY DEF IInv, AdapterInv, adapters, registry
<1>6. Catalog' = Catalog
  BY <1>1 DEF IInv, EntryInv, Catalog, registry
<1>7. UNCHANGED Chosen /\ sealed' = Chosen'
  BY DEF IInv, Chosen, registry, choice
<1>8. QED
  BY <1>3, <1>4, <1>5, <1>6, <1>7 DEF KeysOf, registry, choice

LEMMA ListEntryStep ==
    ASSUME IInv, ListEntry
    PROVE  IInv' /\ UNCHANGED <<Catalog, Chosen>>
<1> TypeOK
  BY DEF IInv
<1>1. UNCHANGED <<adapters, registry, choice, granted, changes, phase, registered, permitted>>
      /\ phase \in Selections
  BY DEF ListEntry
<1>2. PICK k \in todo :
        /\ todo' = todo \ {k}
        /\ IF k \in granted
           THEN /\ heap' = [heap EXCEPT ![ListedCopy(phase, k)] = heap[selected[phase][k].buffer]]
                /\ found' = found \cup {[key |-> k, from |-> phase,
                                         content |-> heap[selected[phase][k].buffer]]}
           ELSE UNCHANGED <<heap, found>>
  BY DEF ListEntry, copyDefinition, ListedCopy, Admitted
<1>3. k \in Keys /\ k \in KeysOf(phase) /\ k \in Keys /\ granted \subseteq permitted
  BY <1>1 DEF IInv, ListingInv, TypeOK
<1>4. /\ ListedCopy(phase, k) \in Listed /\ ListedCopy(phase, k) \in Buffer
      /\ ListedCopy(phase, k) \notin Drafts
      /\ heap[selected[phase][k].buffer] = registered[k]
      /\ heap[selected[phase][k].buffer] \in Contents \cup {Blank}
  <2>1. selected[phase][k].buffer = SelectionCopy(phase, k) /\ heap[SelectionCopy(phase, k)] = registered[k]
    BY <1>1, <1>3 DEF IInv, SelectedInv, KeysOf
  <2>2. SelectionCopy(phase, k) \in Buffer /\ ListedCopy(phase, k) \in Listed /\ Listed \subseteq Buffer
    BY <1>1, <1>3, Buffers
  <2>3. ListedCopy(phase, k) \notin Drafts
    BY DEF ListedCopy, Copy, Drafts, Draft
  <2>4. QED
    BY <2>1, <2>2, <2>3 DEF TypeOK
<1>5. \A b \in Buffer : b \notin Listed => heap'[b] = heap[b]
  BY <1>2, <1>4 DEF TypeOK
<1>6. TypeOK'
  <2>1. heap' \in [Buffer -> Contents \cup {Blank}]
    BY <1>2, <1>4 DEF TypeOK
  <2>2. found' \subseteq Item /\ todo' \subseteq Keys
    BY <1>1, <1>2, <1>3, <1>4 DEF TypeOK, Item
  <2>3. QED
    BY <1>1, <2>1, <2>2 DEF TypeOK, adapters, registry, choice
<1>7. \A b \in Drafts : heap'[b] \in Contents
  BY <1>2, <1>4 DEF IInv, TypeOK, Buffer
<1>8. ListingInv'
  <2>1. \A t \in Selections : KeysOf(t)' = KeysOf(t)
    BY <1>1 DEF KeysOf, choice
  <2>2. found' \subseteq found \cup {[key |-> k, from |-> phase, content |-> registered[k]]}
        /\ (found' # found => k \in granted)
    BY <1>2, <1>4
  <2>3. \A i \in found : i.from \in Selections
    BY DEF TypeOK, Item
  <2>4. phase # "done"
    BY <1>1 DEF Selections
  <2>5. ASSUME NEW i \in found'
        PROVE  i.key \in KeysOf(i.from)' /\ i.content = registered'[i.key] /\ i.key \in permitted'
    <3>1. CASE i \in found
      BY <1>1, <2>1, <2>3, <3>1 DEF IInv, ListingInv
    <3>2. CASE i \notin found
      BY <1>1, <1>3, <2>1, <2>2, <3>2
    <3>3. QED
      BY <3>1, <3>2
  <2>6. \A t \in Selections : outcome'[t] = "ok"
    BY <1>1 DEF IInv, ListingInv, choice, Selections
  <2>7. todo' \subseteq KeysOf(phase)' /\ granted' \subseteq permitted'
    BY <1>1, <1>2, <2>1 DEF IInv, ListingInv
  <2>8. QED
    BY <1>1, <2>4, <2>5, <2>6, <2>7 DEF ListingInv
<1>9. QED
  BY <1>1, <1>5, <1>6, <1>7, <1>8, CallersBuffers DEF IInv

LEMMA OtherStep ==
    ASSUME IInv, ListBegin \/ ListNext \/ ListFail \/ Overwrite \/ SetGrant \/ UNCHANGED vars
    PROVE  IInv' /\ UNCHANGED <<Catalog, Chosen>>
<1> TypeOK
  BY DEF IInv
<1>1. UNCHANGED <<adapters, registry, choice, registered>>
  BY DEF ListBegin, ListNext, ListFail, Overwrite, SetGrant, vars
<1>2. /\ heap' \in [Buffer -> Contents \cup {Blank}]
      /\ \A b \in Drafts : heap'[b] \in Contents
      /\ \A b \in Buffer \ (Drafts \cup Listed) : heap'[b] = heap[b]
  BY DEF IInv, TypeOK, ListBegin, ListNext, ListFail, Overwrite, SetGrant, vars, Buffer
<1>3. TypeOK'
  <2>1. todo' \subseteq Keys /\ found' \subseteq Item /\ permitted' \subseteq Keys /\ granted' \subseteq Keys
        /\ phase' \in {"idle", "base", "extension", "done", "error"} /\ changes' \in 0..MaxChanges
    BY ConstantsAssumption DEF TypeOK, ListBegin, ListNext, ListFail, Overwrite, SetGrant, vars, listing,
       KeysOf, Routed
  <2>2. QED
    BY <1>1, <1>2, <2>1 DEF TypeOK, adapters, registry, choice
<1>4. \A s \in Selections : KeysOf(s)' = KeysOf(s)
  BY <1>1 DEF KeysOf, choice
<1>5. ListingInv'
  <2>1. /\ phase' \in {"base", "extension", "done"} => \A s \in Selections : outcome'[s] = "ok"
        /\ phase' \in Selections => todo' \subseteq KeysOf(phase') /\ granted' \subseteq permitted'
    BY <1>1 DEF IInv, ListingInv, ListBegin, ListNext, ListFail, Overwrite, SetGrant, vars, listing, choice,
       Selections
  <2>2. ASSUME NEW i \in found'
        PROVE  /\ i \in found
               /\ i.key \in permitted'
               /\ phase' = "done" => i.from = Host(i.key)
    <3>1. i \in found /\ permitted \subseteq permitted'
      BY DEF ListBegin, ListNext, ListFail, Overwrite, SetGrant, vars, listing, Routed
    <3>2. phase = "done" /\ phase' = "done" => i.from = Host(i.key)
      BY <3>1 DEF IInv, ListingInv
    <3>3. phase # "done" /\ phase' = "done" => i.from = Host(i.key)
      <4>1. i.from \in Selections
        BY <3>1 DEF TypeOK, Item
      <4>2. phase # "done" /\ phase' = "done" => ListNext
        BY DEF ListBegin, ListNext, ListFail, Overwrite, SetGrant, vars, listing
      <4>3. QED
        BY <4>1, <4>2 DEF ListNext, Routed, Host, Selections
    <3>4. QED
      BY <3>1, <3>2, <3>3 DEF IInv, ListingInv
  <2>3. \A i \in found : i.from \in Selections
    BY DEF TypeOK, Item
  <2>4. \A i \in found' : /\ i.key \in KeysOf(i.from)'
                          /\ i.content = registered'[i.key]
                          /\ i.key \in permitted'
                          /\ phase' = "done" => i.from = Host(i.key)'
    BY <1>1, <1>4, <2>2, <2>3 DEF IInv, ListingInv, Host, choice
  <2>5. phase' \in Selections => todo' \subseteq KeysOf(phase)'
    BY <1>1, <2>1 DEF KeysOf, choice
  <2>6. QED
    BY <2>1, <2>4, <2>5 DEF ListingInv
<1>6. QED
  BY <1>1, <1>2, <1>3, <1>5, CallersBuffers DEF IInv
-----------------------------------------------------------------------------
(* The theorems *)

LEMMA NextIInv == ASSUME IInv, [Next]_vars PROVE IInv' /\ [Frozen!Next]_<<Catalog, Chosen>>
BY RegisterStep, SelectStep, ListEntryStep, OtherStep DEF Next

LEMMA AlwaysIInv == Spec => []IInv
BY InitIInv, NextIInv, PTL DEF Spec

\* Types hold throughout, whatever the adapters register.
THEOREM TypeCorrect == Spec => []TypeOK
<1>1. IInv => TypeOK
  BY DEF IInv
<1>2. QED
  BY <1>1, AlwaysIInv, PTL

\* No caller's buffer reaches a definition once it is registered.
THEOREM DefinitionsAreCopied == Spec => []DefinitionsStayAsRegistered
<1>1. IInv => DefinitionsStayAsRegistered
  BY DEF IInv, EntryInv, SelectedInv, KeysOf, DefinitionsStayAsRegistered
<1>2. QED
  BY <1>1, AlwaysIInv, PTL

\* An adapter that was registered without error owns all its keys.
THEOREM NothingIsReplaced == Spec => []RegisteredAdapterOwnsItsKeys
<1>1. IInv => RegisteredAdapterOwnsItsKeys
  BY DEF IInv, AdapterInv, RegisteredAdapterOwnsItsKeys
<1>2. QED
  BY <1>1, AlwaysIInv, PTL

\* Every write that can be selected can be reconciled and runs alone.
THEOREM WritesCanBeReconciled == Spec => []SelectedWritesAreRecoverable
<1>1. IInv => SelectedWritesAreRecoverable
  BY DEF IInv, SelectedInv, Recoverable, KeysOf, SelectedWritesAreRecoverable
<1>2. QED
  BY <1>1, AlwaysIInv, PTL

\* The combined host lists what its routing serves, and nothing twice.
THEOREM ListingMatchesRouting == Spec => []ListedIsServed
<1>1. IInv => ListedIsServed
  <2> SUFFICES ASSUME IInv, phase = "done", NEW i \in found
               PROVE  i.from = Host(i.key) /\ Serves(Host(i.key), i.key, i.content)
    BY DEF ListedIsServed
  <2>1. i.from = Host(i.key) /\ i.key \in KeysOf(i.from) /\ i.content = registered[i.key]
    BY DEF IInv, ListingInv
  <2>2. i.from \in Selections /\ i.key \in Keys
    BY DEF IInv, TypeOK, Item
  <2>3. heap[selected[i.from][i.key].buffer] = registered[i.key]
    BY <2>1, <2>2 DEF IInv, SelectedInv, KeysOf
  <2>4. QED
    BY <2>1, <2>3 DEF Serves
<1>2. QED
  BY <1>1, AlwaysIInv, PTL

\* A tool is listed only if it was granted at some moment of the listing.
THEOREM ListingIsAuthorized == Spec => []ListedWasGranted
<1>1. IInv => ListedWasGranted
  BY DEF IInv, ListingInv, ListedWasGranted
<1>2. QED
  BY <1>1, AlwaysIInv, PTL

\* The combined listing is what is served and what was granted.
THEOREM ListingIsHonest == Spec => []ListingIsTrue
BY ListingMatchesRouting, ListingIsAuthorized, PTL DEF ListingIsTrue

\* The registry is a catalog that only grows and that a selection freezes.
THEOREM Refinement == Spec => ImplementsFrozenCatalog
<1>1. Init => Frozen!Init
  BY DEF Init, Nothing, Catalog, Chosen, Frozen!Init
<1>2. IInv /\ [Next]_vars => [Frozen!Next]_<<Catalog, Chosen>>
  BY NextIInv
<1>3. QED
  BY <1>1, <1>2, AlwaysIInv, PTL DEF Spec, ImplementsFrozenCatalog, Frozen!Spec

\* After the first successful Select the definitions of the registry stay what
\* they are: none is added, none is lost and none is reworded. Before it, none
\* that Register has taken is lost or reworded.
CatalogIsSettled ==
    [][/\ Chosen => Chosen' /\ UNCHANGED Catalog
       /\ \A k \in Keys : Catalog[k] # Absent => Catalog'[k] = Catalog[k]]_vars

\* Whatever adapters register and callers overwrite, later selections are made
\* from the catalog the first one was made from.
THEOREM SelectionSettles == Spec => CatalogIsSettled
<1> DEFINE Settled == /\ Chosen => Chosen' /\ UNCHANGED Catalog
                      /\ \A k \in Keys : Catalog[k] # Absent => Catalog'[k] = Catalog[k]
<1>1. ASSUME [Frozen!Next]_<<Catalog, Chosen>> PROVE Settled
  <2>1. CASE UNCHANGED <<Catalog, Chosen>>
    BY <2>1
  <2>2. CASE Frozen!Freeze
    BY <2>2 DEF Frozen!Freeze
  <2>3. ASSUME NEW k \in Keys, NEW content \in Contents, Frozen!Add(k, content) PROVE Settled
    <3>1. \A l \in Keys : Catalog'[l] = (IF l = k THEN content ELSE Catalog[l])
      BY <2>3 DEF Frozen!Add, Catalog
    <3>2. QED
      BY <2>3, <3>1 DEF Frozen!Add
  <2>4. QED
    BY <1>1, <2>1, <2>2, <2>3 DEF Frozen!Next
<1>2. IInv /\ [Next]_vars => [Settled]_vars
  BY <1>1, NextIInv
<1>3. QED
  BY <1>2, AlwaysIInv, PTL DEF Spec, CatalogIsSettled
=============================================================================
