------------------------------- MODULE Registry -------------------------------
(***************************************************************************)
(* Registration, selection and combination of tools. Adapters register     *)
(* their definitions one at a time, products select from the registry, and *)
(* a combined host lists the tools of a base and an extension selection.   *)
(*                                                                         *)
(* A definition carries its schemas in byte buffers. Callers keep the      *)
(* buffers they passed in and own those they were given, and may overwrite *)
(* both at any time: `heap' holds what each buffer says, and a registry or *)
(* selection entry only points to one.                                     *)
(*                                                                         *)
(* An operator Bug_X is the definition X with a plausible bug in it. No     *)
(* specification uses one: each shows that a property notices that bug.    *)
(***************************************************************************)
EXTENDS Naturals, Sequences, FiniteSets

CONSTANTS
    Adapters,    \* what registers tools
    Keys,        \* tool keys
    Contents,    \* what a definition may say
    Blank,       \* what a buffer says before it is written
    Absent,      \* no entry
    Plans,       \* what the adapters may register, each in order
    MaxChanges   \* bound: changes of the grants and writes into buffers

\* A definition's buffers, by who made them: an adapter's own draft, the copy
\* of the registry, the copies of the selections, and those handed to callers.
Selections == {"base", "extension"}
Draft(a, k) == <<"draft", a, k>>
Copy(place, k) == <<"copy", place, k>>
Drafts == {Draft(a, k) : a \in Adapters, k \in Keys}
Listed == {Copy(<<"listed", s>>, k) : s \in Selections, k \in Keys}
Kept == {Copy(place, k) : place \in {<<"registry">>, <<"base">>, <<"extension">>}, k \in Keys}
Buffer == Drafts \cup Listed \cup Kept

\* `sound' stands for a versioned, authorized and implemented definition with
\* schemas that compile and limits in range.
Registration == [key : Keys, effect : {"read", "write"}, parallel : BOOLEAN,
                 recoverable : BOOLEAN, sound : BOOLEAN]

ASSUME ConstantsAssumption ==
    /\ Blank \notin Contents
    /\ Absent \notin Contents \cup {Blank}
    /\ Plans \subseteq [Adapters -> Seq(Registration)]
    /\ MaxChanges \in Nat

Entry == [by : Adapters, effect : {"read", "write"}, parallel : BOOLEAN,
          recoverable : BOOLEAN, buffer : Buffer]
ASSUME AbsentAssumption == Absent \notin Entry

VARIABLES
    plan,       \* what each adapter registers
    done,       \* how many of its registrations succeeded
    status,     \* of an adapter's Register: "running", "ok", "failed"
    entries,    \* Registry.entries
    sealed,     \* Registry.sealed
    heap,       \* what each buffer says
    selected,   \* Selection.entries of each selection
    outcome,    \* of each Select
    declared,   \* Combined.keys
    granted,    \* tools the host authorizes
    changes,    \* number of changes and writes so far
    phase,      \* of the combined listing
    todo,       \* entries of the phase's selection it has yet to authorize
    found,      \* the definitions gathered so far
    registered, \* history: what each definition said when it was registered
    permitted   \* history: tools granted at some moment of the listing

adapters == <<plan, done, status>>
registry == <<entries, sealed>>
choice   == <<selected, outcome, declared>>
listing  == <<phase, todo, found>>
vars     == <<adapters, registry, heap, choice, granted, changes, listing, registered, permitted>>

Item == [key : Keys, from : Selections, content : Contents \cup {Blank}]

TypeOK ==
    /\ plan \in Plans
    /\ done \in [Adapters -> Nat]
    /\ \A a \in Adapters : done[a] <= Len(plan[a])
    /\ status \in [Adapters -> {"running", "ok", "failed"}]
    /\ entries \in [Keys -> Entry \cup {Absent}]
    /\ sealed \in BOOLEAN
    /\ heap \in [Buffer -> Contents \cup {Blank}]
    /\ selected \in [Selections -> [Keys -> Entry \cup {Absent}]]
    /\ outcome \in [Selections -> {"none", "refused", "ok"}]
    /\ declared \subseteq Keys
    /\ granted \subseteq Keys
    /\ changes \in 0..MaxChanges
    /\ phase \in {"idle", "base", "extension", "done", "error"}
    /\ todo \subseteq Keys
    /\ found \subseteq Item
    /\ registered \in [Keys -> Contents \cup {Absent}]
    /\ permitted \subseteq Keys

\* An empty map of entries.
Nothing == [k \in Keys |-> Absent]

\* Combine is given the keys of the extension, nonempty and without repetition.
Init ==
    /\ plan \in Plans
    /\ done = [a \in Adapters |-> 0]
    /\ status = [a \in Adapters |-> IF plan[a] = <<>> THEN "ok" ELSE "running"]
    /\ entries = Nothing
    /\ sealed = FALSE
    /\ \E c \in Contents : heap = [b \in Buffer |-> IF b \in Drafts THEN c ELSE Blank]
    /\ selected = [s \in Selections |-> Nothing]
    /\ outcome = [s \in Selections |-> "none"]
    /\ declared \in SUBSET Keys
    /\ granted = Keys
    /\ changes = 0
    /\ phase = "idle"
    /\ todo = {}
    /\ found = {}
    /\ registered = Nothing
    /\ permitted = {}

-----------------------------------------------------------------------------
(* Registry *)

Bug_copyDefinitionAliases(source, fresh) == source

\* copyDefinition: the buffer that carries the copy of a definition.
copyDefinition(source, fresh) == fresh

Bug_RegistrableWithoutReconcile(r) == r.sound /\ (r.parallel => r.effect = "read")

\* A write needs a reconciliation, and only reads may run in parallel.
Registrable(r) ==
    /\ r.sound
    /\ r.parallel => r.effect = "read"
    /\ r.effect = "write" => r.recoverable

Bug_OpenUnlessSealed(k) == ~sealed

\* Nothing is registered twice, and nothing after the first selection.
Open(k) == ~sealed /\ entries[k] = Absent

\* An adapter registers its next definition. It stops at the first error and
\* leaves the earlier ones registered.
Register(a) ==
    LET r == plan[a][done[a] + 1]
        buffer == copyDefinition(Draft(a, r.key), Copy(<<"registry">>, r.key))
    IN
    /\ status[a] = "running"
    /\ \/ /\ Registrable(r) /\ Open(r.key)
          /\ entries' = [entries EXCEPT ![r.key] =
                [by |-> a, effect |-> r.effect, parallel |-> r.parallel,
                 recoverable |-> r.recoverable, buffer |-> buffer]]
          /\ heap' = [heap EXCEPT ![buffer] = heap[Draft(a, r.key)]]
          /\ registered' = [registered EXCEPT ![r.key] = heap[Draft(a, r.key)]]
          /\ done' = [done EXCEPT ![a] = @ + 1]
          /\ status' = [status EXCEPT ![a] = IF done[a] + 1 = Len(plan[a]) THEN "ok" ELSE @]
       \/ /\ ~Registrable(r) \/ ~Open(r.key)
          /\ status' = [status EXCEPT ![a] = "failed"]
          /\ UNCHANGED <<entries, heap, registered, done>>
    /\ UNCHANGED <<plan, sealed, choice, granted, changes, listing, permitted>>

Bug_SealNever == UNCHANGED sealed

\* The first successful selection seals the registry.
Seal == sealed' = TRUE

\* Select refuses unregistered keys and keys named twice, without a trace.
Select(s) ==
    /\ outcome[s] # "ok"
    /\ \/ \E keys \in SUBSET Keys :
            /\ \A k \in keys : entries[k] # Absent
            /\ LET copied(k) == copyDefinition(entries[k].buffer, Copy(<<s>>, k)) IN
               /\ selected' = [selected EXCEPT ![s] = [k \in Keys |->
                     IF k \in keys THEN [entries[k] EXCEPT !.buffer = copied(k)] ELSE Absent]]
               /\ heap' = [b \in Buffer |->
                     IF \E k \in keys : b = copied(k)
                     THEN heap[entries[CHOOSE k \in keys : b = copied(k)].buffer]
                     ELSE heap[b]]
            /\ Seal
            /\ outcome' = [outcome EXCEPT ![s] = "ok"]
       \/ /\ outcome' = [outcome EXCEPT ![s] = "refused"]
          /\ UNCHANGED <<selected, heap, sealed>>
    /\ UNCHANGED <<adapters, entries, declared, granted, changes, listing, registered, permitted>>

-----------------------------------------------------------------------------
(* The combined host *)

\* Declared keys belong to the extension, all others to the base.
Host(k) == IF k \in declared THEN "extension" ELSE "base"

KeysOf(s) == {k \in Keys : selected[s][k] # Absent}

\* entry(): a request names the definition exactly as the selection holds it.
Serves(s, k, content) == k \in KeysOf(s) /\ heap[selected[s][k].buffer] = content

ListBegin ==
    /\ \A s \in Selections : outcome[s] = "ok"
    /\ phase \in {"idle", "done", "error"}
    /\ phase' = "base"
    /\ todo' = KeysOf("base")
    /\ found' = {}
    /\ permitted' = granted
    /\ UNCHANGED <<adapters, registry, heap, choice, granted, changes, registered>>

\* A selection lists what the caller is authorized for.
Admitted(k) == k \in granted

\* The selection of the current phase authorizes one entry, in no order, and
\* hands out a copy of its definition.
ListEntry ==
    /\ phase \in Selections
    /\ \E k \in todo :
        LET source == selected[phase][k].buffer
            buffer == copyDefinition(source, Copy(<<"listed", phase>>, k)) IN
        /\ todo' = todo \ {k}
        /\ IF Admitted(k)
           THEN /\ heap' = [heap EXCEPT ![buffer] = heap[source]]
                /\ found' = found \cup {[key |-> k, from |-> phase, content |-> heap[source]]}
           ELSE UNCHANGED <<heap, found>>
    /\ UNCHANGED <<adapters, registry, choice, granted, changes, phase, registered, permitted>>

Bug_RoutedEverything == found

\* The base does not list what it has ceded to the extension.
Routed == {i \in found : i.from = "base" => i.key \notin declared}

\* All entries are authorized: the base is followed by the extension, which
\* must not list an undeclared tool.
ListNext ==
    /\ phase \in Selections
    /\ todo = {}
    /\ \/ /\ phase = "base"
          /\ phase' = "extension"
          /\ todo' = KeysOf("extension")
          /\ UNCHANGED found
       \/ /\ phase = "extension"
          /\ \A i \in found : i.from = "extension" => i.key \in declared
          /\ phase' = "done"
          /\ found' = Routed
          /\ UNCHANGED todo
       \/ /\ phase = "extension"
          /\ \E i \in found : i.from = "extension" /\ i.key \notin declared
          /\ phase' = "error"
          /\ found' = {}
          /\ UNCHANGED todo
    /\ UNCHANGED <<adapters, registry, heap, choice, granted, changes, registered, permitted>>

\* An authorization that fails ends the listing of either host.
ListFail ==
    /\ phase \in Selections
    /\ todo # {}
    /\ phase' = "error"
    /\ todo' = {}
    /\ found' = {}
    /\ UNCHANGED <<adapters, registry, heap, choice, granted, changes, registered, permitted>>

-----------------------------------------------------------------------------
(* Callers and the host's policy (external) *)

\* Whoever holds a buffer writes into it: adapters into the definitions they
\* passed in, callers into those they were given.
Overwrite ==
    /\ changes < MaxChanges
    /\ changes' = changes + 1
    /\ \E b \in Drafts \cup Listed, c \in Contents :
        /\ heap[b] # Blank
        /\ heap' = [heap EXCEPT ![b] = c]
    /\ UNCHANGED <<adapters, registry, choice, granted, listing, registered, permitted>>

SetGrant ==
    /\ changes < MaxChanges
    /\ changes' = changes + 1
    /\ \E k \in Keys : granted' = IF k \in granted THEN granted \ {k} ELSE granted \cup {k}
    /\ permitted' = IF phase \in Selections THEN permitted \cup granted' ELSE permitted
    /\ UNCHANGED <<adapters, registry, heap, choice, listing, registered>>

Next ==
    \/ \E a \in Adapters : Register(a)
    \/ \E s \in Selections : Select(s)
    \/ ListBegin \/ ListEntry \/ ListNext \/ ListFail
    \/ Overwrite \/ SetGrant

Spec == Init /\ [][Next]_vars

-----------------------------------------------------------------------------
(* Properties *)

\* The registry and every selection hold each definition as it was when it was
\* registered, whatever adapters and callers write into their own buffers.
DefinitionsStayAsRegistered ==
    \A k \in Keys :
        /\ entries[k] # Absent => heap[entries[k].buffer] = registered[k]
        /\ \A s \in Selections :
              k \in KeysOf(s) => heap[selected[s][k].buffer] = registered[k]

\* An adapter that was registered without error owns all its keys, however its
\* registrations were interleaved with those of others.
RegisteredAdapterOwnsItsKeys ==
    \A a \in Adapters : status[a] = "ok" =>
        \A i \in 1..Len(plan[a]) :
            entries[plan[a][i].key] # Absent /\ entries[plan[a][i].key].by = a

\* Whatever a selection can execute and that writes can also be reconciled, and
\* is never run in parallel.
SelectedWritesAreRecoverable ==
    \A s \in Selections : \A k \in KeysOf(s) :
        selected[s][k].effect = "write" => selected[s][k].recoverable /\ ~selected[s][k].parallel

\* The definitions that the host a key is routed to serves.
ListedIsServed ==
    phase = "done" =>
        \A i \in found : i.from = Host(i.key) /\ Serves(Host(i.key), i.key, i.content)

\* A tool is listed only if it was granted at some moment of the listing.
ListedWasGranted == \A i \in found : i.key \in permitted

\* What the combined host has listed, the host that the key is routed to serves
\* by exactly that definition, no tool is listed twice, and each one was granted
\* at some moment of the listing.
ListingIsTrue == ListedIsServed /\ ListedWasGranted

\* The registry as a catalog of what its definitions say.
Catalog == [k \in Keys |-> IF entries[k] = Absent THEN Absent ELSE heap[entries[k].buffer]]

Chosen == \E s \in Selections : outcome[s] = "ok"

Frozen == INSTANCE FrozenCatalog WITH catalog <- Catalog, frozen <- Chosen

\* The catalog only grows, and not at all once a selection was made.
ImplementsFrozenCatalog == Frozen!Spec
=============================================================================
