---------------------------- MODULE FrozenCatalog ----------------------------
(***************************************************************************)
(* What the registry is to the products that select from it: a catalog     *)
(* that only grows, and not at all once the first selection was made.      *)
(***************************************************************************)

CONSTANTS
    Keys,      \* tool keys
    Contents,  \* what a definition may say
    Absent     \* the catalog has no definition of a key

VARIABLES catalog, frozen

Init == catalog = [k \in Keys |-> Absent] /\ frozen = FALSE

Add(k, content) ==
    /\ ~frozen
    /\ catalog[k] = Absent
    /\ catalog' = [catalog EXCEPT ![k] = content]
    /\ UNCHANGED frozen

Freeze == frozen' = TRUE /\ UNCHANGED catalog

Next == Freeze \/ \E k \in Keys, content \in Contents : Add(k, content)

Spec == Init /\ [][Next]_<<catalog, frozen>>
=============================================================================
