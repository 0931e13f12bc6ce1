------------------------------ MODULE CasRegister ------------------------------
(***************************************************************************)
(* What the tool settings of one deployment are to their users: for every  *)
(* owner and tool a switch with a revision. A switch nobody has set is on  *)
(* at revision 0, and each accepted update moves the revision on by one.   *)
(***************************************************************************)
EXTENDS Naturals

CONSTANTS
    Row,         \* the owner and tool pairs
    MaxRevision  \* the largest revision

VARIABLE value   \* the switch and the revision of each row

Init == value = [r \in Row |-> [enabled |-> TRUE, revision |-> 0]]

Update(r, enabled) ==
    /\ value[r].revision < MaxRevision
    /\ value' = [value EXCEPT ![r] = [enabled |-> enabled, revision |-> value[r].revision + 1]]

Next == \E r \in Row, enabled \in BOOLEAN : Update(r, enabled)

Spec == Init /\ [][Next]_value
=============================================================================
