------------------------------ MODULE SaveLedger ------------------------------
(***************************************************************************)
(* What saving a record promises the host: under one idempotency key one    *)
(* revision is written, whatever is retried, and every call that is told    *)
(* of a result is told of that revision. A call may be left uncertain for   *)
(* two reasons, which it can tell apart: no receipt is found, as long as    *)
(* nothing is written; or a revision is written but cannot be shown.        *)
(***************************************************************************)
CONSTANTS
    Keys,  \* idempotency keys
    Row,   \* revisions of records
    NoRow  \* in place of a revision when the outcome is uncertain

VARIABLES
    saved, \* what was written, [key, row]
    told   \* what calls were told, [key, status, row]

vars == <<saved, told>>

Init == saved = {} /\ told = {}

Unsaved(k) == \A s \in saved : s.key # k

Save(k, row) ==
    /\ Unsaved(k)
    /\ saved' = saved \cup {[key |-> k, row |-> row]}
    /\ UNCHANGED told

Tell(k, status, row) ==
    /\ told' = told \cup {[key |-> k, status |-> status, row |-> row]}
    /\ UNCHANGED saved

Complete(k, row) == [key |-> k, row |-> row] \in saved /\ Tell(k, "completed", row)

Miss(k) == Unsaved(k) /\ Tell(k, "missing", NoRow)

Withhold(k) == ~Unsaved(k) /\ Tell(k, "withheld", NoRow)

Next ==
    \E k \in Keys :
        \/ \E row \in Row : Save(k, row) \/ Complete(k, row)
        \/ Miss(k)
        \/ Withhold(k)

Spec == Init /\ [][Next]_vars
===============================================================================
