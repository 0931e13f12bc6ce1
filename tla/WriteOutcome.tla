----------------------------- MODULE WriteOutcome -----------------------------
(***************************************************************************)
(* What account writes promise the host, without the steps, messages and   *)
(* authorities that make it true: a key's outcome is settled at most once, *)
(* for a call the user approved, and what is reported about a call agrees  *)
(* with the settled outcome.                                               *)
(***************************************************************************)
CONSTANTS
    Call,       \* the calls, records with a field key
    Correctable \* the calls whose arguments can never be sent

VARIABLES
    approved,   \* the calls approved so far
    outcome,    \* settled outcomes, [call, status]
    reports     \* what has been reported, [call, status]

vars == <<approved, outcome, reports>>

Init ==
    /\ approved = {}
    /\ outcome = {}
    /\ reports = {}

Approve(c) ==
    /\ approved' = approved \cup {c}
    /\ UNCHANGED <<outcome, reports>>

Settle(c, status) ==
    /\ c \in approved
    /\ \A o \in outcome : o.call.key # c.key
    /\ outcome' = outcome \cup {[call |-> c, status |-> status]}
    /\ UNCHANGED <<approved, reports>>

Report(c, status) ==
    /\ \/ [call |-> c, status |-> status] \in outcome
       \/ status = "failed" /\ c \in Correctable
    /\ reports' = reports \cup {[call |-> c, status |-> status]}
    /\ UNCHANGED <<approved, outcome>>

Next ==
    \E c \in Call :
        \/ Approve(c)
        \/ \E status \in {"succeeded", "failed"} : Settle(c, status) \/ Report(c, status)

Spec == Init /\ [][Next]_vars
=============================================================================
