------------------------------ MODULE MCRegistry ------------------------------
(* Small instances of Registry for TLC. *)
EXTENDS Registry, TLC

CONSTANTS a1, a2, k1, k2, d1, d2

Read(k) == [key |-> k, effect |-> "read", parallel |-> TRUE, recoverable |-> FALSE, sound |-> TRUE]
Write(k) == [key |-> k, effect |-> "write", parallel |-> FALSE, recoverable |-> TRUE, sound |-> TRUE]

\* Adapters with tools of their own, with a tool in common, and with each of
\* the definitions that are refused.
MCPlans ==
    {a1 :> <<Read(k1)>> @@ a2 :> <<second>> :
        second \in {Write(k2), Write(k1), [Write(k2) EXCEPT !.recoverable = FALSE],
                    [Write(k2) EXCEPT !.parallel = TRUE], [Read(k2) EXCEPT !.sound = FALSE]}}
    \cup {a1 :> <<Read(k1), Write(k2)>> @@ a2 :> <<Read(k2), Read(k1)>>}
    \cup {a1 :> <<Write(k2), Read(k1)>> @@ a2 :> <<>>}
\* No definition's wording matters.
MCSymmetry == Permutations(Contents)
=============================================================================
