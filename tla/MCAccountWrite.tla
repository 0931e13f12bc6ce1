--------------------------- MODULE MCAccountWrite ---------------------------
(* Small instances of AccountWrite for TLC. *)
EXTENDS AccountWrite, TLC

CONSTANTS a1, a2, a3, k1, c1, c2, misshapen, rejected, s1, s2

MCCall(k, c, r) == [key |-> k, content |-> c, revision |-> r]
MCRequest(kind, c) == [kind |-> kind, token |-> kind = "inspect", call |-> c]

\* One idempotency key: invoked and reconciled, reused with other content, with
\* the next account revision and with content Prepare refuses.
MCRequests ==
    {MCRequest("invoke", MCCall(k1, c1, 0)),
     MCRequest("reconcile", MCCall(k1, c1, 0)),
     MCRequest("invoke", MCCall(k1, c2, 0)),
     MCRequest("invoke", MCCall(k1, c1, 1)),
     MCRequest("reconcile", MCCall(k1, rejected, 0))}

\* Remote validation: one call invoked and inspected, with an argument the
\* schema refuses, with no key, and with a token where none belongs.
MCValidatedRequests ==
    {MCRequest("invoke", MCCall(k1, c1, 0)),
     MCRequest("inspect", MCCall(k1, c1, 0)),
     MCRequest("invoke", MCCall(k1, misshapen, 0)),
     MCRequest("invoke", MCCall(NoKey, c1, 0)),
     [kind |-> "reconcile", token |-> TRUE, call |-> MCCall(k1, c1, 0)]}

MCSymmetry == Permutations({a1, a2})
=============================================================================
