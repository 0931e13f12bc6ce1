----------------------------- MODULE MCPreferences -----------------------------
(* Small instances of Preferences for TLC. *)
EXTENDS Preferences

CONSTANTS c1, c2, c3, u1, u2, t1, t2, v1, v2

Ask(kinds, users, tools, revisions, versions) ==
    {r \in [kind : kinds, user : users, tool : tools, enabled : BOOLEAN,
            expected : revisions, version : versions] :
        r.kind # "update" => ~r.enabled /\ r.expected = 0 /\ r.version = v1}

\* Updates of one user's switch at every revision, and the engine's question.
MCRaceRequests ==
    Ask({"update"}, {u1}, {t1}, 0..MaxRevision, {v1}) \cup
    Ask({"availability"}, {u1}, {t1}, {0}, {v1})

Malformed == Ask({"malformed"}, {u2}, {t1}, {0}, {v1})

\* Every kind of request, of two users, for two versions and two tools.
MCMixedRequests ==
    {r \in Ask({"update"}, {u1}, {t1}, {-1, 0, 1}, {v1, v2}) : r.expected = 0 <=> ~r.enabled} \cup
    {r \in Ask({"update"}, {u2}, {t1}, {0}, {v1}) : ~r.enabled} \cup
    Ask({"availability", "list"}, {u1}, {t1}, {0}, {v1})

MCRequests == MCRaceRequests \cup MCMixedRequests \cup Malformed

\* Which of the calls makes which request does not matter: they come in the
\* order of a number that tells requests apart.
Bit(condition) == IF condition THEN 1 ELSE 0
Rank(r) ==
    IF r.kind # "update" THEN Bit(r.kind = "list")
    ELSE 2 + Bit(r.enabled) + 2 * Bit(r.version = v2) + 4 * Bit(r.user = u2) + 8 * (r.expected + 1)

Racing == \A c \in Calls : input[c] \in MCRaceRequests

\* Three calls race while nothing else changes, or two of any kind meet next to
\* one that is refused at once while anything may change.
MCInit ==
    /\ Init
    /\ Rank(input[c1]) <= Rank(input[c2])
    /\ \/ /\ Racing
          /\ Rank(input[c2]) <= Rank(input[c3])
          /\ catalog = [t \in Tools |-> v1]
       \/ /\ {input[c1], input[c2]} \subseteq MCMixedRequests
          /\ input[c3] \in Malformed

MCNext == Next /\ (Racing => changes' = 0)

MCSpec == MCInit /\ [][MCNext]_vars /\ Fairness
===============================================================================
