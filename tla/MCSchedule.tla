------------------------------ MODULE MCSchedule ------------------------------
(* Small instances of Schedule for TLC. *)
EXTENDS Schedule, TLC

CONSTANTS c1, c2, c3, u1, u2, k1, mine, x, y, t1, self, none, chat

Kept == [kind |-> "none", name |-> Keep, text |-> Keep, tools |-> Keep, conversation |-> Keep]
Task(name, tools) == [kind |-> "task", name |-> name, text |-> x, tools |-> tools, conversation |-> none]

Ask(op, mode, expected, patch) ==
    [op |-> op, mode |-> mode, user |-> u1, key |-> k1, id |-> <<u1, mine>>,
     expected |-> expected, patch |-> patch]

\* The scheduler holds a task of one user, and a plan of another application for
\* the other.
MCStored ==
    {[id \in Id |->
        CASE id = <<u1, mine>> -> [status |-> "enabled", revision |-> 1, body |-> Task(x, {t1})]
          [] id[2] \in Others /\ id # <<u1, mine>> ->
                [status |-> "enabled", revision |-> 1, body |-> [Task(x, {}) EXCEPT !.kind = "other"]]
          [] OTHER -> NoPlan]}

\* Updates of different fields that race, one of them retried and made from a
\* conversation, and changes of the status that race with them.
MCEdits ==
    {Ask("update", "invoke", 1, [Kept EXCEPT !.name = y, !.conversation = chat]),
     Ask("update", "reconcile", 1, [Kept EXCEPT !.name = y, !.conversation = chat]),
     Ask("update", "invoke", 2, [Kept EXCEPT !.text = y]),
     Ask("update", "invoke", 1, [Kept EXCEPT !.tools = {t1, self}]),
     Ask("pause", "invoke", 1, Kept),
     Ask("delete", "invoke", 2, Kept),
     Ask("delete", "reconcile", 2, Kept)}

\* Plans opened with one key, retried, with other contents, without a key and
\* with unusable details; what may not be changed or does not fit.
MCOpenings ==
    {Ask("create", "invoke", 0, Task(x, {t1})),
     Ask("create", "reconcile", 0, Task(x, {t1})),
     Ask("create", "invoke", 0, Task(y, {t1, self})),
     Ask("create", "invoke", 0, [Task(y, {}) EXCEPT !.kind = "reminder"]),
     Ask("create", "invoke", 0, Task(x, {})),
     [Ask("create", "invoke", 0, Task(x, {t1})) EXCEPT !.key = NoKey],
     [Ask("create", "invoke", 0, Task(x, {t1})) EXCEPT !.user = u2],
     [Ask("delete", "reconcile", 1, Kept) EXCEPT !.id = <<u1, k1>>],
     [Ask("pause", "invoke", 1, Kept) EXCEPT !.user = u2, !.id = <<u2, mine>>],
     [Ask("delete", "reconcile", 1, Kept) EXCEPT !.user = u2],
     [Ask("update", "invoke", 1, [Kept EXCEPT !.text = y]) EXCEPT !.id = <<u1, k1>>],
     [Ask("resume", "invoke", 1, Kept) EXCEPT !.id = <<u1, k1>>]}

\* Three calls race with edits; a deletion is reconciled next to an invocation of
\* it. Of openings two race, next to one without a key.
MCRequests == MCEdits \cup MCOpenings
Again(c) == req[c].op = "delete" /\ req[c].mode = "reconcile"
MCInit ==
    /\ Init
    /\ \/ /\ \A c \in Calls : req[c] \in MCEdits
          /\ (\E c \in Calls : Again(c)) => \E c \in Calls : req[c].op = "delete" /\ ~Again(c)
       \/ /\ \A c \in Calls : req[c] \in MCOpenings
          /\ \E c \in Calls : req[c].key = NoKey

\* While edits race, only the policy and the listing of one tool change.
MCNext ==
    /\ Next
    /\ (\A c \in Calls : req[c] \in MCEdits) =>
          \A u \in Users, t \in Tools : <<u, t>> # <<u1, t1>> => (t \in catalog'[u] <=> t \in catalog[u])

MCSpec == MCInit /\ [][MCNext]_vars

MCSymmetry == Permutations(Calls)
===============================================================================
