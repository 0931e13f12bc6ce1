----------------------------- MODULE MCAccountRead -----------------------------
(* Small instances of AccountRead for TLC. *)
EXTENDS AccountRead

MCKeys == 1..3

Open   == [version |-> 1, shown |-> "open", readable |-> TRUE]
Hidden == [Open EXCEPT !.shown = "absent"]

\* Three accounts to walk over, or one less.
MCWalkStored == {[k \in MCKeys |-> Open], [k \in MCKeys |-> IF k = 2 THEN Hidden ELSE Open]}

\* Readable accounts, the second of them listed or not.
MCFewStored ==
    {s \in [MCKeys -> {a \in Account : a.version = 1 /\ a.readable}] :
        s[1].shown = "open" /\ s[3] = Hidden}

MCStored == MCWalkStored \cup MCFewStored

\* A walk is over three accounts, every other request of two.
MCInit == Init /\ accounts \in (IF kind = "discover" THEN MCWalkStored ELSE MCFewStored)
MCNext == Next /\ (kind # "discover" => accounts'[3] = Hidden)
MCSpec == MCInit /\ [][MCNext]_vars
===============================================================================
