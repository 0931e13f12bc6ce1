------------------------------- MODULE PlanBook -------------------------------
(***************************************************************************)
(* What the schedule tools are to a user: a book of plans in which every   *)
(* operation happens at once. A plan is opened, its named fields are       *)
(* replaced and all others kept, and it is paused, resumed or deleted. A   *)
(* plan also names the conversation that it was last written from.         *)
(* Plans of other applications are in the book and are left alone.         *)
(***************************************************************************)
EXTENDS Naturals

CONSTANTS
    Managed,  \* the kinds of plans this application opens
    Keep,     \* a field of a patch that leaves the plan's field alone
    Patches,  \* what operations may write: [kind, name, text, tools, conversation]
    Stored    \* the books one may begin with

VARIABLE book \* the plan of each id: [status, revision, body]

Init == book \in Stored

Open(p) == p.status \in {"enabled", "paused"} /\ p.body.kind \in Managed

Put(field, old) == IF field = Keep THEN old ELSE field

Create(id, patch) ==
    /\ book[id].status = "none"
    /\ patch.kind \in Managed
    /\ book' = [book EXCEPT ![id] = [status |-> "enabled", revision |-> 1, body |-> patch]]

Edit(id, patch) ==
    LET plan == book[id]
        body == [plan.body EXCEPT !.name = Put(patch.name, @),
                                  !.text = Put(patch.text, @),
                                  !.tools = Put(patch.tools, @),
                                  !.conversation = Put(patch.conversation, @)]
    IN
    /\ Open(plan)
    /\ book' = [book EXCEPT ![id] = [plan EXCEPT !.revision = plan.revision + 1, !.body = body]]

SetStatus(id, status) ==
    LET plan == book[id] IN
    /\ Open(plan)
    /\ book' = [book EXCEPT ![id] = [plan EXCEPT !.revision = plan.revision + 1, !.status = status]]

Next ==
    \E id \in DOMAIN book :
        \/ \E patch \in Patches : Create(id, patch) \/ Edit(id, patch)
        \/ \E status \in {"enabled", "paused", "deleted"} : SetStatus(id, status)

Spec == Init /\ [][Next]_book
===============================================================================
