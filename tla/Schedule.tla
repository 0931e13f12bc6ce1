------------------------------- MODULE Schedule -------------------------------
(***************************************************************************)
(* The schedule tools (scheduletools/adapter.go): calls that create,       *)
(* change, pause, resume and delete plans of an external scheduler, called *)
(* through a selection (registry.go), invoked or reconciled, retried and   *)
(* running concurrently.                                                   *)
(*                                                                         *)
(* An update reads the plan, merges its patch, validates the result and    *)
(* sends the whole plan with the revision its caller named. Between any    *)
(* two of these the plan, the host's policy and the tool catalog may       *)
(* change. The scheduler may act on a command long after its caller gave   *)
(* up, and its answer may be lost.                                         *)
(*                                                                         *)
(* An operator Bug_X is the definition X with a plausible bug in it. No     *)
(* specification uses one: each shows that a property notices that bug.    *)
(***************************************************************************)
EXTENDS Naturals, FiniteSets

CONSTANTS
    Calls,         \* calls the host makes
    Users,         \* users, each an owner of plans
    Keys,          \* the host's idempotency keys
    NoKey,         \* the blank idempotency key
    Others,        \* names of plans that were not created by these calls
    Texts,         \* what a plan is called, and what it is to do
    Conversations, \* conversations and their runs, and none
    Tools,         \* tool keys
    Unschedulable, \* the tools a plan may not use: those of tasks and schedules
    Keep,          \* a patch leaves the field alone
    Requests,      \* what the calls may ask for
    Stored,        \* the plans the scheduler may hold at first
    MaxRevision,   \* bound: one more than the largest revision a call names
    MaxChanges,    \* bound: changes of the policy and the catalog
    Anticipate     \* whether callers name revisions that do not exist yet

Managed == {"task", "reminder"}

\* What a plan says, and the conversation it was last written from. A text stands
\* for name, timezone and trigger, or for goal and input of a task and title and
\* message of a reminder.
Body == [kind : Managed \cup {"other"}, name : Texts, text : Texts, tools : SUBSET Tools,
         conversation : Conversations]

\* What a call writes: the fields its caller names, and its own conversation. A
\* call outside of any leaves the conversation of a plan that it updates alone.
Patch == [kind : Managed \cup {"none"}, name : Texts \cup {Keep}, text : Texts \cup {Keep},
          tools : {Keep} \cup SUBSET Tools, conversation : Conversations \cup {Keep}]
NoBody == [kind |-> "none", name |-> Keep, text |-> Keep, tools |-> Keep, conversation |-> Keep]

Op == {"create", "update", "pause", "resume", "delete"}

\* createCommand: the client ID comes from the idempotency key alone.
Bug_ClientIDFromName(key, patch) == <<key, patch.name>>
ClientID(key, patch) == key
Id == Users \X ({ClientID(k, p) : k \in Keys, p \in Patch} \cup Others)

Request == [op : Op, mode : {"invoke", "reconcile"}, user : Users, key : Keys \cup {NoKey},
            id : Users \X (Keys \cup Others), expected : 0..(MaxRevision - 1), patch : Patch]

Status == {"none", "enabled", "paused", "deleted"}
Plan == [status : Status, revision : 0..MaxRevision, body : Body \cup {NoBody}]
NoPlan == [status |-> "none", revision |-> 0, body |-> NoBody]

ASSUME ConstantsAssumption ==
    /\ NoKey \notin Keys
    /\ Keys \cap Others = {}
    /\ Keep \notin Texts \cup Conversations
    /\ \A tools \in SUBSET Tools : Keep # tools
    /\ Unschedulable \subseteq Tools
    /\ MaxRevision \in Nat \ {0}
    /\ MaxChanges \in Nat
    /\ Requests \subseteq Request
    /\ \A r \in Requests : r.op = "create" => r.patch \in Body /\ r.patch.kind \in Managed
    /\ Stored \subseteq [Id -> Plan]
    /\ \A s \in Stored : \A id \in Id :
          IF id[2] \in Others THEN s[id].body \in Body /\ s[id].status # "none"
          ELSE s[id] = NoPlan
    /\ Anticipate \in BOOLEAN

VARIABLES
    plans,   \* the scheduler's plans
    policy,  \* what the host's Authorize answers: "deny", "grant", "confirm"
    catalog, \* the tools the host lists to each user
    changes, \* changes of the policy and the catalog so far
    pc,      \* where each call stands
    req,     \* what it asks for
    base,    \* the plan it has read
    draft,   \* the plan it sends
    wire,    \* its command: "none", "sent", "closed"
    answer,  \* the scheduler's answer to it
    reply,   \* the result for the host
    taken,   \* history: the changes of plans, each by one call
    offered  \* history: tools listed to the user while a call prepared

world == <<policy, catalog, changes>>
call  == <<pc, req, base, draft, reply>>
talk  == <<wire, answer>>
vars  == <<plans, taken, world, call, talk, offered>>

-----------------------------------------------------------------------------

Stage == {"idle", "authorize", "reauthorize", "lookup", "catalog", "wait", "done"}
Reply == {"none", "completed", "uncertain", "bad_request", "forbidden", "conflict", "not_found",
          "unavailable"}
Change == [by : Calls, id : Id, before : Plan, after : Plan]

TypeOK ==
    /\ plans \in [Id -> Plan]
    /\ policy \in {"deny", "grant", "confirm"}
    /\ catalog \in [Users -> SUBSET Tools]
    /\ changes \in 0..MaxChanges
    /\ pc \in [Calls -> Stage]
    /\ req \in [Calls -> Requests]
    /\ base \in [Calls -> Plan]
    /\ draft \in [Calls -> Body \cup {NoBody}]
    /\ wire \in [Calls -> {"none", "sent", "closed"}]
    /\ answer \in [Calls -> {"none", "ok", "invalid", "conflict", "not_found", "error"}]
    /\ reply \in [Calls -> Reply]
    /\ taken \subseteq Change
    /\ offered \in [Calls -> SUBSET Tools]

Init ==
    /\ plans \in Stored
    /\ policy = "grant"
    /\ catalog = [u \in Users |-> Tools]
    /\ changes = 0
    /\ pc = [c \in Calls |-> "idle"]
    /\ req \in [Calls -> Requests]
    /\ base = [c \in Calls |-> NoPlan]
    /\ draft = [c \in Calls |-> NoBody]
    /\ wire = [c \in Calls |-> "none"]
    /\ answer = [c \in Calls |-> "none"]
    /\ reply = [c \in Calls |-> "none"]
    /\ taken = {}
    /\ offered = [c \in Calls |-> {}]

-----------------------------------------------------------------------------
(* Helpers *)

Goto(c, stage) == pc' = [pc EXCEPT ![c] = stage]

Finish(c, status) ==
    /\ Goto(c, "done")
    /\ reply' = [reply EXCEPT ![c] = status]

\* owner(): every lookup and command is for the plans of the calling user.
Owner(c) == req[c].user

Bug_ExpectedAsRead(c) == IF req[c].op = "create" THEN 0 ELSE base[c].revision

Bug_ExpectedLatest(c) == IF req[c].op = "create" THEN 0 ELSE plans[req[c].id].revision

\* A command carries the revision the caller named, whatever was read.
Expected(c) == req[c].expected

Put(field, old) == IF field = Keep THEN old ELSE field

Bug_MergeBlanksText(body, patch) ==
    [body EXCEPT !.name = Put(patch.name, @), !.text = patch.text, !.tools = Put(patch.tools, @),
                 !.conversation = Put(patch.conversation, @)]

\* update(), mergeDetails(): fields the patch does not name stay as they were read.
Merge(body, patch) ==
    [body EXCEPT !.name = Put(patch.name, @), !.text = Put(patch.text, @),
                 !.tools = Put(patch.tools, @), !.conversation = Put(patch.conversation, @)]

\* The patch has details: they are merged and validated anew as a whole.
Detailed(patch) == patch.text # Keep \/ patch.tools # Keep

\* backgroundInput, reminderInput: a task names tools, a reminder none.
DetailsFit(body) == IF body.kind = "task" THEN body.tools # {} ELSE body.tools = {}

\* Tasks never start tasks or change schedules, whatever the catalog lists.
Schedulable(c) == catalog[req[c].user] \ Unschedulable

WellFormed(c) ==
    CASE req[c].op = "create" -> req[c].key # NoKey
      [] req[c].op = "update" -> req[c].patch.name # Keep \/ Detailed(req[c].patch)
      [] OTHER -> req[c].expected >= 1

Send(c, body) ==
    /\ Goto(c, "wait")
    /\ draft' = [draft EXCEPT ![c] = body]
    /\ wire' = [wire EXCEPT ![c] = "sent"]
    /\ UNCHANGED reply

Refuse(c, status) == Finish(c, status) /\ UNCHANGED <<draft, wire>>

Bug_PrepareKeptTools(c, body, misfit) ==
    \/ ~DetailsFit(body) /\ Refuse(c, misfit)
    \/ /\ DetailsFit(body) /\ req[c].patch.tools # Keep
       /\ Goto(c, "catalog")
       /\ draft' = [draft EXCEPT ![c] = body]
       /\ UNCHANGED <<wire, reply>>
    \/ DetailsFit(body) /\ req[c].patch.tools = Keep /\ Send(c, body)

\* A task is validated against the catalog next, a reminder can be sent.
Prepare(c, body, misfit) ==
    \/ ~DetailsFit(body) /\ Refuse(c, misfit)
    \/ /\ DetailsFit(body) /\ body.kind = "task"
       /\ Goto(c, "catalog")
       /\ draft' = [draft EXCEPT ![c] = body]
       /\ UNCHANGED <<wire, reply>>
    \/ DetailsFit(body) /\ body.kind = "reminder" /\ Send(c, body)

-----------------------------------------------------------------------------
(* A call *)

\* The host starts a call. A caller names a revision it has been shown, or, if
\* callers anticipate, one that a call still under way will bring about.
Begin(c) ==
    /\ pc[c] = "idle"
    /\ req[c].op # "create" =>
          \/ Anticipate
          \/ req[c].id \in Id /\ req[c].expected <= plans[req[c].id].revision
    /\ Goto(c, "authorize")
    /\ offered' = [offered EXCEPT ![c] = catalog[req[c].user]]
    /\ UNCHANGED <<plans, taken, world, talk, req, base, draft, reply>>

\* The selection authorizes, then the adapter looks at the arguments.
Authorize(c) ==
    /\ pc[c] = "authorize"
    /\ \/ policy # "grant" /\ Finish(c, "forbidden")
       \/ policy = "grant" /\ ~WellFormed(c) /\ Finish(c, "bad_request")
       \/ /\ policy = "grant" /\ WellFormed(c)
          /\ Goto(c, IF req[c].op = "create" THEN "reauthorize" ELSE "lookup")
          /\ UNCHANGED reply
    /\ UNCHANGED <<plans, taken, world, talk, req, base, draft, offered>>

\* A creation asks again for the user's time zone; the answer must still grant.
Reauthorize(c) ==
    /\ pc[c] = "reauthorize"
    /\ \/ policy = "deny" /\ Refuse(c, "forbidden")
       \/ policy # "deny" /\ Prepare(c, req[c].patch, "bad_request")
    /\ UNCHANGED <<plans, taken, world, answer, req, base, offered>>

\* GetScheduledPlan finds the plans of this owner that are not deleted.
Found(c) ==
    /\ req[c].id \in Id
    /\ req[c].id[1] = Owner(c)
    /\ plans[req[c].id].status \in {"enabled", "paused"}

Bug_ViewableAny(plan) == TRUE

\* view() knows the plans of this application only.
Viewable(plan) == plan.body.kind \in Managed

Bug_MissingIsDeleted(c) ==
    Refuse(c, IF req[c].op = "delete" /\ req[c].mode = "reconcile" THEN "completed" ELSE "not_found")

Bug_MissingIsRefused(c) == Refuse(c, "not_found")

\* No plan: only a deletion that is reconciled goes on, to learn its outcome.
Missing(c) ==
    IF req[c].op = "delete" /\ req[c].mode = "reconcile" THEN Send(c, NoBody) ELSE Refuse(c, "not_found")

\* A plan that cannot be viewed and a patch that does not fit are both reported
\* as an unavailable service: mapSchedulerError does not know their errors.
Lookup(c) ==
    LET plan == plans[req[c].id]
        merged == Merge(plan.body, req[c].patch)
    IN
    /\ pc[c] = "lookup"
    /\ \/ ~Found(c) /\ Missing(c) /\ UNCHANGED base
       \/ /\ Found(c)
          /\ base' = [base EXCEPT ![c] = plan]
          /\ \/ ~Viewable(plan) /\ Refuse(c, "unavailable")
             \/ /\ Viewable(plan) /\ req[c].op = "update" /\ Detailed(req[c].patch)
                /\ Prepare(c, merged, "unavailable")
             \/ /\ Viewable(plan) /\ req[c].op = "update" /\ ~Detailed(req[c].patch)
                /\ Send(c, merged)
             \/ Viewable(plan) /\ req[c].op # "update" /\ Send(c, plan.body)
    /\ UNCHANGED <<plans, taken, world, answer, req, offered>>

\* backgroundInput: every tool must be listed to the user right now.
ReadCatalog(c) ==
    /\ pc[c] = "catalog"
    /\ IF draft[c].tools \subseteq Schedulable(c)
       THEN Send(c, draft[c])
       ELSE Refuse(c, IF req[c].op = "create" THEN "forbidden" ELSE "unavailable")
    /\ UNCHANGED <<plans, taken, world, answer, req, base, offered>>

mapSchedulerError(ans) ==
    CASE ans = "invalid" -> "bad_request"
      [] ans = "error" -> "unavailable"
      [] OTHER -> ans

\* The selection may find the content of a completed result oversized or off
\* schema, which leaves the host with an uncertain outcome.
Conclude(c) ==
    /\ pc[c] = "wait"
    /\ answer[c] # "none"
    /\ IF answer[c] = "ok"
       THEN Finish(c, "completed") \/ Finish(c, "uncertain")
       ELSE Finish(c, mapSchedulerError(answer[c]))
    /\ UNCHANGED <<plans, taken, world, talk, req, base, draft, offered>>

\* A port fails, or the execution timeout ends the call.
Fail(c) ==
    /\ pc[c] \in {"authorize", "reauthorize", "lookup", "catalog"} \/ (pc[c] = "wait" /\ answer[c] = "none")
    /\ Finish(c, "unavailable")
    /\ UNCHANGED <<plans, taken, world, talk, req, base, draft, offered>>

Step(c) ==
    \/ Begin(c) \/ Authorize(c) \/ Reauthorize(c) \/ Lookup(c) \/ ReadCatalog(c)
    \/ Conclude(c) \/ Fail(c)

-----------------------------------------------------------------------------
(* The scheduler (external) *)

Target(c) == IF req[c].op = "create" THEN <<Owner(c), ClientID(req[c].key, req[c].patch)>> ELSE req[c].id

\* A client ID opens one plan; a change fits the revision it names.
Fits(c) ==
    IF req[c].op = "create" THEN plans[Target(c)].status = "none"
    ELSE Found(c) /\ plans[Target(c)].revision = Expected(c)

After(c) ==
    LET plan == plans[Target(c)] IN
    CASE req[c].op = "create" -> [status |-> "enabled", revision |-> 1, body |-> draft[c]]
      [] req[c].op = "update" -> [plan EXCEPT !.revision = @ + 1, !.body = draft[c]]
      [] req[c].op = "pause" -> [plan EXCEPT !.revision = @ + 1, !.status = "paused"]
      [] req[c].op = "resume" -> [plan EXCEPT !.revision = @ + 1, !.status = "enabled"]
      [] req[c].op = "delete" -> [plan EXCEPT !.revision = @ + 1, !.status = "deleted"]

\* A creation that was made and a deletion of this revision are replayed.
Replayed(c) ==
    \/ req[c].op = "create" /\ plans[Target(c)].status # "none"
    \/ /\ req[c].op = "delete"
       /\ Target(c)[1] = Owner(c)
       /\ plans[Target(c)].status = "deleted"
       /\ plans[Target(c)].revision = Expected(c) + 1

\* What it says to a command that it does not perform. What it performed before
\* is replayed; anything else it may also find invalid.
Denials(c) ==
    IF Replayed(c) THEN {"ok"}
    ELSE {"invalid"} \cup (IF Fits(c) THEN {"error"} ELSE IF Found(c) THEN {"conflict"} ELSE {"not_found"})

\* The scheduler acts on a command, early or late; an error may hide that it did.
Deliver(c) ==
    /\ wire[c] = "sent"
    /\ wire' = [wire EXCEPT ![c] = "closed"]
    /\ \/ /\ Fits(c)
          /\ plans' = [plans EXCEPT ![Target(c)] = After(c)]
          /\ taken' = taken \cup {[by |-> c, id |-> Target(c), before |-> plans[Target(c)], after |-> After(c)]}
          /\ \E ans \in {"ok", "error"} : answer' = [answer EXCEPT ![c] = ans]
       \/ /\ UNCHANGED <<plans, taken>>
          /\ \E ans \in Denials(c) : answer' = [answer EXCEPT ![c] = ans]
    /\ UNCHANGED <<world, call, offered>>

-----------------------------------------------------------------------------
(* What changes around the calls (external) *)

SetPolicy ==
    /\ \E p \in {"deny", "grant", "confirm"} \ {policy} : policy' = p
    /\ UNCHANGED <<catalog, offered>>

SetCatalog ==
    /\ \E u \in Users, t \in Tools : catalog' = [catalog EXCEPT ![u] = IF t \in @ THEN @ \ {t} ELSE @ \cup {t}]
    /\ offered' = [c \in Calls |->
          IF pc[c] \in {"idle", "wait", "done"} THEN offered[c] ELSE offered[c] \cup catalog'[req[c].user]]
    /\ UNCHANGED policy

World ==
    /\ changes < MaxChanges
    /\ changes' = changes + 1
    /\ SetPolicy \/ SetCatalog
    /\ UNCHANGED <<plans, taken, call, talk>>

\* The host need not make every call it could.
AllDone ==
    /\ \A c \in Calls : pc[c] \in {"idle", "done"}
    /\ UNCHANGED vars

Next == (\E c \in Calls : Step(c) \/ Deliver(c)) \/ World \/ AllDone

Spec == Init /\ [][Next]_vars

-----------------------------------------------------------------------------
(* Properties *)

SameCommand(c, d) == [req[c] EXCEPT !.mode = "invoke"] = [req[d] EXCEPT !.mode = "invoke"]

\* However often a command is retried or reconciled, it changes a plan at most
\* once: the revision it names is replaced by its first success.
RetriesChangeOnce == \A g, h \in taken : SameCommand(g.by, h.by) => g = h

\* One idempotency key of a user opens at most one plan, even when the calls
\* that carry it ask for different plans.
OnePlanPerKey ==
    \A g, h \in taken :
        /\ req[g.by].op = "create" /\ req[h.by].op = "create"
        /\ req[g.by].user = req[h.by].user /\ req[g.by].key = req[h.by].key
        => g = h

\* An update leaves what its caller did not name as it was in the plan it
\* replaced, though it sends the whole plan it has read before.
UntouchedFieldsKept ==
    \A h \in taken : req[h.by].op = "update" =>
        /\ req[h.by].patch.name = Keep => h.after.body.name = h.before.body.name
        /\ req[h.by].patch.text = Keep => h.after.body.text = h.before.body.text
        /\ req[h.by].patch.tools = Keep => h.after.body.tools = h.before.body.tools
        /\ req[h.by].patch.conversation = Keep => h.after.body.conversation = h.before.body.conversation

\* A task gets a goal or tools only while all its tools are listed to its user,
\* and never tools that start tasks or change schedules.
TaskToolsWereListed ==
    \A h \in taken :
        /\ h.after.body.kind = "task"
        /\ h.after.body.text # h.before.body.text \/ h.after.body.tools # h.before.body.tools
        => h.after.body.tools \subseteq offered[h.by] \ Unschedulable

\* Plans change by calls of their own user only, and plans of other
\* applications do not change at all.
OnlyOwnPlansChange ==
    \A h \in taken :
        /\ h.id[1] = req[h.by].user
        /\ h.before.status # "none" => h.before.body.kind \in Managed

\* A call that is refused has changed nothing and never will; an unavailable
\* service says nothing either way.
RefusedMeansUntaken ==
    \A c \in Calls : reply[c] \in {"bad_request", "forbidden", "conflict", "not_found"} =>
        \A h \in taken : h.by # c

\* A completed call shows in the plans: they hold what it has opened, hold no
\* longer what it has deleted, and any other change was this call's own.
CompletedMeansTaken ==
    \A c \in Calls : reply[c] = "completed" =>
        CASE req[c].op = "create" -> plans[Target(c)].status # "none"
          [] req[c].op = "delete" -> plans[Target(c)].status = "deleted"
          [] OTHER -> \E h \in taken : h.by = c

\* A creation or deletion that was performed for any of its calls is not denied
\* to a call that reconciles it, which is told neither of a conflict nor of a
\* missing plan. Of the other commands this is not so: an update, a pause or a
\* resumption whose success was lost has replaced the revision it names, and
\* reconciling it ends in a conflict.
ReconciledMeansReplayed ==
    \A c \in Calls, h \in taken :
        /\ req[c].mode = "reconcile" /\ req[c].op \in {"create", "delete"}
        /\ SameCommand(c, h.by)
        => reply[c] \notin {"conflict", "not_found"}

\* What the host is told of a call is true and stays true, and so it is of the
\* command behind it if that opens or deletes a plan and the call reconciles.
AnswersAreTrue == RefusedMeansUntaken /\ CompletedMeansTaken /\ ReconciledMeansReplayed

\* Reconciliation reads receipts and does not write again when an outcome is
\* unknown.
ReconcileOnlyReads == \A h \in taken : req[h.by].mode = "invoke"

-----------------------------------------------------------------------------

Book == INSTANCE PlanBook WITH book <- plans, Patches <- {r.patch : r \in Requests}

\* To the user every operation happens at once, on the plan as it is at that
\* moment: the reading, merging and sending in between do not show.
ImplementsBook == Book!Spec
===============================================================================
