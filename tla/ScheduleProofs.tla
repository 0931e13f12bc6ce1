----------------------------- MODULE ScheduleProofs -----------------------------
(***************************************************************************)
(* Safety of the schedule tools for any number of calls, users, plans and  *)
(* revisions, and that to the user every operation happens at once, as     *)
(* long as callers name only revisions they have been shown.               *)
(***************************************************************************)
EXTENDS Schedule, TLAPS

-----------------------------------------------------------------------------
(* The inductive invariant *)

Live == {"enabled", "paused"}
Refusal == {"bad_request", "forbidden", "conflict", "not_found"}

\* What the scheduler's answer to a call stands for, and the call's result.
AnswerInv(c) ==
    /\ pc[c] \notin {"wait", "done"} => wire[c] = "none" /\ reply[c] = "none"
    /\ pc[c] = "wait" => wire[c] # "none" /\ reply[c] = "none"
    /\ wire[c] # "closed" => answer[c] = "none" /\ \A h \in taken : h.by # c
    /\ wire[c] = "closed" => answer[c] # "none"
    /\ answer[c] \in {"invalid", "conflict", "not_found"} => \A h \in taken : h.by # c
    /\ reply[c] \in Refusal => wire[c] = "none" \/ answer[c] \in {"invalid", "conflict", "not_found"}
    /\ reply[c] = "completed" => answer[c] = "ok"
    /\ answer[c] = "ok" =>
          /\ req[c].op = "create" => plans[Target(c)].status # "none"
          /\ req[c].op = "delete" => plans[Target(c)].status = "deleted"
          /\ req[c].op \notin {"create", "delete"} => \E h \in taken : h.by = c

\* The plan has moved past the revision that a call names, and the call's own
\* command was not what deleted it.
MovedOn(c) ==
    LET plan == plans[req[c].id] IN
    IF plan.status = "deleted" THEN plan.revision # req[c].expected + 1
    ELSE req[c].expected < plan.revision

\* When the scheduler denies a command, or the call gives up before it sends one:
\* no creation is denied, and a deletion only if the plan has moved on without it.
Denied == {"conflict", "not_found"}
DeniedInv(c) ==
    /\ answer[c] \in Denied => req[c].op # "create"
    /\ answer[c] \in Denied /\ req[c].op = "delete" /\ ~Anticipate =>
          req[c].id[1] # req[c].user \/ MovedOn(c)
    /\ reply[c] \in Denied =>
          \/ answer[c] \in Denied
          \/ req[c].op # "create" /\ ~(req[c].op = "delete" /\ req[c].mode = "reconcile")

\* A call that has settled what it will send.
Prepared(c) == pc[c] = "catalog" \/ wire[c] # "none"

\* An update carries the merge of its patch with the plan it has read, which is
\* still the plan if the revision is.
UpdateInv(c) ==
    /\ base[c].body \in Body
    /\ base[c].body.kind \in Managed
    /\ plans[req[c].id].body.kind \in Managed
    /\ draft[c] = Merge(base[c].body, req[c].patch)
    /\ base[c].revision <= plans[req[c].id].revision
    /\ base[c].revision = plans[req[c].id].revision => plans[req[c].id].body = base[c].body
    /\ Anticipate \/ req[c].expected <= base[c].revision

\* What a call knows by the stage it has reached.
ShapeInv(c) ==
    /\ pc[c] = "reauthorize" => req[c].op = "create" /\ req[c].key \in Keys
    /\ pc[c] = "lookup" => req[c].op # "create" /\ WellFormed(c)
    /\ pc[c] # "idle" /\ req[c].op # "create" =>
          Anticipate \/ req[c].expected <= plans[req[c].id].revision
    /\ Prepared(c) /\ req[c].op = "create" => req[c].key \in Keys /\ draft[c] = req[c].patch
    /\ Prepared(c) /\ req[c].op = "update" => UpdateInv(c)
    /\ Prepared(c) /\ req[c].op \notin {"create", "update"} =>
          /\ WellFormed(c)
          /\ Found(c) => plans[req[c].id].body.kind \in Managed

\* A command that chooses the details of a plan.
Chooses(c) == req[c].op = "create" \/ (req[c].op = "update" /\ Detailed(req[c].patch))

ToolsInv(c) ==
    /\ pc[c] \in {"authorize", "reauthorize", "lookup", "catalog"} => catalog[req[c].user] \subseteq offered[c]
    /\ wire[c] # "none" /\ Chooses(c) /\ draft[c].kind = "task" =>
          draft[c].tools \subseteq offered[c] \ Unschedulable

\* The properties of one change of a plan.
Kept(h) == req[h.by].op = "update" =>
    /\ req[h.by].patch.name = Keep => h.after.body.name = h.before.body.name
    /\ req[h.by].patch.text = Keep => h.after.body.text = h.before.body.text
    /\ req[h.by].patch.tools = Keep => h.after.body.tools = h.before.body.tools
    /\ req[h.by].patch.conversation = Keep => h.after.body.conversation = h.before.body.conversation

Listed(h) ==
    /\ h.after.body.kind = "task"
    /\ h.after.body.text # h.before.body.text \/ h.after.body.tools # h.before.body.tools
    => h.after.body.tools \subseteq offered[h.by] \ Unschedulable

\* What a change in the history stands for.
TakenInv(h) ==
    /\ h.id = Target(h.by)
    /\ h.id[1] = req[h.by].user
    /\ h.before.status # "none" => h.before.body.kind \in Managed
    /\ plans[h.id].status # "none"
    /\ h.after.revision <= plans[h.id].revision
    /\ req[h.by].op = "create" => h.after.revision = 1
    /\ req[h.by].op # "create" => h.after.revision = req[h.by].expected + 1
    /\ req[h.by].op = "delete" =>
          plans[h.id].status = "deleted" /\ plans[h.id].revision = req[h.by].expected + 1
    /\ ~Anticipate => Kept(h) /\ Listed(h)

\* Every change of a plan has a revision of its own.
Numbered == \A g, h \in taken : g.id = h.id /\ g.after.revision = h.after.revision => g = h

IInv ==
    /\ TypeOK
    /\ \A id \in Id : plans[id].status = "none" => plans[id].revision = 0
    /\ \A c \in Calls : AnswerInv(c) /\ DeniedInv(c) /\ ShapeInv(c) /\ ToolsInv(c)
    /\ \A h \in taken : TakenInv(h)
    /\ Numbered

-----------------------------------------------------------------------------
(* Types *)

LEMMA RequestTypes ==
    ASSUME NEW r \in Requests
    PROVE  /\ r.op \in Op /\ r.mode \in {"invoke", "reconcile"} /\ r.user \in Users
           /\ r.key \in Keys \cup {NoKey}
           /\ r.expected \in 0..(MaxRevision - 1)
           /\ r.patch \in Patch
           /\ r.op = "create" => r.patch \in Body /\ r.patch.kind \in Managed
           /\ r.id \in Id
           /\ r.key \in Keys => <<r.user, ClientID(r.key, r.patch)>> \in Id
<1>1. r \in Request
  BY ConstantsAssumption
<1>2. /\ r.op \in Op /\ r.mode \in {"invoke", "reconcile"} /\ r.user \in Users
      /\ r.key \in Keys \cup {NoKey}
      /\ r.expected \in 0..(MaxRevision - 1)
      /\ r.patch \in Patch
      /\ r.id \in Users \X (Keys \cup Others)
  BY <1>1 DEF Request
<1>3. Keys \subseteq {ClientID(k, p) : k \in Keys, p \in Patch}
  BY <1>2 DEF ClientID
<1>4. r.id \in Id
  BY <1>2, <1>3 DEF Id
<1>5. r.key \in Keys => <<r.user, ClientID(r.key, r.patch)>> \in Id
  BY <1>2 DEF Id
<1>6. QED
  BY <1>2, <1>4, <1>5, ConstantsAssumption

LEMMA NumberTypes ==
    /\ MaxRevision \in Nat \ {0}
    /\ \A plan \in Plan : plan.revision \in Nat
    /\ \A r \in Requests : r.expected \in Nat
<1>1. MaxRevision \in Nat \ {0}
  BY ConstantsAssumption
<1>2. \A r \in Requests : r.expected \in 0..(MaxRevision - 1)
  BY RequestTypes
<1>3. QED
  BY <1>1, <1>2 DEF Plan

LEMMA MergeType == ASSUME NEW body \in Body, NEW patch \in Patch
                   PROVE  Merge(body, patch) \in Body /\ Merge(body, patch).kind = body.kind
<1>1. /\ Put(patch.name, body.name) \in Texts
      /\ Put(patch.text, body.text) \in Texts
      /\ Put(patch.tools, body.tools) \in SUBSET Tools
      /\ Put(patch.conversation, body.conversation) \in Conversations
  BY DEF Put, Body, Patch
<1>2. QED
  BY <1>1 DEF Merge, Body

LEMMA ViewableType == ASSUME NEW plan \in Plan, Viewable(plan) PROVE plan.body \in Body
BY DEF Plan, Viewable, NoBody, Managed

\* The types that a call's own step can disturb.
CoreTypes ==
    /\ pc \in [Calls -> Stage]
    /\ base \in [Calls -> Plan]
    /\ draft \in [Calls -> Body \cup {NoBody}]
    /\ wire \in [Calls -> {"none", "sent", "closed"}]
    /\ reply \in [Calls -> Reply]
    /\ offered \in [Calls -> SUBSET Tools]

\* What Prepare leaves behind: a refusal, a draft to validate, or a command.
LEMMA PrepareCases ==
    ASSUME TypeOK, NEW c \in Calls, NEW body \in Body, NEW misfit \in Reply \ {"none"},
           Prepare(c, body, misfit)
    PROVE  \/ Refuse(c, misfit)
           \/ /\ Goto(c, "catalog")
              /\ draft' = [draft EXCEPT ![c] = body]
              /\ UNCHANGED <<wire, reply>>
           \/ Send(c, body) /\ body.kind # "task"
BY DEF Prepare

LEMMA ReauthorizeTypes == ASSUME IInv, NEW c \in Calls, Reauthorize(c) PROVE CoreTypes'
<1>1. req[c].patch \in Body
  BY RequestTypes DEF IInv, TypeOK, ShapeInv, Reauthorize
<1>2. CASE Refuse(c, "forbidden") \/ Refuse(c, "bad_request")
  BY <1>2 DEF Reauthorize, Refuse, Finish, Goto, IInv, TypeOK, CoreTypes, Stage, Reply
<1>3. CASE Prepare(c, req[c].patch, "bad_request")
  BY <1>1, <1>3, PrepareCases DEF Reauthorize, Refuse, Send, Finish, Goto, IInv, TypeOK, CoreTypes, Stage, Reply
<1>4. QED
  BY <1>2, <1>3 DEF Reauthorize

LEMMA LookupTypes == ASSUME IInv, NEW c \in Calls, Lookup(c) PROVE CoreTypes'
<1> DEFINE plan == plans[req[c].id]
           merged == Merge(plan.body, req[c].patch)
<1>1. plan \in Plan /\ req[c].patch \in Patch
  BY RequestTypes DEF IInv, TypeOK
<1>2. Viewable(plan) => plan.body \in Body /\ merged \in Body
  BY <1>1, ViewableType, MergeType
<1>3. base' \in [Calls -> Plan] /\ UNCHANGED offered
  BY <1>1 DEF Lookup, IInv, TypeOK
<1>4. \/ \E s \in {"not_found", "unavailable"} : Refuse(c, s)
      \/ \E body \in {NoBody, merged, plan.body} : Send(c, body) /\ (body # NoBody => Viewable(plan))
      \/ Viewable(plan) /\ Prepare(c, merged, "unavailable")
  BY DEF Lookup, Missing
<1>5. ASSUME NEW s \in {"not_found", "unavailable"}, Refuse(c, s) PROVE CoreTypes'
  BY <1>3, <1>5 DEF Refuse, Finish, Goto, IInv, TypeOK, CoreTypes, Stage, Reply
<1>6. ASSUME NEW body \in Body \cup {NoBody}, Send(c, body) PROVE CoreTypes'
  BY <1>3, <1>6 DEF Send, Goto, IInv, TypeOK, CoreTypes, Stage
<1>7. CASE Viewable(plan) /\ Prepare(c, merged, "unavailable")
  <2>1. \/ Refuse(c, "unavailable")
        \/ /\ Goto(c, "catalog")
           /\ draft' = [draft EXCEPT ![c] = merged]
           /\ UNCHANGED <<wire, reply>>
        \/ Send(c, merged)
    BY <1>2, <1>7, PrepareCases DEF IInv, Reply
  <2>2. QED
    BY <1>2, <1>3, <1>5, <1>6, <1>7, <2>1 DEF Goto, IInv, TypeOK, CoreTypes, Stage
<1>8. QED
  BY <1>2, <1>4, <1>5, <1>6, <1>7

LEMMA StepTypes == ASSUME IInv, NEW c \in Calls, Step(c)
                   PROVE  TypeOK' /\ UNCHANGED <<plans, taken, world, req, answer>>
<1>1. UNCHANGED <<plans, taken, world, req, answer>>
  BY DEF Step, Begin, Authorize, Reauthorize, Lookup, ReadCatalog, Conclude, Fail, talk
<1>2. ASSUME Begin(c) PROVE CoreTypes'
  <2>1. catalog[req[c].user] \in SUBSET Tools
    BY RequestTypes DEF IInv, TypeOK
  <2>2. QED
    BY <1>2, <2>1 DEF Begin, Goto, IInv, TypeOK, CoreTypes, Stage, talk
<1>3. ASSUME Authorize(c) PROVE CoreTypes'
  BY <1>3 DEF Authorize, Finish, Goto, IInv, TypeOK, CoreTypes, Stage, Reply, talk
<1>4. ASSUME ReadCatalog(c) PROVE CoreTypes'
  BY <1>4 DEF ReadCatalog, Send, Refuse, Finish, Goto, IInv, TypeOK, CoreTypes, Stage, Reply
<1>5. ASSUME Conclude(c) PROVE CoreTypes'
  BY <1>5 DEF Conclude, Finish, Goto, mapSchedulerError, IInv, TypeOK, CoreTypes, Stage, Reply, talk
<1>6. ASSUME Fail(c) PROVE CoreTypes'
  BY <1>6 DEF Fail, Finish, Goto, IInv, TypeOK, CoreTypes, Stage, Reply, talk
<1>7. CoreTypes'
  BY <1>2, <1>3, <1>4, <1>5, <1>6, ReauthorizeTypes, LookupTypes DEF Step
<1>8. QED
  BY <1>1, <1>7 DEF IInv, TypeOK, CoreTypes, world

-----------------------------------------------------------------------------
(* The steps of a call *)

\* What one call is, for the others to leave alone.
Same(d) ==
    /\ pc'[d] = pc[d] /\ base'[d] = base[d] /\ draft'[d] = draft[d]
    /\ wire'[d] = wire[d] /\ reply'[d] = reply[d] /\ offered'[d] = offered[d]

LEMMA StepFrame ==
    ASSUME IInv, NEW c \in Calls, Step(c), NEW d \in Calls, d # c
    PROVE  Same(d)
<1> USE DEF Goto, Finish, Refuse, Send, Same, IInv, TypeOK
<1>1. CASE Begin(c) \/ Authorize(c) \/ ReadCatalog(c) \/ Conclude(c) \/ Fail(c)
  BY <1>1 DEF Begin, Authorize, ReadCatalog, Conclude, Fail, talk
<1>2. CASE Reauthorize(c)
  BY <1>2 DEF Reauthorize, Prepare
<1>3. CASE Lookup(c)
  BY <1>3 DEF Lookup, Missing, Prepare
<1>4. QED
  BY <1>1, <1>2, <1>3 DEF Step

\* A call at work is refused, goes on to the catalog or sends its command.
LEMMA WorkingSteps ==
    ASSUME NEW c \in Calls, Reauthorize(c) \/ Lookup(c) \/ ReadCatalog(c)
    PROVE  /\ pc[c] \in {"reauthorize", "lookup", "catalog"}
           /\ \/ \E s \in Refusal \cup {"unavailable"} : Refuse(c, s)
              \/ Goto(c, "catalog") /\ UNCHANGED <<wire, reply>>
              \/ \E body \in {NoBody, draft[c], req[c].patch, plans[req[c].id].body,
                              Merge(plans[req[c].id].body, req[c].patch)} : Send(c, body)
<1>1. CASE Reauthorize(c)
  BY <1>1 DEF Reauthorize, Prepare, Refusal
<1>2. CASE Lookup(c)
  BY <1>2 DEF Lookup, Missing, Prepare, Refusal
<1>3. CASE ReadCatalog(c)
  BY <1>3 DEF ReadCatalog, Refusal
<1>4. QED
  BY <1>1, <1>2, <1>3

LEMMA StepKeepsAnswer == ASSUME IInv, NEW c \in Calls, Step(c) PROVE AnswerInv(c)'
<1>1. UNCHANGED <<plans, taken, req, answer>> /\ Target(c)' = Target(c)
  BY StepTypes DEF Target, Owner
<1>2. AnswerInv(c) /\ TypeOK
  BY DEF IInv
<1>3. CASE Begin(c) \/ Authorize(c)
  BY <1>1, <1>2, <1>3 DEF Begin, Authorize, Goto, Finish, AnswerInv, TypeOK, Refusal, talk
<1>4. CASE Reauthorize(c) \/ Lookup(c) \/ ReadCatalog(c)
  <2>1. wire[c] = "none" /\ reply[c] = "none" /\ answer[c] = "none"
    BY <1>2, <1>4, WorkingSteps DEF AnswerInv
  <2>2. \/ pc'[c] = "done" /\ wire'[c] = "none" /\ reply'[c] \in Refusal \cup {"unavailable"}
        \/ pc'[c] = "catalog" /\ wire'[c] = "none" /\ reply'[c] = "none"
        \/ pc'[c] = "wait" /\ wire'[c] = "sent" /\ reply'[c] = "none"
    BY <1>2, <1>4, <2>1, WorkingSteps DEF Goto, Finish, Refuse, Send, TypeOK
  <2>3. QED
    BY <1>1, <1>2, <2>1, <2>2 DEF AnswerInv, Refusal
<1>5. CASE Conclude(c)
  BY <1>1, <1>2, <1>5 DEF Conclude, mapSchedulerError, Goto, Finish, AnswerInv, TypeOK, Refusal, talk
<1>6. CASE Fail(c)
  BY <1>1, <1>2, <1>6 DEF Fail, Goto, Finish, AnswerInv, TypeOK, Refusal, talk
<1>7. QED
  BY <1>3, <1>4, <1>5, <1>6 DEF Step

LEMMA LookupKeepsShape == ASSUME IInv, NEW c \in Calls, Lookup(c)
                          PROVE  ShapeInv(c)' /\ ToolsInv(c)'
<1> DEFINE plan == plans[req[c].id]
           merged == Merge(plan.body, req[c].patch)
<1>1. UNCHANGED <<plans, taken, catalog, req, answer, offered>>
  BY DEF Lookup, world
<1>2. /\ TypeOK /\ AnswerInv(c) /\ ShapeInv(c) /\ ToolsInv(c)
      /\ pc[c] = "lookup" /\ req[c].op # "create" /\ wire[c] = "none"
  BY DEF IInv, Lookup, ShapeInv, AnswerInv
<1>3. plan \in Plan /\ req[c].patch \in Patch /\ req[c].expected \in Nat /\ plan.revision \in Nat
  BY <1>2, RequestTypes, NumberTypes DEF TypeOK
<1>4. Found(c)' = Found(c) /\ WellFormed(c)' = WellFormed(c)
  BY <1>1 DEF Found, Owner, WellFormed
<1>5. ASSUME NEW s, Refuse(c, s) PROVE ShapeInv(c)' /\ ToolsInv(c)'
  <2>1. pc'[c] = "done" /\ wire'[c] = "none"
    BY <1>2, <1>5 DEF Refuse, Finish, Goto, TypeOK
  <2>2. QED
    BY <1>1, <1>2, <2>1 DEF ShapeInv, ToolsInv, Prepared
<1>6. CASE ~Found(c) /\ Missing(c)
  <2>1. CASE Send(c, NoBody) /\ req[c].op = "delete"
    <3>1. pc'[c] = "wait" /\ wire'[c] = "sent"
      BY <1>2, <2>1 DEF Send, Goto, TypeOK
    <3>2. QED
      BY <1>1, <1>2, <1>4, <1>6, <2>1, <3>1 DEF ShapeInv, ToolsInv, Prepared, Chooses
  <2>2. QED
    BY <1>5, <1>6, <2>1 DEF Missing
<1>7. ASSUME Found(c), Viewable(plan), req[c].op = "update", base' = [base EXCEPT ![c] = plan],
             draft'[c] = merged, pc'[c] \in {"catalog", "wait"}
      PROVE  ShapeInv(c)'
  <2>1. base'[c] = plan /\ plan.body \in Body /\ plan.body.kind \in Managed
    BY <1>2, <1>3, <1>7, ViewableType DEF Viewable, TypeOK
  <2>2. UpdateInv(c)'
    BY <1>1, <1>2, <1>3, <1>7, <2>1 DEF UpdateInv, ShapeInv
  <2>3. QED
    BY <1>1, <1>2, <1>7, <2>2 DEF ShapeInv
<1>8. CASE /\ Found(c) /\ Viewable(plan) /\ req[c].op = "update" /\ base' = [base EXCEPT ![c] = plan]
           /\ Detailed(req[c].patch) /\ Prepare(c, merged, "unavailable")
  <2>1. merged \in Body
    BY <1>3, <1>8, ViewableType, MergeType
  <2>2. CASE Goto(c, "catalog") /\ draft' = [draft EXCEPT ![c] = merged] /\ UNCHANGED <<wire, reply>>
    <3>1. pc'[c] = "catalog" /\ draft'[c] = merged /\ wire'[c] = "none"
      BY <1>2, <2>2 DEF Goto, TypeOK
    <3>2. QED
      BY <1>1, <1>2, <1>7, <1>8, <3>1 DEF ToolsInv
  <2>3. CASE Send(c, merged) /\ merged.kind # "task"
    <3>1. pc'[c] = "wait" /\ draft'[c] = merged /\ wire'[c] = "sent"
      BY <1>2, <2>3 DEF Send, Goto, TypeOK
    <3>2. QED
      BY <1>1, <1>2, <1>7, <1>8, <2>3, <3>1 DEF ToolsInv
  <2>4. QED
    BY <1>2, <1>5, <1>8, <2>1, <2>2, <2>3, PrepareCases DEF Reply
<1>9. CASE /\ Found(c) /\ Viewable(plan) /\ req[c].op = "update" /\ base' = [base EXCEPT ![c] = plan]
           /\ ~Detailed(req[c].patch) /\ Send(c, merged)
  <2>1. pc'[c] = "wait" /\ draft'[c] = merged /\ wire'[c] = "sent"
    BY <1>2, <1>9 DEF Send, Goto, TypeOK
  <2>2. QED
    BY <1>1, <1>2, <1>7, <1>9, <2>1 DEF ToolsInv, Chooses
<1>10. CASE Found(c) /\ Viewable(plan) /\ req[c].op # "update" /\ Send(c, plan.body)
  <2>1. pc'[c] = "wait" /\ wire'[c] = "sent"
    BY <1>2, <1>10 DEF Send, Goto, TypeOK
  <2>2. QED
    BY <1>1, <1>2, <1>4, <1>10, <2>1 DEF ShapeInv, ToolsInv, Prepared, Chooses, Viewable
<1>11. QED
  BY <1>5, <1>6, <1>8, <1>9, <1>10 DEF Lookup

LEMMA StepKeepsShape == ASSUME IInv, NEW c \in Calls, Step(c) PROVE ShapeInv(c)' /\ ToolsInv(c)'
<1>1. UNCHANGED <<plans, taken, catalog, req, answer>> /\ Found(c)' = Found(c) /\ WellFormed(c)' = WellFormed(c)
  BY StepTypes DEF Found, Owner, world, WellFormed
<1>2. TypeOK /\ AnswerInv(c) /\ ShapeInv(c) /\ ToolsInv(c)
  BY DEF IInv
<1>3. CASE Begin(c)
  <2>1. /\ pc[c] = "idle" /\ pc'[c] = "authorize" /\ wire'[c] = "none"
        /\ offered'[c] = catalog[req[c].user]
        /\ req[c].op # "create" => Anticipate \/ req[c].expected <= plans[req[c].id].revision
    BY <1>2, <1>3 DEF Begin, Goto, TypeOK, AnswerInv, talk
  <2>2. QED
    BY <1>1, <2>1 DEF ShapeInv, ToolsInv, Prepared
<1>4. CASE Authorize(c)
  <2>1. /\ pc[c] = "authorize" /\ pc'[c] \in {"done", "reauthorize", "lookup"} /\ wire'[c] = "none"
        /\ pc'[c] = "reauthorize" => req[c].op = "create" /\ WellFormed(c)
        /\ pc'[c] = "lookup" => req[c].op # "create" /\ WellFormed(c)
        /\ UNCHANGED offered
    BY <1>2, <1>4 DEF Authorize, Goto, Finish, TypeOK, AnswerInv, talk
  <2>2. req[c].op = "create" /\ WellFormed(c) => req[c].key \in Keys
    BY <1>2, RequestTypes DEF WellFormed, TypeOK
  <2>3. QED
    BY <1>1, <1>2, <2>1, <2>2 DEF ShapeInv, ToolsInv, Prepared
<1>5. CASE Reauthorize(c)
  <2>1. req[c].op = "create" /\ req[c].key \in Keys /\ req[c].patch \in Body /\ wire[c] = "none"
        /\ UNCHANGED offered /\ pc[c] = "reauthorize"
    BY <1>2, <1>5, RequestTypes DEF Reauthorize, ShapeInv, AnswerInv, TypeOK
  <2>2. \/ pc'[c] = "done" /\ wire'[c] = "none"
        \/ pc'[c] = "catalog" /\ wire'[c] = "none" /\ draft'[c] = req[c].patch
        \/ pc'[c] = "wait" /\ draft'[c] = req[c].patch /\ req[c].patch.kind # "task"
    <3>1. CASE Refuse(c, "forbidden") \/ Refuse(c, "bad_request")
      BY <1>2, <2>1, <3>1 DEF Refuse, Finish, Goto, TypeOK
    <3>2. CASE Prepare(c, req[c].patch, "bad_request")
      BY <1>2, <2>1, <3>2, PrepareCases DEF Refuse, Send, Finish, Goto, TypeOK, Reply
    <3>3. QED
      BY <1>5, <3>1, <3>2 DEF Reauthorize
  <2>3. QED
    BY <1>1, <1>2, <2>1, <2>2 DEF ShapeInv, ToolsInv, Prepared
<1>6. CASE ReadCatalog(c)
  <2>1. pc[c] = "catalog" /\ wire[c] = "none" /\ UNCHANGED <<base, offered>>
    BY <1>2, <1>6 DEF ReadCatalog, AnswerInv
  <2>2. CASE draft[c].tools \subseteq Schedulable(c)
    <3>1. pc'[c] = "wait" /\ draft'[c] = draft[c] /\ wire'[c] = "sent"
      BY <1>2, <1>6, <2>2 DEF ReadCatalog, Send, Goto, TypeOK
    <3>2. UpdateInv(c)' = UpdateInv(c)
      BY <1>1, <2>1, <3>1 DEF UpdateInv
    <3>3. ShapeInv(c)'
      BY <1>1, <1>2, <2>1, <3>1, <3>2 DEF ShapeInv, Prepared
    <3>4. ToolsInv(c)'
      BY <1>1, <1>2, <2>1, <2>2, <3>1 DEF ToolsInv, Schedulable
    <3>5. QED
      BY <3>3, <3>4
  <2>3. CASE ~(draft[c].tools \subseteq Schedulable(c))
    <3>1. pc'[c] = "done" /\ wire'[c] = "none"
      BY <1>2, <1>6, <2>1, <2>3 DEF ReadCatalog, Refuse, Finish, Goto, TypeOK
    <3>2. QED
      BY <1>1, <1>2, <2>1, <3>1 DEF ShapeInv, ToolsInv, Prepared
  <2>4. QED
    BY <2>2, <2>3
<1>7. CASE Conclude(c) \/ Fail(c)
  <2>1. pc'[c] = "done" /\ pc[c] # "idle" /\ UNCHANGED <<wire, base, draft, offered>>
    BY <1>2, <1>7 DEF Conclude, Fail, Finish, Goto, TypeOK, talk
  <2>2. UpdateInv(c)' = UpdateInv(c)
    BY <1>1, <2>1 DEF UpdateInv
  <2>3. QED
    BY <1>1, <1>2, <2>1, <2>2 DEF ShapeInv, ToolsInv, Prepared, Chooses
<1>8. QED
  BY <1>3, <1>4, <1>5, <1>6, <1>7, LookupKeepsShape DEF Step

LEMMA StepKeepsDenied == ASSUME IInv, NEW c \in Calls, Step(c) PROVE DeniedInv(c)'
<1>1. UNCHANGED <<plans, req, answer>> /\ MovedOn(c)' = MovedOn(c)
  BY StepTypes DEF MovedOn
<1>2. DeniedInv(c) /\ ShapeInv(c) /\ AnswerInv(c) /\ reply \in [Calls -> Reply]
  BY DEF IInv, TypeOK
<1>3. reply'[c] \in Denied =>
        \/ UNCHANGED reply \/ answer[c] \in Denied
        \/ req[c].op # "create" /\ ~(req[c].op = "delete" /\ req[c].mode = "reconcile")
  <2>1. CASE Begin(c) \/ Authorize(c) \/ ReadCatalog(c) \/ Fail(c)
    BY <1>2, <2>1 DEF Begin, Authorize, ReadCatalog, Fail, Send, Refuse, Finish, Denied
  <2>2. CASE Reauthorize(c)
    BY <1>2, <2>2 DEF Reauthorize, Prepare, Send, Refuse, Finish, Denied
  <2>3. CASE Lookup(c)
    BY <1>2, <2>3 DEF Lookup, Missing, Prepare, Send, Refuse, Finish, Denied, ShapeInv
  <2>4. CASE Conclude(c)
    BY <1>2, <2>4 DEF Conclude, mapSchedulerError, Finish, Denied
  <2>5. QED
    BY <2>1, <2>2, <2>3, <2>4 DEF Step
<1>4. QED
  BY <1>1, <1>2, <1>3 DEF DeniedInv

LEMMA StepKeepsIInv == ASSUME IInv, NEW c \in Calls, Step(c) PROVE IInv'
<1>1. TypeOK' /\ UNCHANGED <<plans, taken, world, req, answer>>
  BY StepTypes
<1>2. ASSUME NEW d \in Calls PROVE (AnswerInv(d) /\ DeniedInv(d) /\ ShapeInv(d) /\ ToolsInv(d))'
  <2>1. CASE d = c
    BY <2>1, StepKeepsAnswer, StepKeepsDenied, StepKeepsShape
  <2>2. CASE d # c
    <3>1. Same(d) /\ AnswerInv(d) /\ DeniedInv(d) /\ ShapeInv(d) /\ ToolsInv(d)
      BY <2>2, StepFrame DEF IInv
    <3>2. Target(d)' = Target(d) /\ Found(d)' = Found(d) /\ WellFormed(d)' = WellFormed(d)
          /\ MovedOn(d)' = MovedOn(d)
      BY <1>1 DEF Target, Owner, Found, WellFormed, Detailed, MovedOn
    <3>3. UpdateInv(d)' = UpdateInv(d)
      BY <1>1, <3>1 DEF UpdateInv, Same
    <3>4. AnswerInv(d)'
      BY <1>1, <3>1, <3>2 DEF AnswerInv, Same
    <3>5. ShapeInv(d)'
      BY <1>1, <3>1, <3>2, <3>3 DEF ShapeInv, Prepared, Same
    <3>6. ToolsInv(d)'
      BY <1>1, <3>1 DEF ToolsInv, Chooses, Same, world
    <3>7. DeniedInv(d)'
      BY <1>1, <3>1, <3>2 DEF DeniedInv, Same
    <3>8. QED
      BY <3>4, <3>5, <3>6, <3>7
  <2>3. QED
    BY <2>1, <2>2
<1>3. ASSUME NEW h \in taken PROVE TakenInv(h)'
  <2>1. h.by \in Calls /\ wire[h.by] = "closed" /\ TakenInv(h)
    BY DEF IInv, TypeOK, Change, AnswerInv
  <2>2. offered'[h.by] = offered[h.by]
    <3>1. CASE h.by = c
      <4>1. pc[c] # "idle"
        BY <2>1, <3>1 DEF IInv, AnswerInv
      <4>2. QED
        BY <4>1 DEF Step, Begin, Authorize, Reauthorize, Lookup, ReadCatalog, Conclude, Fail
    <3>2. CASE h.by # c
      BY <2>1, <3>2, StepFrame DEF Same
    <3>3. QED
      BY <3>1, <3>2
  <2>3. Target(h.by)' = Target(h.by)
    BY <1>1 DEF Target, Owner
  <2>4. QED
    BY <1>1, <2>1, <2>2, <2>3 DEF TakenInv, Kept, Listed
<1>4. QED
  BY <1>1, <1>2, <1>3 DEF IInv, Numbered

-----------------------------------------------------------------------------
(* The scheduler acts on a command *)

\* The history record of a command that the scheduler performs now.
ChangeBy(c) == [by |-> c, id |-> Target(c), before |-> plans[Target(c)], after |-> After(c)]

LEMMA PreparedTarget == ASSUME IInv, NEW c \in Calls, wire[c] # "none"
                        PROVE  /\ Target(c) \in Id
                               /\ req[c].op # "create" => Target(c) = req[c].id
<1>1. req[c] \in Requests /\ ShapeInv(c) /\ Prepared(c)
  BY DEF IInv, TypeOK, Prepared
<1>2. CASE req[c].op = "create"
  BY <1>1, <1>2, RequestTypes DEF Target, Owner, ShapeInv
<1>3. CASE req[c].op # "create"
  BY <1>1, <1>3, RequestTypes DEF Target
<1>4. QED
  BY <1>2, <1>3

\* What a command that fits does to its plan.
LEMMA FittingCommand ==
    ASSUME IInv, NEW c \in Calls, wire[c] = "sent", Fits(c)
    PROVE  LET old == plans[Target(c)]
               new == After(c)
           IN  /\ new \in Plan
               /\ new.revision = old.revision + 1
               /\ new.status # "none"
               /\ req[c].op = "create" => old.status = "none" /\ new.revision = 1
               /\ req[c].op # "create" =>
                     /\ old.status \in Live /\ old.revision = req[c].expected
                     /\ req[c].id[1] = req[c].user
                     /\ old.body.kind \in Managed
               /\ new.body.kind \in Managed
               /\ req[c].op \in {"create", "update"} => new.body = draft[c]
               /\ req[c].op \notin {"create", "update"} => new.body = old.body
               /\ req[c].op = "delete" => new.status = "deleted"
<1> DEFINE old == plans[Target(c)]
           new == After(c)
<1>1. /\ TypeOK /\ ShapeInv(c) /\ Prepared(c) /\ Target(c) \in Id /\ old \in Plan
      /\ req[c] \in Requests /\ draft[c] \in Body \cup {NoBody}
  BY PreparedTarget DEF IInv, TypeOK, Prepared
<1>2. /\ req[c].op \in Op /\ req[c].expected \in 0..(MaxRevision - 1) /\ MaxRevision \in Nat \ {0}
      /\ req[c].patch \in Patch
      /\ req[c].op = "create" => req[c].patch \in Body /\ req[c].patch.kind \in Managed
  BY <1>1, RequestTypes, ConstantsAssumption
<1>3. CASE req[c].op = "create"
  <2>1. old.status = "none" /\ old.revision = 0 /\ draft[c] = req[c].patch
    BY <1>1, <1>3 DEF Fits, ShapeInv, IInv
  <2>2. new = [status |-> "enabled", revision |-> 1, body |-> draft[c]]
    BY <1>3 DEF After
  <2>3. QED
    BY <1>2, <1>3, <2>1, <2>2 DEF Plan, Status
<1>4. CASE req[c].op # "create"
  <2>1. /\ Target(c) = req[c].id /\ old.status \in Live /\ old.revision = req[c].expected
        /\ req[c].id[1] = req[c].user /\ Found(c)
    BY <1>1, <1>4, PreparedTarget DEF Fits, Found, Owner, Expected, Live
  <2>next. old.revision + 1 \in 0..MaxRevision
    BY <1>2, <2>1
  <2>2. old.body.kind \in Managed
    BY <1>1, <1>2, <1>4, <2>1 DEF ShapeInv, UpdateInv, Op
  <2>3. CASE req[c].op = "update"
    <3>1. UpdateInv(c)
      BY <1>1, <2>3 DEF ShapeInv
    <3>2. new = [old EXCEPT !.revision = old.revision + 1, !.body = draft[c]]
      BY <2>3 DEF After
    <3>3. draft[c] \in Body /\ draft[c].kind = base[c].body.kind
      BY <1>2, <3>1, MergeType DEF UpdateInv
    <3>4. new.status = old.status /\ new.revision = old.revision + 1 /\ new.body = draft[c] /\ new \in Plan
      BY <1>1, <2>next, <3>2, <3>3 DEF Plan
    <3>5. draft[c].kind \in Managed
      BY <3>1, <3>3 DEF UpdateInv
    <3>6. QED
      BY <1>4, <2>1, <2>2, <2>3, <3>4, <3>5 DEF Live
  <2>4. ASSUME NEW s \in {"enabled", "paused", "deleted"}, req[c].op # "update",
               new = [old EXCEPT !.revision = old.revision + 1, !.status = s],
               req[c].op = "delete" => s = "deleted"
        PROVE  /\ new \in Plan /\ new.revision = old.revision + 1 /\ new.status = s /\ new.body = old.body
    BY <1>1, <2>4, <2>next DEF Plan, Status
  <2>5. CASE req[c].op = "pause"
    BY <1>4, <2>1, <2>2, <2>4, <2>5 DEF After
  <2>6. CASE req[c].op = "resume"
    BY <1>4, <2>1, <2>2, <2>4, <2>6 DEF After
  <2>7. CASE req[c].op = "delete"
    BY <1>4, <2>1, <2>2, <2>4, <2>7 DEF After
  <2>8. QED
    BY <1>2, <1>4, <2>3, <2>5, <2>6, <2>7 DEF Op
<1>5. QED
  BY <1>3, <1>4

\* An update that fits was made from the plan it replaces.
LEMMA UpdateIsCurrent ==
    ASSUME IInv, NEW c \in Calls, wire[c] = "sent", Fits(c), req[c].op = "update", ~Anticipate
    PROVE  /\ plans[Target(c)].body = base[c].body /\ base[c].body \in Body
           /\ After(c).body = Merge(plans[Target(c)].body, req[c].patch)
<1>1. UpdateInv(c) /\ Target(c) = req[c].id
  BY PreparedTarget DEF IInv, ShapeInv, Prepared
<1>2. plans[req[c].id].revision = req[c].expected /\ After(c).body = draft[c]
  BY <1>1, FittingCommand
<1>3. base[c] \in Plan /\ plans[req[c].id] \in Plan
  BY RequestTypes DEF IInv, TypeOK
<1>4. base[c].revision \in Nat /\ plans[req[c].id].revision \in Nat
  BY <1>3, ConstantsAssumption DEF Plan
<1>5. base[c].revision = plans[req[c].id].revision
  BY <1>1, <1>2, <1>4 DEF UpdateInv
<1>6. QED
  BY <1>1, <1>2, <1>5 DEF UpdateInv

LEMMA ChangeKeepsProperties ==
    ASSUME IInv, NEW c \in Calls, wire[c] = "sent", Fits(c), ~Anticipate
    PROVE  Kept(ChangeBy(c)) /\ Listed(ChangeBy(c))
<1> DEFINE old == plans[Target(c)]
<1>1. /\ ChangeBy(c).by = c /\ ChangeBy(c).before = old /\ ChangeBy(c).after = After(c)
  BY DEF ChangeBy
<1>2. req[c].patch \in Patch /\ req[c].op \in Op /\ ToolsInv(c)
  BY RequestTypes DEF IInv, TypeOK
<1>3. req[c].op = "update" =>
        /\ old.body \in Body
        /\ After(c).body.name = Put(req[c].patch.name, old.body.name)
        /\ After(c).body.text = Put(req[c].patch.text, old.body.text)
        /\ After(c).body.tools = Put(req[c].patch.tools, old.body.tools)
        /\ After(c).body.conversation = Put(req[c].patch.conversation, old.body.conversation)
  BY UpdateIsCurrent DEF Merge, Body
<1>4. Kept(ChangeBy(c))
  BY <1>1, <1>3 DEF Kept, Put
<1>5. CASE Chooses(c)
  <2>1. After(c).body = draft[c]
    BY <1>5, FittingCommand DEF Chooses
  <2>2. QED
    BY <1>1, <1>2, <1>4, <1>5, <2>1 DEF Listed, ToolsInv
<1>6. CASE ~Chooses(c)
  <2>1. After(c).body.text = old.body.text /\ After(c).body.tools = old.body.tools
    <3>1. CASE req[c].op = "update"
      BY <1>3, <1>6, <3>1 DEF Chooses, Detailed, Put
    <3>2. CASE req[c].op # "update"
      BY <1>6, <3>2, FittingCommand DEF Chooses
    <3>3. QED
      BY <3>1, <3>2
  <2>2. QED
    BY <1>1, <1>4, <2>1 DEF Listed
<1>7. QED
  BY <1>5, <1>6

LEMMA DeliverCases ==
    ASSUME IInv, NEW c \in Calls, Deliver(c)
    PROVE  /\ wire[c] = "sent" /\ wire' = [wire EXCEPT ![c] = "closed"]
           /\ UNCHANGED <<world, call, offered>>
           /\ \E ans \in {"ok", "invalid", "conflict", "not_found", "error"} :
                /\ answer' = [answer EXCEPT ![c] = ans]
                /\ \/ /\ Fits(c)
                      /\ ans \in {"ok", "error"}
                      /\ plans' = [plans EXCEPT ![Target(c)] = After(c)]
                      /\ taken' = taken \cup {ChangeBy(c)}
                   \/ /\ UNCHANGED <<plans, taken>>
                      /\ ans \in Denials(c)
<1>1. CASE UNCHANGED <<plans, taken>> /\ \E ans \in Denials(c) : answer' = [answer EXCEPT ![c] = ans]
  <2>1. Denials(c) \subseteq {"ok", "invalid", "conflict", "not_found", "error"}
    BY DEF Denials
  <2>2. QED
    BY <1>1, <2>1 DEF Deliver
<1>2. CASE /\ Fits(c)
           /\ plans' = [plans EXCEPT ![Target(c)] = After(c)]
           /\ taken' = taken \cup {ChangeBy(c)}
           /\ \E ans \in {"ok", "error"} : answer' = [answer EXCEPT ![c] = ans]
  BY <1>2 DEF Deliver
<1>3. QED
  BY <1>1, <1>2 DEF Deliver, ChangeBy

\* What a denial says of the plan.
LEMMA DenialCases ==
    ASSUME NEW c \in Calls, NEW ans \in Denials(c)
    PROVE  /\ ans = "ok" => Replayed(c)
           /\ ans \in Denied => ~Replayed(c) /\ ~Fits(c)
BY DEF Denials, Denied

\* What holds of the plans after any command was delivered.
Grow == \A id \in Id :
    /\ plans'[id] \in Plan
    /\ plans[id].revision <= plans'[id].revision
    /\ plans'[id].revision = plans[id].revision => plans'[id] = plans[id]
    /\ plans[id].status # "none" => plans'[id].status # "none"
    /\ plans[id].status = "deleted" => plans'[id] = plans[id]
    /\ plans'[id].status = "none" => plans'[id].revision = 0
    /\ plans[id].body.kind \in Managed => plans'[id].body.kind \in Managed
    /\ plans'[id] # plans[id] => plans'[id].body.kind \in Managed

LEMMA DeliverGrows == ASSUME IInv, NEW c \in Calls, Deliver(c)
                      PROVE  Grow /\ plans' \in [Id -> Plan]
<1>1. \A id \in Id : plans[id] \in Plan /\ plans[id].revision \in Nat
  BY ConstantsAssumption DEF IInv, TypeOK, Plan
<1>2. CASE UNCHANGED plans
  BY <1>1, <1>2 DEF Grow, IInv, TypeOK
<1>3. CASE Fits(c) /\ plans' = [plans EXCEPT ![Target(c)] = After(c)]
  <2>1. wire[c] = "sent" /\ Target(c) \in Id
    BY DeliverCases, PreparedTarget
  <2>2. plans' \in [Id -> Plan] /\ plans'[Target(c)] = After(c)
    BY <1>3, <2>1, FittingCommand DEF IInv, TypeOK
  <2>3. plans[Target(c)].status # "deleted"
    BY <1>3, <2>1, FittingCommand DEF Live
  <2>4. ASSUME NEW id \in Id, id # Target(c) PROVE plans'[id] = plans[id]
    BY <1>3, <2>4 DEF IInv, TypeOK
  <2>5. QED
    BY <1>1, <1>3, <2>1, <2>2, <2>3, <2>4, FittingCommand DEF Grow, IInv
<1>4. QED
  BY <1>2, <1>3, DeliverCases

LEMMA DeliverTypes == ASSUME IInv, NEW c \in Calls, Deliver(c) PROVE TypeOK'
<1>1. PICK ans \in {"ok", "invalid", "conflict", "not_found", "error"} :
        /\ answer' = [answer EXCEPT ![c] = ans]
        /\ (Fits(c) /\ taken' = taken \cup {ChangeBy(c)}) \/ UNCHANGED taken
  BY DeliverCases
<1>2. wire[c] = "sent" /\ wire' = [wire EXCEPT ![c] = "closed"] /\ UNCHANGED <<world, call, offered>>
  BY DeliverCases
<1>3. Fits(c) => ChangeBy(c) \in Change
  BY <1>2, PreparedTarget, FittingCommand DEF ChangeBy, Change, IInv, TypeOK
<1>4. taken' \subseteq Change
  BY <1>1, <1>3 DEF IInv, TypeOK
<1>5. QED
  BY <1>1, <1>2, <1>4, DeliverGrows DEF IInv, TypeOK, world, call

LEMMA DeliverKeepsAnswer ==
    ASSUME IInv, NEW c \in Calls, Deliver(c), NEW d \in Calls
    PROVE  AnswerInv(d)'
<1>1. PICK ans \in {"ok", "invalid", "conflict", "not_found", "error"} :
        /\ answer' = [answer EXCEPT ![c] = ans]
        /\ \/ /\ Fits(c) /\ ans \in {"ok", "error"}
              /\ plans' = [plans EXCEPT ![Target(c)] = After(c)]
              /\ taken' = taken \cup {ChangeBy(c)}
           \/ UNCHANGED <<plans, taken>> /\ ans \in Denials(c)
  BY DeliverCases
<1>2. /\ wire[c] = "sent" /\ wire' = [wire EXCEPT ![c] = "closed"]
      /\ UNCHANGED <<req, pc, reply>>
  BY DeliverCases DEF call
<1>3. Target(d)' = Target(d)
  BY <1>2 DEF Target, Owner
<1>4. AnswerInv(c) /\ AnswerInv(d) /\ TypeOK
  BY DEF IInv
<1>5. CASE d # c
  <2>1. wire'[d] = wire[d] /\ answer'[d] = answer[d] /\ pc'[d] = pc[d] /\ reply'[d] = reply[d]
    BY <1>1, <1>2, <1>4, <1>5 DEF TypeOK
  <2>2. (\A h \in taken : h.by # d) => (\A h \in taken' : h.by # d)
    BY <1>1, <1>5 DEF ChangeBy
  <2>3. taken \subseteq taken'
    BY <1>1
  <2>4. answer[d] = "ok" => Target(d) \in Id
    BY <1>4, PreparedTarget DEF AnswerInv
  <2>5. QED
    BY <1>2, <1>3, <1>4, <2>1, <2>2, <2>3, <2>4, DeliverGrows DEF AnswerInv, Grow
<1>6. CASE d = c
  <2>1. wire'[c] = "closed" /\ answer'[c] = ans /\ pc'[c] \in {"wait", "done"}
        /\ reply'[c] = reply[c] /\ answer[c] = "none"
    BY <1>1, <1>2, <1>4 DEF TypeOK, AnswerInv
  <2>2. reply[c] # "completed" /\ reply[c] \notin Refusal
    BY <1>2, <1>4, <2>1 DEF AnswerInv
  <2>3. ans \in {"invalid", "conflict", "not_found"} => \A h \in taken' : h.by # c
    BY <1>1, <1>2, <1>4 DEF AnswerInv
  <2>4. ans = "ok" =>
          /\ req[c].op = "create" => plans'[Target(c)].status # "none"
          /\ req[c].op = "delete" => plans'[Target(c)].status = "deleted"
          /\ req[c].op \notin {"create", "delete"} => \E h \in taken' : h.by = c
    <3>1. CASE Fits(c) /\ plans' = [plans EXCEPT ![Target(c)] = After(c)] /\ taken' = taken \cup {ChangeBy(c)}
      <4>1. plans'[Target(c)] = After(c)
        BY <1>2, <1>4, <3>1, PreparedTarget DEF TypeOK
      <4>2. ChangeBy(c) \in taken' /\ ChangeBy(c).by = c
        BY <3>1 DEF ChangeBy
      <4>3. QED
        BY <1>2, <3>1, <4>1, <4>2, FittingCommand
    <3>2. CASE UNCHANGED <<plans, taken>> /\ ans \in Denials(c)
      BY <3>2, DenialCases DEF Replayed
    <3>3. QED
      BY <1>1, <3>1, <3>2
  <2>5. QED
    BY <1>2, <1>3, <1>4, <1>6, <2>1, <2>2, <2>3, <2>4 DEF AnswerInv
<1>7. QED
  BY <1>5, <1>6

LEMMA DeliverKeepsDenied ==
    ASSUME IInv, NEW c \in Calls, Deliver(c), NEW d \in Calls
    PROVE  DeniedInv(d)'
<1>1. PICK ans \in {"ok", "invalid", "conflict", "not_found", "error"} :
        /\ answer' = [answer EXCEPT ![c] = ans]
        /\ ans \in Denied => UNCHANGED plans /\ ans \in Denials(c)
  BY DeliverCases DEF Denied
<1>2. wire[c] = "sent" /\ UNCHANGED <<req, pc, reply>>
  BY DeliverCases DEF call
<1>3. /\ DeniedInv(d) /\ AnswerInv(d) /\ ShapeInv(c) /\ AnswerInv(c) /\ TypeOK
      /\ req[d] \in Requests /\ req[d].id \in Id /\ req[d].expected \in Nat
      /\ plans[req[d].id] \in Plan /\ plans[req[d].id].revision \in Nat
      /\ plans'[req[d].id] \in Plan /\ plans'[req[d].id].revision \in Nat
  BY RequestTypes, NumberTypes, DeliverGrows DEF IInv, TypeOK, Grow
<1>4. MovedOn(d) => MovedOn(d)'
  <2> DEFINE id == req[d].id
  <2>1. /\ plans[id].revision <= plans'[id].revision
        /\ plans'[id].revision = plans[id].revision => plans'[id] = plans[id]
        /\ plans[id].status = "deleted" => plans'[id] = plans[id]
    BY <1>3, DeliverGrows DEF Grow
  <2>2. QED
    BY <1>2, <1>3, <2>1 DEF MovedOn
<1>5. CASE d # c \/ ans \notin Denied
  <2>1. answer'[d] \in Denied => answer[d] \in Denied
    BY <1>1, <1>3, <1>5 DEF TypeOK
  <2>2. answer[d] \in Denied => answer'[d] \in Denied
    <3>1. answer[c] = "none"
      BY <1>2, <1>3 DEF AnswerInv
    <3>2. QED
      BY <1>1, <1>3, <3>1 DEF TypeOK, Denied
  <2>3. QED
    BY <1>2, <1>3, <1>4, <2>1, <2>2 DEF DeniedInv
<1>6. CASE d = c /\ ans \in Denied
  <2>1. ~Replayed(c) /\ ~Fits(c) /\ UNCHANGED plans /\ answer'[c] \in Denied
    BY <1>1, <1>3, <1>6, DenialCases DEF TypeOK
  <2>2. req[c].op # "create"
    BY <2>1 DEF Replayed, Fits
  <2>3. ASSUME req[c].op = "delete", ~Anticipate, req[c].id[1] = req[c].user PROVE MovedOn(c)
    <3>1. Target(c) = req[c].id /\ req[c].expected >= 1 /\ pc[c] # "idle"
      BY <1>2, <1>3, <2>3 DEF Target, ShapeInv, AnswerInv, Prepared, WellFormed
    <3>2. req[c].expected <= plans[req[c].id].revision
      BY <1>3, <2>3, <3>1 DEF ShapeInv
    <3>3. CASE Found(c)
      BY <1>3, <1>6, <2>1, <2>3, <3>1, <3>2, <3>3 DEF Fits, Expected, Found, MovedOn
    <3>4. CASE ~Found(c)
      <4>1. plans[req[c].id].status \in {"none", "deleted"}
        BY <1>3, <1>6, <2>3, <3>4 DEF Found, Owner, Plan, Status
      <4>2. plans[req[c].id].status # "none"
        BY <1>3, <1>6, <3>1, <3>2 DEF IInv
      <4>3. QED
        BY <2>1, <2>3, <3>1, <4>1, <4>2 DEF Replayed, Expected, Owner, MovedOn
    <3>5. QED
      BY <3>3, <3>4
  <2>4. QED
    BY <1>2, <1>4, <1>6, <2>1, <2>2, <2>3 DEF DeniedInv
<1>7. QED
  BY <1>5, <1>6

LEMMA DeliverKeepsShape ==
    ASSUME IInv, NEW c \in Calls, Deliver(c), NEW d \in Calls
    PROVE  ShapeInv(d)' /\ ToolsInv(d)'
<1>1. /\ wire[c] = "sent" /\ wire' = [wire EXCEPT ![c] = "closed"]
      /\ UNCHANGED <<catalog, req, pc, base, draft, offered>>
  BY DeliverCases DEF call, world
<1>2. Prepared(d)' = Prepared(d) /\ (wire'[d] # "none" <=> wire[d] # "none")
  BY <1>1 DEF Prepared, IInv, TypeOK
<1>3. req[d].id \in Id /\ ShapeInv(d) /\ ToolsInv(d)
  BY RequestTypes DEF IInv, TypeOK
<1>4. /\ base[d].revision \in Nat /\ req[d].expected \in Nat
      /\ plans[req[d].id].revision \in Nat /\ plans'[req[d].id].revision \in Nat
  <2>1. base[d] \in Plan /\ plans[req[d].id] \in Plan /\ plans'[req[d].id] \in Plan
    BY <1>3, DeliverGrows DEF IInv, TypeOK, Grow
  <2>2. QED
    BY <2>1, NumberTypes DEF IInv, TypeOK
<1>5. /\ Found(d)' => Found(d) \/ plans'[req[d].id] # plans[req[d].id]
      /\ WellFormed(d)' = WellFormed(d)
  BY <1>1 DEF Found, Owner, WellFormed, Detailed
<1>6. ASSUME UpdateInv(d) PROVE UpdateInv(d)'
  <2> DEFINE id == req[d].id
  <2>1. /\ plans[id].revision <= plans'[id].revision
        /\ plans'[id].revision = plans[id].revision => plans'[id] = plans[id]
        /\ plans[id].body.kind \in Managed => plans'[id].body.kind \in Managed
    BY <1>3, DeliverGrows DEF Grow
  <2>2. base[d].revision = plans'[id].revision => plans'[id].body = base[d].body
    BY <1>4, <1>6, <2>1 DEF UpdateInv
  <2>3. QED
    BY <1>1, <1>4, <1>6, <2>1, <2>2 DEF UpdateInv
<1>7. ShapeInv(d)'
  BY <1>1, <1>2, <1>3, <1>4, <1>5, <1>6, DeliverGrows DEF ShapeInv, Grow
<1>8. ToolsInv(d)'
  BY <1>1, <1>2, <1>3 DEF ToolsInv, Chooses
<1>9. QED
  BY <1>7, <1>8

LEMMA DeliverKeepsIInv == ASSUME IInv, NEW c \in Calls, Deliver(c) PROVE IInv'
<1>1. /\ wire[c] = "sent" /\ UNCHANGED <<req, offered>>
      /\ \/ Fits(c) /\ plans' = [plans EXCEPT ![Target(c)] = After(c)] /\ taken' = taken \cup {ChangeBy(c)}
         \/ UNCHANGED <<plans, taken>>
  BY DeliverCases DEF call
<1>2. \A h \in taken : TakenInv(h) /\ h \in Change
  BY DEF IInv, TypeOK
<1>3. ASSUME NEW h \in taken PROVE TakenInv(h)'
  <2>1. /\ h.id \in Id /\ h.after.revision \in Nat /\ plans[h.id].revision \in Nat
        /\ plans'[h.id].revision \in Nat
    <3>1. h.id \in Id /\ h.after \in Plan
      BY <1>2, <1>3 DEF Change
    <3>2. plans[h.id] \in Plan /\ plans'[h.id] \in Plan
      BY <3>1, DeliverGrows DEF IInv, TypeOK, Grow
    <3>3. QED
      BY <3>1, <3>2, ConstantsAssumption DEF Plan
  <2>2. Target(h.by)' = Target(h.by)
    BY <1>1 DEF Target, Owner
  <2>3. QED
    BY <1>1, <1>2, <1>3, <2>1, <2>2, DeliverGrows DEF TakenInv, Kept, Listed, Grow
<1>4. ASSUME NEW new, new = ChangeBy(c), Fits(c), plans' = [plans EXCEPT ![Target(c)] = After(c)]
      PROVE  /\ TakenInv(new)'
             /\ \A h \in taken : h.id = new.id => h.after.revision < new.after.revision
  <2>1. /\ new.by = c /\ new.id = Target(c) /\ new.before = plans[Target(c)] /\ new.after = After(c)
    BY <1>4 DEF ChangeBy
  <2>2. /\ Target(c) \in Id /\ plans'[Target(c)] = After(c) /\ plans[Target(c)].revision \in Nat
        /\ After(c).revision = plans[Target(c)].revision + 1
    <3>1. Target(c) \in Id
      BY <1>1, PreparedTarget
    <3>2. plans[Target(c)] \in Plan
      BY <3>1 DEF IInv, TypeOK
    <3>3. QED
      BY <1>1, <1>4, <3>1, <3>2, FittingCommand, ConstantsAssumption DEF IInv, TypeOK, Plan
  <2>3. new.id[1] = req[c].user
    <3>1. CASE req[c].op = "create"
      BY <2>1, <3>1 DEF Target, Owner
    <3>2. CASE req[c].op # "create"
      BY <1>1, <1>4, <2>1, <3>2, FittingCommand DEF Target
    <3>3. QED
      BY <3>1, <3>2
  <2>4. ~Anticipate => Kept(new) /\ Listed(new)
    BY <1>1, <1>4, ChangeKeepsProperties
  <2>5. Kept(new)' = Kept(new) /\ Listed(new)' = Listed(new) /\ Target(c)' = Target(c)
    BY <1>1 DEF Kept, Listed, Target, Owner
  <2>6. /\ new.before.status # "none" => new.before.body.kind \in Managed
        /\ After(c).status # "none"
        /\ req[c].op = "create" => new.after.revision = 1
        /\ req[c].op # "create" => new.after.revision = req[c].expected + 1
        /\ req[c].op = "delete" => After(c).status = "deleted"
    BY <1>1, <1>4, <2>1, FittingCommand
  <2>7. TakenInv(new)'
    BY <1>1, <2>1, <2>2, <2>3, <2>4, <2>5, <2>6 DEF TakenInv
  <2>8. ASSUME NEW h \in taken, h.id = new.id PROVE h.after.revision < new.after.revision
    <3>1. h.after \in Plan /\ h.after.revision <= plans[Target(c)].revision
      BY <1>2, <2>1, <2>8 DEF Change, TakenInv
    <3>2. h.after.revision \in Nat
      BY <3>1, ConstantsAssumption DEF Plan
    <3>3. QED
      BY <2>1, <2>2, <3>1, <3>2
  <2>9. QED
    BY <2>7, <2>8
<1>5. CASE UNCHANGED <<plans, taken>>
  BY <1>3, <1>5, DeliverTypes, DeliverKeepsAnswer, DeliverKeepsDenied, DeliverKeepsShape DEF IInv, Numbered
<1>6. ASSUME NEW new, new = ChangeBy(c), Fits(c), plans' = [plans EXCEPT ![Target(c)] = After(c)],
             taken' = taken \cup {new}
      PROVE  IInv'
  <2>1. /\ TakenInv(new)'
        /\ \A h \in taken : h.id = new.id => h.after.revision < new.after.revision
    BY <1>4, <1>6
  <2>2. \A h \in taken' : h.after.revision \in Nat
    <3>1. \A h \in taken' : h.after \in Plan
      BY DeliverTypes DEF TypeOK, Change
    <3>2. QED
      BY <3>1, ConstantsAssumption DEF Plan
  <2>3. Numbered'
    BY <1>6, <2>1, <2>2 DEF Numbered, IInv
  <2>4. \A h \in taken' : TakenInv(h)'
    BY <1>3, <1>6, <2>1
  <2>5. \A id \in Id : plans'[id].status = "none" => plans'[id].revision = 0
    BY DeliverGrows DEF Grow
  <2>6. QED
    BY <2>3, <2>4, <2>5, DeliverTypes, DeliverKeepsAnswer, DeliverKeepsDenied, DeliverKeepsShape DEF IInv
<1>7. QED
  BY <1>1, <1>5, <1>6

-----------------------------------------------------------------------------
(* The world *)

LEMMA WorldKeepsIInv == ASSUME IInv, World PROVE IInv' /\ UNCHANGED <<plans, taken, req>>
<1>1. /\ UNCHANGED <<plans, taken, call, talk>>
      /\ changes < MaxChanges /\ changes' = changes + 1
      /\ SetPolicy \/ SetCatalog
  BY DEF World
<1>2. /\ catalog' \in [Users -> SUBSET Tools] /\ offered' \in [Calls -> SUBSET Tools]
      /\ policy' \in {"deny", "grant", "confirm"}
      /\ \A c \in Calls : offered[c] \subseteq offered'[c]
      /\ \A c \in Calls : pc[c] \in {"authorize", "reauthorize", "lookup", "catalog"} =>
            catalog'[req[c].user] \subseteq offered'[c]
  <2>1. CASE SetPolicy
    BY <2>1 DEF SetPolicy, IInv, TypeOK, ToolsInv
  <2>2. CASE SetCatalog
    <3>1. catalog' \in [Users -> SUBSET Tools] /\ UNCHANGED policy
      BY <2>2 DEF SetCatalog, IInv, TypeOK
    <3>2. \A c \in Calls : catalog'[req[c].user] \in SUBSET Tools
      BY <3>1, RequestTypes DEF IInv, TypeOK
    <3>3. offered' = [c \in Calls |->
            IF pc[c] \in {"idle", "wait", "done"} THEN offered[c] ELSE offered[c] \cup catalog'[req[c].user]]
      BY <2>2 DEF SetCatalog
    <3>4. QED
      BY <3>1, <3>2, <3>3 DEF IInv, TypeOK
  <2>3. QED
    BY <1>1, <2>1, <2>2
<1>3. TypeOK'
  <2>1. changes' \in 0..MaxChanges
    BY <1>1, ConstantsAssumption DEF IInv, TypeOK
  <2>2. QED
    BY <1>1, <1>2, <2>1 DEF IInv, TypeOK, call, talk
<1>4. ASSUME NEW c \in Calls PROVE (AnswerInv(c) /\ DeniedInv(c) /\ ShapeInv(c) /\ ToolsInv(c))'
  <2>1. AnswerInv(c) /\ DeniedInv(c) /\ ShapeInv(c) /\ ToolsInv(c)
    BY DEF IInv
  <2>2. AnswerInv(c)'
    BY <1>1, <2>1 DEF AnswerInv, Target, Owner, call, talk
  <2>3. ShapeInv(c)'
    BY <1>1, <2>1 DEF ShapeInv, Prepared, UpdateInv, Found, Owner, WellFormed, Detailed, call, talk
  <2>4. ToolsInv(c)'
    BY <1>1, <1>2, <2>1 DEF ToolsInv, Chooses, call, talk
  <2>5. DeniedInv(c)'
    BY <1>1, <2>1 DEF DeniedInv, MovedOn, call, talk
  <2>6. QED
    BY <2>2, <2>3, <2>4, <2>5
<1>5. ASSUME NEW h \in taken PROVE TakenInv(h)'
  <2>1. h.by \in Calls /\ TakenInv(h)
    BY DEF IInv, TypeOK, Change
  <2>2. Target(h.by)' = Target(h.by)
    BY <1>1 DEF Target, Owner, call
  <2>3. QED
    BY <1>1, <1>2, <2>1, <2>2 DEF TakenInv, Kept, Listed, call
<1>6. QED
  BY <1>1, <1>3, <1>4, <1>5 DEF IInv, Numbered, call

-----------------------------------------------------------------------------
(* The theorems *)

LEMMA InitIInv == Init => IInv
<1> SUFFICES ASSUME Init PROVE IInv
  OBVIOUS
<1>1. plans \in [Id -> Plan] /\ \A id \in Id : plans[id].status = "none" => plans[id].revision = 0
  BY ConstantsAssumption DEF Init, NoPlan
<1>2. NoPlan \in Plan
  BY ConstantsAssumption DEF NoPlan, Plan, Status
<1>3. TypeOK
  BY <1>1, <1>2, ConstantsAssumption DEF Init, TypeOK, Stage, Reply
<1>4. ASSUME NEW c \in Calls PROVE AnswerInv(c) /\ DeniedInv(c) /\ ShapeInv(c) /\ ToolsInv(c)
  BY DEF Init, AnswerInv, DeniedInv, Denied, ShapeInv, ToolsInv, Prepared, Refusal
<1>5. QED
  BY <1>1, <1>3, <1>4 DEF Init, IInv, Numbered

LEMMA StutterKeepsIInv == ASSUME IInv, UNCHANGED vars PROVE IInv'
<1>1. TypeOK' /\ Numbered' /\ \A id \in Id : plans'[id].status = "none" => plans'[id].revision = 0
  BY DEF IInv, TypeOK, Numbered, vars, world, call, talk
<1>2. ASSUME NEW c \in Calls PROVE (AnswerInv(c) /\ DeniedInv(c) /\ ShapeInv(c) /\ ToolsInv(c))'
  <2>1. (AnswerInv(c) /\ DeniedInv(c))'
    BY DEF IInv, AnswerInv, DeniedInv, MovedOn, Target, Owner, vars, world, call, talk
  <2>2. (ShapeInv(c) /\ ToolsInv(c))'
    BY DEF IInv, ShapeInv, ToolsInv, Chooses, Prepared, UpdateInv, Found, Owner, WellFormed, Detailed,
           vars, world, call, talk
  <2>3. QED
    BY <2>1, <2>2
<1>3. ASSUME NEW h \in taken PROVE TakenInv(h)'
  BY DEF IInv, TakenInv, Kept, Listed, Target, Owner, vars, world, call, talk
<1>4. QED
  BY <1>1, <1>2, <1>3 DEF IInv, vars

LEMMA NextIInv == IInv /\ [Next]_vars => IInv'
BY StepKeepsIInv, DeliverKeepsIInv, WorldKeepsIInv, StutterKeepsIInv DEF Next, AllDone

LEMMA AlwaysIInv == Spec => []IInv
BY InitIInv, NextIInv, PTL DEF Spec

\* Types hold throughout, whatever the constants.
THEOREM TypeCorrect == Spec => []TypeOK
<1>1. IInv => TypeOK
  BY DEF IInv
<1>2. QED
  BY <1>1, AlwaysIInv, PTL

\* One idempotency key of a user opens at most one plan: its creations would be
\* two changes of one plan that both have the first revision.
THEOREM OnePlan == Spec => []OnePlanPerKey
<1>1. IInv => OnePlanPerKey
  <2> SUFFICES ASSUME IInv, NEW g \in taken, NEW h \in taken,
                      req[g.by].op = "create", req[h.by].op = "create",
                      req[g.by].user = req[h.by].user, req[g.by].key = req[h.by].key
               PROVE  g = h
    BY DEF OnePlanPerKey
  <2>1. g.id = h.id
    BY DEF IInv, TakenInv, Target, Owner, ClientID
  <2>2. g.after.revision = 1 /\ h.after.revision = 1
    BY DEF IInv, TakenInv
  <2>3. QED
    BY <2>1, <2>2 DEF IInv, Numbered
<1>2. QED
  BY <1>1, AlwaysIInv, PTL

\* A command changes a plan at most once, however often it is sent: it would
\* make the same revision of the same plan again.
THEOREM RetriesAreHarmless == Spec => []RetriesChangeOnce
<1>1. IInv => RetriesChangeOnce
  <2> SUFFICES ASSUME IInv, NEW g \in taken, NEW h \in taken, SameCommand(g.by, h.by)
               PROVE  g = h
    BY DEF RetriesChangeOnce
  <2>1. req[g.by] \in Request /\ req[h.by] \in Request
    BY ConstantsAssumption DEF IInv, TypeOK, Change
  <2>2. /\ req[g.by].op = req[h.by].op /\ req[g.by].user = req[h.by].user
        /\ req[g.by].key = req[h.by].key /\ req[g.by].id = req[h.by].id
        /\ req[g.by].expected = req[h.by].expected
    BY <2>1 DEF SameCommand, Request
  <2>3. g.id = h.id /\ g.after.revision = h.after.revision
    BY <2>2 DEF IInv, TakenInv, Target, Owner, ClientID
  <2>4. QED
    BY <2>3 DEF IInv, Numbered
<1>2. QED
  BY <1>1, AlwaysIInv, PTL

\* Plans change by calls of their own user, and only plans of this application.
THEOREM ForeignPlansAreSafe == Spec => []OnlyOwnPlansChange
<1>1. IInv => OnlyOwnPlansChange
  BY DEF IInv, TakenInv, OnlyOwnPlansChange
<1>2. QED
  BY <1>1, AlwaysIInv, PTL

\* What the host is told of a call is true and stays true, whatever revisions
\* callers name.
LEMMA AnswersOfCalls == Spec => [](RefusedMeansUntaken /\ CompletedMeansTaken)
<1>1. IInv => RefusedMeansUntaken
  BY DEF IInv, AnswerInv, RefusedMeansUntaken, Refusal
<1>2. IInv => CompletedMeansTaken
  BY DEF IInv, AnswerInv, CompletedMeansTaken
<1>3. QED
  BY <1>1, <1>2, AlwaysIInv, PTL

\* When callers name only revisions they have been shown, what the host is told of
\* a call is final, and so is what a reconciliation says of a creation or deletion.
THEOREM AnswersAreFinal == ASSUME ~Anticipate PROVE Spec => []AnswersAreTrue
<1>1. IInv => ReconciledMeansReplayed
  <2> SUFFICES ASSUME IInv, NEW c \in Calls, NEW h \in taken,
                      req[c].mode = "reconcile", req[c].op \in {"create", "delete"},
                      SameCommand(c, h.by), reply[c] \in {"conflict", "not_found"}
               PROVE  FALSE
    BY DEF ReconciledMeansReplayed
  <2>1. DeniedInv(c) /\ TakenInv(h)
    BY DEF IInv
  <2>2. answer[c] \in Denied /\ req[c].op = "delete"
    BY <2>1 DEF DeniedInv, Denied
  <2>3. req[c].id[1] # req[c].user \/ MovedOn(c)
    BY <2>1, <2>2 DEF DeniedInv
  <2>4. req[c] \in Request /\ req[h.by] \in Request
    BY ConstantsAssumption DEF IInv, TypeOK, Change
  <2>5. /\ req[h.by].op = "delete" /\ req[h.by].user = req[c].user
        /\ req[h.by].id = req[c].id /\ req[h.by].expected = req[c].expected
    BY <2>2, <2>4 DEF SameCommand, Request
  <2>6. h.id = req[c].id /\ h.id[1] = req[c].user
    BY <2>1, <2>5 DEF TakenInv, Target
  <2>7. plans[h.id].status = "deleted" /\ plans[h.id].revision = req[c].expected + 1
    BY <2>1, <2>5 DEF TakenInv
  <2>8. QED
    BY <2>3, <2>6, <2>7 DEF MovedOn
<1>2. QED
  BY <1>1, AnswersOfCalls, AlwaysIInv, PTL DEF AnswersAreTrue

\* When callers name only revisions they have been shown, an update leaves alone
\* what it does not name.
THEOREM FieldsAreKept == ASSUME ~Anticipate PROVE Spec => []UntouchedFieldsKept
<1>1. IInv => UntouchedFieldsKept
  BY DEF IInv, TakenInv, Kept, UntouchedFieldsKept
<1>2. QED
  BY <1>1, AlwaysIInv, PTL

\* Under the same condition, a task gets a goal or tools only while its tools
\* are listed to its user.
THEOREM ToolsAreListed == ASSUME ~Anticipate PROVE Spec => []TaskToolsWereListed
<1>1. IInv => TaskToolsWereListed
  BY DEF IInv, TakenInv, Listed, TaskToolsWereListed
<1>2. QED
  BY <1>1, AlwaysIInv, PTL

LEMMA DeliverRefines == ASSUME IInv, NEW c \in Calls, Deliver(c), ~Anticipate PROVE [Book!Next]_plans
<1> DEFINE id == Target(c)
           old == plans[id]
<1>1. CASE UNCHANGED plans
  BY <1>1
<1>2. CASE Fits(c) /\ plans' = [plans EXCEPT ![Target(c)] = After(c)]
  <2>1. wire[c] = "sent" /\ id \in Id /\ DOMAIN plans = Id /\ req[c] \in Requests /\ req[c].op \in Op
    BY DeliverCases, PreparedTarget, RequestTypes DEF IInv, TypeOK
  <2>2. CASE req[c].op = "create"
    <3>1. draft[c] = req[c].patch /\ req[c].patch.kind \in Managed
      BY <2>1, <2>2, RequestTypes DEF IInv, ShapeInv, Prepared
    <3>2. old.status = "none"
      BY <1>2, <2>1, <2>2, FittingCommand
    <3>3. After(c) = [status |-> "enabled", revision |-> 1, body |-> req[c].patch]
      BY <2>2, <3>1 DEF After
    <3>4. Book!Create(id, req[c].patch)
      BY <1>2, <3>1, <3>2, <3>3 DEF Book!Create
    <3>5. QED
      BY <2>1, <3>4 DEF Book!Next
  <2>3. CASE req[c].op # "create"
    <3>1. Book!Open(old)
      BY <1>2, <2>1, <2>3, FittingCommand DEF Book!Open, Live
    <3>2. CASE req[c].op = "update"
      <4>1. draft[c] = Merge(old.body, req[c].patch)
        BY <1>2, <2>1, <3>2, UpdateIsCurrent, FittingCommand
      <4>2. After(c) = [old EXCEPT !.revision = old.revision + 1, !.body = Merge(old.body, req[c].patch)]
        BY <3>2, <4>1 DEF After
      <4>3. Book!Edit(id, req[c].patch)
        BY <1>2, <3>1, <4>2 DEF Book!Edit, Book!Put, Merge, Put
      <4>4. QED
        BY <2>1, <4>3 DEF Book!Next
    <3>3. ASSUME NEW s \in {"enabled", "paused", "deleted"},
                 After(c) = [old EXCEPT !.revision = old.revision + 1, !.status = s]
          PROVE  Book!Next
      <4>1. Book!SetStatus(id, s)
        BY <1>2, <3>1, <3>3 DEF Book!SetStatus
      <4>2. QED
        BY <2>1, <4>1 DEF Book!Next
    <3>4. QED
      BY <2>1, <2>3, <3>2, <3>3 DEF After, Op
  <2>4. QED
    BY <2>2, <2>3
<1>3. QED
  BY <1>1, <1>2, DeliverCases

\* When callers name only revisions they have been shown, every operation
\* happens at once on the plan as it is at that moment.
THEOREM Refinement == ASSUME ~Anticipate PROVE Spec => ImplementsBook
<1>1. Init => Book!Init
  BY DEF Init, Book!Init
<1>2. IInv /\ [Next]_vars => [Book!Next]_plans
  <2>1. ASSUME IInv, NEW c \in Calls, Step(c) PROVE UNCHANGED plans
    BY <2>1, StepTypes
  <2>2. ASSUME IInv, World PROVE UNCHANGED plans
    BY <2>2, WorldKeepsIInv
  <2>3. QED
    BY <2>1, <2>2, DeliverRefines DEF Next, AllDone, vars
<1>3. QED
  BY <1>1, <1>2, AlwaysIInv, PTL DEF Spec, ImplementsBook, Book!Spec

\* Every change of a plan is one command of the plan's own user that moves its
\* revision on by one, and a deleted plan stays deleted, even for callers that
\* anticipate revisions they were not shown.
PlansMoveOn ==
    [][\A id \in Id : plans'[id] # plans[id] =>
         /\ plans[id].status # "deleted" /\ plans'[id].status # "none"
         /\ plans'[id].revision = plans[id].revision + 1
         /\ \E c \in Calls : req[c].user = id[1] /\ wire[c] = "sent" /\ wire'[c] = "closed"]_vars

\* No interleaving of create, update, setStatus and delete skips a revision,
\* uses one twice or revives a plan.
THEOREM RevisionsCount == Spec => PlansMoveOn
<1> DEFINE MovesOn(id) ==
        /\ plans[id].status # "deleted" /\ plans'[id].status # "none"
        /\ plans'[id].revision = plans[id].revision + 1
        /\ \E c \in Calls : req[c].user = id[1] /\ wire[c] = "sent" /\ wire'[c] = "closed"
<1>1. ASSUME IInv, NEW c \in Calls, Deliver(c), NEW id \in Id, plans'[id] # plans[id] PROVE MovesOn(id)
  <2>1. /\ wire[c] = "sent" /\ wire' = [wire EXCEPT ![c] = "closed"]
        /\ Fits(c) /\ plans' = [plans EXCEPT ![Target(c)] = After(c)]
    BY <1>1, DeliverCases
  <2>2. id = Target(c) /\ plans'[id] = After(c)
    BY <1>1, <2>1 DEF IInv, TypeOK
  <2>3. req[c].user = id[1]
    BY <1>1, <2>1, <2>2, PreparedTarget, FittingCommand DEF Target, Owner
  <2>4. plans[id].status # "deleted"
    BY <1>1, <2>1, <2>2, FittingCommand DEF Live
  <2>5. plans'[id].status # "none" /\ plans'[id].revision = plans[id].revision + 1
    BY <1>1, <2>1, <2>2, FittingCommand
  <2>6. wire'[c] = "closed"
    BY <1>1, <2>1 DEF IInv, TypeOK
  <2>7. QED
    BY <2>1, <2>3, <2>4, <2>5, <2>6
<1>2. IInv /\ [Next]_vars => \A id \in Id : plans'[id] # plans[id] => MovesOn(id)
  <2>1. ASSUME IInv, NEW c \in Calls, Step(c) PROVE UNCHANGED plans
    BY <2>1, StepTypes
  <2>2. ASSUME IInv, World PROVE UNCHANGED plans
    BY <2>2, WorldKeepsIInv
  <2> HIDE DEF MovesOn
  <2>3. QED
    BY <1>1, <2>1, <2>2 DEF Next, AllDone, vars
<1>3. IInv /\ [Next]_vars => [\A id \in Id : plans'[id] # plans[id] => MovesOn(id)]_vars
  BY <1>2
<1>4. QED
  BY <1>3, AlwaysIInv, PTL DEF Spec, PlansMoveOn

-----------------------------------------------------------------------------
(* How often a call asks *)

\* The stages of a call, by what is left of it.
Place ==
    [idle |-> 5, authorize |-> 4, reauthorize |-> 3, lookup |-> 3, catalog |-> 2, wait |-> 1,
     done |-> 0]

\* Every step of a call brings it nearer to its answer, and it does not end without
\* one; nobody else moves it; what was answered is not answered again. And it sends
\* one command at most, which is decided on once.
CallsRunDown ==
    [][\A c \in Calls :
          /\ pc[c] = "done" <=> reply[c] # "none"
          /\ Step(c) => Place[pc'[c]] < Place[pc[c]]
          /\ ~Step(c) => UNCHANGED <<pc[c], reply[c]>>
          /\ reply[c] # "none" => UNCHANGED <<pc[c], reply[c]>>
          /\ \/ UNCHANGED wire[c]
             \/ wire[c] = "none" /\ wire'[c] = "sent" /\ Step(c)
             \/ wire[c] = "sent" /\ wire'[c] = "closed"
          /\ answer[c] # "none" => UNCHANGED answer[c]]_vars

\* An answered call is one that is done.
EndInv(c) == pc[c] = "done" => reply[c] # "none"

\* What a step does to its own call.
RunsDown(c) ==
    /\ Place[pc'[c]] < Place[pc[c]]
    /\ EndInv(c)'
    /\ UNCHANGED wire[c] \/ (wire[c] = "none" /\ wire'[c] = "sent")

LEMMA PrepareRunsDown ==
    ASSUME IInv, NEW c \in Calls, pc[c] \in {"reauthorize", "lookup"}, NEW body, NEW misfit,
           misfit # "none", Prepare(c, body, misfit)
    PROVE  RunsDown(c)
<1>1. wire[c] = "none" /\ reply[c] = "none"
  BY DEF IInv, AnswerInv
<1>2. QED
  BY <1>1 DEF Prepare, Refuse, Send, Finish, Goto, RunsDown, EndInv, Place, IInv, TypeOK

LEMMA SendRunsDown ==
    ASSUME IInv, NEW c \in Calls, pc[c] \in {"lookup", "catalog"}, NEW body, Send(c, body)
    PROVE  RunsDown(c)
<1>1. wire[c] = "none" /\ reply[c] = "none"
  BY DEF IInv, AnswerInv
<1>2. QED
  BY <1>1 DEF Send, Goto, RunsDown, EndInv, Place, IInv, TypeOK

LEMMA RefuseRunsDown ==
    ASSUME IInv, NEW c \in Calls, pc[c] \in {"reauthorize", "lookup", "catalog"}, NEW status,
           status # "none", Refuse(c, status)
    PROVE  RunsDown(c)
BY DEF Refuse, Finish, Goto, RunsDown, EndInv, Place, IInv, TypeOK

LEMMA StepRunsDown == ASSUME IInv, NEW c \in Calls, Step(c) PROVE RunsDown(c)
<1>1. CASE Begin(c)
  BY <1>1 DEF Begin, Goto, talk, RunsDown, EndInv, Place, IInv, TypeOK
<1>2. CASE Authorize(c)
  BY <1>2 DEF Authorize, Finish, Goto, talk, RunsDown, EndInv, Place, IInv, TypeOK
<1>3. CASE Reauthorize(c)
  BY <1>3, PrepareRunsDown, RefuseRunsDown DEF Reauthorize
<1>4. CASE Lookup(c)
  <2>1. pc[c] = "lookup"
    BY <1>4 DEF Lookup
  <2>2. \/ \E status : status # "none" /\ Refuse(c, status)
        \/ \E body : Send(c, body) \/ Prepare(c, body, "unavailable")
    BY <1>4 DEF Lookup, Missing
  <2>3. QED
    BY <2>1, <2>2, PrepareRunsDown, SendRunsDown, RefuseRunsDown
<1>5. CASE ReadCatalog(c)
  BY <1>5, SendRunsDown, RefuseRunsDown DEF ReadCatalog
<1>6. CASE Conclude(c)
  BY <1>6 DEF Conclude, mapSchedulerError, Finish, Goto, talk, RunsDown, EndInv, Place, IInv, TypeOK
<1>7. CASE Fail(c)
  BY <1>7 DEF Fail, Finish, Goto, talk, RunsDown, EndInv, Place, IInv, TypeOK
<1>8. QED
  BY <1>1, <1>2, <1>3, <1>4, <1>5, <1>6, <1>7 DEF Step

\* The scheduler decides on commands under way, and does not move a call.
LEMMA DeliverLeavesCalls ==
    ASSUME IInv, NEW d \in Calls, Deliver(d), NEW c \in Calls
    PROVE  /\ UNCHANGED <<pc[c], reply[c]>>
           /\ UNCHANGED wire[c] \/ (wire[c] = "sent" /\ wire'[c] = "closed")
           /\ answer[c] # "none" => UNCHANGED answer[c]
<1>1. UNCHANGED <<pc, reply>>
  BY DEF Deliver, call
<1>2. wire[d] = "sent" /\ wire' = [wire EXCEPT ![d] = "closed"]
  BY DEF Deliver
<1>3. answer[d] = "none"
  BY <1>2 DEF IInv, AnswerInv
<1>4. \E ans : answer' = [answer EXCEPT ![d] = ans]
  BY DEF Deliver
<1>5. QED
  BY <1>1, <1>2, <1>3, <1>4 DEF IInv, TypeOK

\* Invoke and Reconcile take at most five steps of their own and send one command
\* at most: a lost answer is not asked for again, and an answer given stays.
THEOREM CallsComeToAnEnd == Spec => CallsRunDown
<1> DEFINE Ends == \A c \in Calls : EndInv(c)
           Down(c) ==
              /\ pc[c] = "done" <=> reply[c] # "none"
              /\ Step(c) => Place[pc'[c]] < Place[pc[c]]
              /\ ~Step(c) => UNCHANGED <<pc[c], reply[c]>>
              /\ reply[c] # "none" => UNCHANGED <<pc[c], reply[c]>>
              /\ \/ UNCHANGED wire[c]
                 \/ wire[c] = "none" /\ wire'[c] = "sent" /\ Step(c)
                 \/ wire[c] = "sent" /\ wire'[c] = "closed"
              /\ answer[c] # "none" => UNCHANGED answer[c]
<1>1. Init => Ends
  BY DEF Init, EndInv
<1>2. ASSUME IInv, Ends, [Next]_vars, NEW c \in Calls PROVE Down(c) /\ EndInv(c)'
  <2>1. EndInv(c) /\ (pc[c] = "done" <=> reply[c] # "none")
    BY <1>2 DEF EndInv, IInv, AnswerInv
  <2>2. CASE Step(c)
    <3>1. RunsDown(c) /\ UNCHANGED answer
      BY <1>2, <2>2, StepRunsDown, StepTypes
    <3>2. pc[c] # "done"
      BY <2>2 DEF Step, Begin, Authorize, Reauthorize, Lookup, ReadCatalog, Conclude, Fail
    <3>3. QED
      BY <2>1, <2>2, <3>1, <3>2 DEF RunsDown
  <2>3. ASSUME NEW d \in Calls, d # c, Step(d) PROVE UNCHANGED <<pc[c], reply[c], wire[c], answer[c]>>
    BY <1>2, <2>3, StepFrame, StepTypes DEF Same
  <2>4. ASSUME NEW d \in Calls, Deliver(d), ~Step(c) PROVE Down(c) /\ EndInv(c)'
    BY <1>2, <2>1, <2>4, DeliverLeavesCalls DEF EndInv
  <2>5. CASE World \/ UNCHANGED vars
    <3>1. UNCHANGED <<pc, reply, wire, answer>>
      BY <2>5 DEF World, call, talk, vars
    <3>2. QED
      BY <2>1, <2>2, <3>1 DEF EndInv
  <2>6. CASE ~Step(c) /\ \E d \in Calls : Step(d)
    BY <2>1, <2>3, <2>6 DEF EndInv
  <2> HIDE DEF Down
  <2>7. QED
    BY <1>2, <2>2, <2>4, <2>5, <2>6 DEF Next, AllDone
<1>3. IInv /\ Ends /\ [Next]_vars => Ends'
  <2> HIDE DEF Down
  <2>1. QED
    BY <1>2
<1>4. IInv /\ Ends /\ [Next]_vars => [\A c \in Calls : Down(c)]_vars
  <2> HIDE DEF Down
  <2>1. QED
    BY <1>2
<1> HIDE DEF Ends
<1>5. QED
  BY <1>1, <1>3, <1>4, AlwaysIInv, PTL DEF Spec, CallsRunDown
===============================================================================
