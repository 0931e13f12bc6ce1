----------------------------- MODULE AccountWrite -----------------------------
(***************************************************************************)
(* One account write as the tools module performs it: the selection's      *)
(* authorization and argument checks (registry.go), the write adapter's    *)
(* AuthorizeTool / execute / AuthorizeResult (accounttools/write.go), the  *)
(* remote validation a family may run right before the effect              *)
(* (mcptools/adapter.go), and the external parties they talk to: the host  *)
(* policy, the subject resolver, the durable approvals, the account and    *)
(* the Integration ledger that owns the receipts.                          *)
(*                                                                         *)
(* Several attempts run concurrently. Every question an attempt asks an    *)
(* external party is a step of its own, and between two steps anything     *)
(* external may change. `changes' bounds how often that happens.           *)
(*                                                                         *)
(* An operator Bug_X is the definition X with a plausible bug in it. No     *)
(* specification uses one: each shows that a property notices that bug.    *)
(***************************************************************************)
EXTENDS Naturals, FiniteSets

CONSTANTS
    Attempts,      \* calls the host makes: invocations, reconciliations, inspections
    Keys,          \* the host's idempotency keys
    NoKey,         \* the blank idempotency key
    Contents,      \* what the model may ask for: target and payload
    WellShaped,    \* the contents the advertised input schema accepts
    Valid,         \* the contents the family's Prepare accepts too
    Subjects,      \* the subjects the host may resolve the caller to
    NoSubject,     \* the resolver denies the account action
    MaxRevision,   \* bound: how often the account is replaced
    MaxChanges,    \* bound: how often anything external changes
    Requests,      \* the requests the host may make
    BeforeWrite    \* the family validates remotely before a new effect (MCP)

Revision == 0..MaxRevision

\* A call: its idempotency key, what it asks for, and the account revision the
\* caller was shown (the argument account_updated_at).
Call == [key : Keys \cup {NoKey}, content : Contents, revision : Revision]

Kind == {"invoke", "reconcile", "inspect"}

ASSUME ConstantsAssumption ==
    /\ NoKey \notin Keys
    /\ Valid \subseteq WellShaped
    /\ WellShaped \subseteq Contents
    /\ NoSubject \notin Subjects
    /\ MaxRevision \in Nat
    /\ MaxChanges \in Nat
    /\ Requests \subseteq [kind : Kind, token : BOOLEAN, call : Call]
    /\ BeforeWrite \in BOOLEAN

NoCall == [key |-> NoKey, content |-> NoKey, revision |-> 0]
NoRequest == [kind |-> "none", token |-> FALSE, call |-> NoCall]

VARIABLES
    policy,     \* what the host's Authorize answers: "deny", "grant", "confirm"
    subject,    \* what the subject resolver answers
    grants,     \* the account actions the owner grants the subject
    revision,   \* the account's current AccountUpdatedAt
    catalog,    \* contents the remote tool catalog lists and accepts
    approval,   \* the durable approval of each call
    ledger,     \* the owner's receipt for each request ID
    effects,    \* history: what the provider has done
    shown,      \* history: <<content, revision>> the remote catalog has offered
    changes,    \* number of external changes so far
    pc,         \* where each attempt stands
    phase,      \* which of its authorizations the attempt is in
    req,        \* the request of each attempt
    who,        \* the subject an attempt writes as, bound by its last access check
    source,     \* the account revision that check returned
    wire,       \* the attempt's message to the owner
    answer,     \* the owner's answer to it
    result,     \* what the attempt reported to the host
    lapsed      \* history: approval was withdrawn before remote validation ended

world    == <<policy, subject, grants, revision, catalog, approval, shown, changes>>
owner    == <<ledger, effects>>
progress == <<pc, phase, req, who, source, result, lapsed>>
talk     == <<wire, answer>>
vars     == <<world, owner, progress, talk>>

-----------------------------------------------------------------------------
(* Types *)

Stage == {"idle", "host", "account", "confirm", "resolve", "validate", "revalidate",
          "rebind", "send", "wait", "release", "disclose", "done"}

\* The owner's receipt: the call it stands for and the account revision it was
\* accepted on. An effect is what the provider did for a receipt.
Receipt == [status : {"none", "pending", "succeeded", "failed"},
            call : Call \cup {NoCall}, revision : Revision]
NoReceipt == [status |-> "none", call |-> NoCall, revision |-> 0]
Effect == [call : Call, revision : Revision]

\* The owner request ID is derived from the runtime and the host's idempotency
\* key only; content, account and action never enter it.
Bug_RequestIDFromContent(c) == <<c.key, c.content>>
RequestID(c) == c.key
RequestIDs == {RequestID(c) : c \in Call}

TypeOK ==
    /\ policy \in {"deny", "grant", "confirm"}
    /\ subject \in Subjects \cup {NoSubject}
    /\ grants \subseteq {"read", "write"}
    /\ revision \in Revision
    /\ catalog \subseteq Contents
    /\ approval \in [Call -> {"none", "approved", "withdrawn"}]
    /\ ledger \in [RequestIDs -> Receipt]
    /\ effects \subseteq Effect
    /\ shown \subseteq Contents \X Revision
    /\ changes \in 0..MaxChanges
    /\ pc \in [Attempts -> Stage]
    /\ phase \in [Attempts -> {"select", "execute", "recheck"}]
    /\ req \in [Attempts -> Requests \cup {NoRequest}]
    /\ who \in [Attempts -> Subjects \cup {NoSubject}]
    /\ source \in [Attempts -> Revision]
    /\ wire \in [Attempts -> {"none", "write", "accepted", "lookup", "closed"}]
    /\ answer \in [Attempts -> {"none", "error", "notfound", "uncertain", "succeeded", "failed"}]
    /\ result \in [Attempts -> {"none", "completed", "failed", "uncertain", "error"}]
    /\ lapsed \subseteq Attempts

Init ==
    /\ policy = "grant"
    /\ subject \in Subjects
    /\ grants = {"read", "write"}
    /\ revision = 0
    /\ catalog \in IF BeforeWrite THEN SUBSET Valid ELSE {{}}
    /\ approval = [c \in Call |-> "none"]
    /\ ledger = [id \in RequestIDs |-> NoReceipt]
    /\ effects = {}
    /\ shown = catalog \X {0}
    /\ changes = 0
    /\ pc = [a \in Attempts |-> "idle"]
    /\ phase = [a \in Attempts |-> "select"]
    /\ req = [a \in Attempts |-> NoRequest]
    /\ who = [a \in Attempts |-> NoSubject]
    /\ source = [a \in Attempts |-> 0]
    /\ wire = [a \in Attempts |-> "none"]
    /\ answer = [a \in Attempts |-> "none"]
    /\ result = [a \in Attempts |-> "none"]
    /\ lapsed = {}

-----------------------------------------------------------------------------
(* Helpers *)

Bug_ReceiptOnlyInspect(a) == req[a].kind = "inspect"

\* Only Invoke executes with receiptOnly = false; Reconcile and InspectOutcome
\* are the same receipt-only operation.
ReceiptOnly(a) == req[a].kind # "invoke"

Bug_AccountAccessAnyRevision(a) ==
    /\ subject # NoSubject
    /\ "write" \in grants

\* access(): the caller resolves to a subject, the owner grants it the write,
\* and the account is still the revision named in the arguments.
AccountAccess(a) ==
    /\ subject # NoSubject
    /\ "write" \in grants
    /\ revision = req[a].call.revision

Goto(a, stage) == pc' = [pc EXCEPT ![a] = stage]

Finish(a, status) ==
    /\ Goto(a, "done")
    /\ result' = [result EXCEPT ![a] = status]

\* Go on if a condition holds, end the call with an error otherwise.
Require(a, condition, stage) ==
    IF condition THEN Goto(a, stage) /\ UNCHANGED result ELSE Finish(a, "error")

\* A step that asks a question and moves on.
Asking == UNCHANGED <<world, owner, talk, req, who, source, lapsed>>

\* Where an attempt continues once AuthorizeTool has granted it: the selection
\* then validates the arguments, execute prepares the write, and the check
\* after remote validation binds the effect to the current source again.
AfterAuthorize(a) ==
    \/ /\ phase[a] = "select"
       /\ req[a].call.content \in WellShaped
       /\ Goto(a, "host")
       /\ phase' = [phase EXCEPT ![a] = "execute"]
       /\ UNCHANGED result
    \/ /\ phase[a] = "select"
       /\ req[a].call.content \notin WellShaped
       /\ Finish(a, "error")
       /\ UNCHANGED phase
    \/ phase[a] = "execute" /\ Goto(a, "resolve") /\ UNCHANGED <<phase, result>>
    \/ phase[a] = "recheck" /\ Goto(a, "rebind") /\ UNCHANGED <<phase, result>>

-----------------------------------------------------------------------------
(* The attempt: selection and AuthorizeTool *)

\* The host starts a call. Inspections carry a token and an idempotency key,
\* other calls must not carry a token.
Begin(a) ==
    /\ pc[a] = "idle"
    /\ \E r \in Requests :
        /\ req' = [req EXCEPT ![a] = r]
        /\ IF r.token = (r.kind = "inspect") /\ (r.kind = "inspect" => r.call.key # NoKey)
           THEN Goto(a, "host") /\ UNCHANGED result
           ELSE Finish(a, "error")
    /\ UNCHANGED <<world, owner, talk, phase, who, source, lapsed>>

\* AuthorizeTool asks the host. Arguments Prepare rejects need no confirmation:
\* they are let through so that execute can answer with a correction. A host
\* that demands its own extra confirmation is never overridden.
HostAuthorize(a) ==
    /\ pc[a] = "host"
    /\ \/ /\ policy # "deny"
          /\ req[a].call.content \notin Valid
          /\ AfterAuthorize(a)
       \/ /\ policy = "grant"
          /\ req[a].call.content \in Valid
          /\ Goto(a, "account")
          /\ UNCHANGED <<phase, result>>
       \/ /\ policy = "deny" \/ (policy = "confirm" /\ req[a].call.content \in Valid)
          /\ Finish(a, "error")
          /\ UNCHANGED phase
    /\ Asking

AccountAuthorize(a) ==
    /\ pc[a] = "account"
    /\ Require(a, AccountAccess(a), "confirm")
    /\ Asking /\ UNCHANGED phase

\* The verifier looks for the exact approval in the durable records.
Confirm(a) ==
    /\ pc[a] = "confirm"
    /\ IF approval[req[a].call] = "approved"
       THEN AfterAuthorize(a)
       ELSE Finish(a, "error") /\ UNCHANGED phase
    /\ Asking

-----------------------------------------------------------------------------
(* The attempt: execute *)

\* execute prepares the arguments, checks the execution identity and binds the
\* attempt to the subject and source it will write with.
Bind(a) ==
    /\ who' = [who EXCEPT ![a] = subject]
    /\ source' = [source EXCEPT ![a] = revision]

Bug_AfterResolveUnvalidated(a) == "send"

\* A family with BeforeWrite validates before every new effect, and only then.
AfterResolve(a) == IF BeforeWrite /\ ~ReceiptOnly(a) THEN "validate" ELSE "send"

Resolve(a) ==
    /\ pc[a] = "resolve"
    /\ IF req[a].call.content \notin Valid
       THEN Finish(a, "failed") /\ UNCHANGED <<who, source>>
       ELSE IF req[a].call.key # NoKey /\ AccountAccess(a)
       THEN Goto(a, AfterResolve(a)) /\ Bind(a) /\ UNCHANGED result
       ELSE Finish(a, "error") /\ UNCHANGED <<who, source>>
    /\ UNCHANGED <<world, owner, talk, phase, req, lapsed>>

\* BeforeWrite, first part: a fresh remote catalog of the same account revision
\* still lists the tool and accepts the arguments.
ReadAccess(a) ==
    /\ subject # NoSubject
    /\ "read" \in grants
    /\ revision = req[a].call.revision

Validate(a) ==
    /\ pc[a] = "validate"
    /\ Require(a, ReadAccess(a) /\ req[a].call.content \in catalog, "revalidate")
    /\ Asking /\ UNCHANGED phase

Bug_AfterRevalidateUnauthorized(a) == Goto(a, "rebind") /\ UNCHANGED phase

\* BeforeWrite, second part: the account that was read is still the current
\* one. Then AuthorizeTool runs a third time.
AfterRevalidate(a) ==
    /\ Goto(a, "host")
    /\ phase' = [phase EXCEPT ![a] = "recheck"]

Revalidate(a) ==
    /\ pc[a] = "revalidate"
    /\ IF "read" \in grants /\ revision = req[a].call.revision
       THEN AfterRevalidate(a) /\ UNCHANGED result
       ELSE Finish(a, "error") /\ UNCHANGED phase
    /\ lapsed' = IF approval[req[a].call] = "withdrawn" THEN lapsed \cup {a} ELSE lapsed
    /\ UNCHANGED <<world, owner, talk, req, who, source>>

Rebind(a) ==
    /\ pc[a] = "rebind"
    /\ Require(a, AccountAccess(a) /\ who[a] = subject /\ source[a] = revision, "send")
    /\ Asking /\ UNCHANGED phase

\* A new effect is requested, or only the owner's receipt is read.
Send(a) ==
    /\ pc[a] = "send"
    /\ Goto(a, "wait")
    /\ wire' = [wire EXCEPT ![a] = IF ReceiptOnly(a) THEN "lookup" ELSE "write"]
    /\ UNCHANGED <<world, owner, phase, req, who, source, result, lapsed, answer>>

Bug_VerdictNotFoundIsFailed(ans) ==
    CASE ans \in {"failed", "notfound"} -> "failed"
      [] ans = "succeeded" -> "release"
      [] OTHER -> "uncertain"

Bug_VerdictPendingIsSuccess(ans) ==
    CASE ans = "failed" -> "failed"
      [] ans \in {"succeeded", "uncertain"} -> "release"
      [] OTHER -> "uncertain"

\* What an answer means for the result. Only the owner's own "failed" is a
\* failure; not found, uncertain and errors leave the outcome unknown.
Verdict(ans) ==
    CASE ans = "failed" -> "failed"
      [] ans = "succeeded" -> "release"
      [] OTHER -> "uncertain"

\* A succeeded receipt may still be unusable (identity, time, size, shape).
Conclude(a) ==
    /\ pc[a] = "wait"
    /\ answer[a] # "none"
    /\ \/ /\ Verdict(answer[a]) = "release"
          /\ \/ Goto(a, "release") /\ UNCHANGED result
             \/ Finish(a, "uncertain")
       \/ /\ Verdict(answer[a]) # "release"
          /\ Finish(a, Verdict(answer[a]))
    /\ Asking /\ UNCHANGED phase

Bug_GiveUpOnlyOnError(a) ==
    /\ pc[a] = "wait"
    /\ answer[a] = "error"
    /\ Finish(a, "uncertain")
    /\ Asking /\ UNCHANGED phase

\* The execution timeout ends the wait; the message may still be on its way.
GiveUp(a) ==
    /\ pc[a] = "wait"
    /\ answer[a] = "none"
    /\ Finish(a, "uncertain")
    /\ Asking /\ UNCHANGED phase

\* Any other step may end with a port's error or with the caller giving up, and,
\* once the selection has let the call through, with its execution timeout.
PortError(a) ==
    /\ pc[a] \notin {"idle", "send", "wait", "done"}
    /\ Finish(a, "error")
    /\ Asking /\ UNCHANGED phase

-----------------------------------------------------------------------------
(* The attempt: AuthorizeResult *)

Release(a) ==
    /\ pc[a] = "release"
    /\ Require(a, policy # "deny", "disclose")
    /\ Asking /\ UNCHANGED phase

\* The source is read once more; the selection may still find the output
\* oversized or off schema, which leaves the outcome uncertain.
Disclose(a) ==
    /\ pc[a] = "disclose"
    /\ IF AccountAccess(a) /\ source[a] = revision
       THEN Finish(a, "completed") \/ Finish(a, "uncertain")
       ELSE Finish(a, "error")
    /\ Asking /\ UNCHANGED phase

Step(a) ==
    \/ Begin(a)
    \/ HostAuthorize(a) \/ AccountAuthorize(a) \/ Confirm(a)
    \/ Resolve(a) \/ Validate(a) \/ Revalidate(a) \/ Rebind(a)
    \/ Send(a) \/ Conclude(a) \/ GiveUp(a) \/ PortError(a)
    \/ Release(a) \/ Disclose(a)

-----------------------------------------------------------------------------
(* The account owner (external) *)

\* What a message of attempt a asks the owner to do.
Asked(a) == [call |-> req[a].call, revision |-> source[a]]
OwnReceipt(a) == ledger[RequestID(req[a].call)]
SameRequest(a) == [call |-> OwnReceipt(a).call, revision |-> OwnReceipt(a).revision] = Asked(a)

OwnerGrants(a) ==
    /\ who[a] \in Subjects
    /\ "write" \in grants
    /\ source[a] = revision

Reply(a, ans) ==
    /\ answer' = [answer EXCEPT ![a] = ans]
    /\ wire' = [wire EXCEPT ![a] = "closed"]

\* The owner accepts a write when the account is the expected source and the
\* request ID is new, and makes the pending receipt durable before the provider
\* acts; the same request again is replayed from its receipt; a different
\* request under the same ID is a conflict.
OwnerAccept(a) ==
    /\ wire[a] = "write"
    /\ \/ /\ OwnerGrants(a)
          /\ OwnReceipt(a).status = "none"
          /\ ledger' = [ledger EXCEPT ![RequestID(req[a].call)] =
                           [status |-> "pending", call |-> req[a].call, revision |-> revision]]
          /\ wire' = [wire EXCEPT ![a] = "accepted"]
          /\ UNCHANGED answer
       \/ /\ OwnerGrants(a)
          /\ OwnReceipt(a).status # "none"
          /\ SameRequest(a)
          /\ wire' = [wire EXCEPT ![a] = "accepted"]
          /\ UNCHANGED <<ledger, answer>>
       \/ /\ ~OwnerGrants(a) \/ (OwnReceipt(a).status # "none" /\ ~SameRequest(a))
          /\ Reply(a, "error")
          /\ UNCHANGED ledger
    /\ UNCHANGED <<world, effects, progress>>

\* The provider's outcome becomes known to the owner, possibly long after the
\* attempt that caused it has given up.
OwnerSettle(id) ==
    /\ ledger[id].status = "pending"
    /\ \/ /\ ledger' = [ledger EXCEPT ![id].status = "succeeded"]
          /\ effects' = effects \cup {[call |-> ledger[id].call, revision |-> ledger[id].revision]}
       \/ /\ ledger' = [ledger EXCEPT ![id].status = "failed"]
          /\ UNCHANGED effects
    /\ UNCHANGED <<world, progress, talk>>

\* What a receipt tells: a pending one is an uncertain outcome.
Told(receipt) ==
    CASE receipt.status = "none" -> "notfound"
      [] receipt.status = "pending" -> "uncertain"
      [] OTHER -> receipt.status

OwnerAnswer(a) ==
    /\ wire[a] = "accepted"
    /\ \E ans \in {Told(OwnReceipt(a)), "error"} : Reply(a, ans)
    /\ UNCHANGED <<world, owner, progress>>

\* A receipt lookup finds only the receipt of this very request.
OwnerLookup(a) ==
    /\ wire[a] = "lookup"
    /\ \/ /\ OwnerGrants(a)
          /\ Reply(a, IF SameRequest(a) THEN Told(OwnReceipt(a)) ELSE "notfound")
       \/ Reply(a, "error")
    /\ UNCHANGED <<world, owner, progress>>

Owner ==
    \/ \E a \in Attempts : OwnerAccept(a) \/ OwnerAnswer(a) \/ OwnerLookup(a)
    \/ \E id \in RequestIDs : OwnerSettle(id)

-----------------------------------------------------------------------------
(* What changes around the attempts (external) *)

Change ==
    /\ changes < MaxChanges
    /\ changes' = changes + 1
    /\ UNCHANGED <<owner, progress, talk>>

SetPolicy ==
    /\ \E p \in {"deny", "grant", "confirm"} \ {policy} : policy' = p
    /\ UNCHANGED <<subject, grants, revision, catalog, approval, shown>>

SetSubject ==
    /\ \E s \in (Subjects \cup {NoSubject}) \ {subject} : subject' = s
    /\ UNCHANGED <<policy, grants, revision, catalog, approval, shown>>

SetGrant ==
    /\ \E action \in IF BeforeWrite THEN {"read", "write"} ELSE {"write"} :
          grants' = IF action \in grants THEN grants \ {action} ELSE grants \cup {action}
    /\ UNCHANGED <<policy, subject, revision, catalog, approval, shown>>

\* The account is authorized anew; the remote catalog need not be the same.
ReplaceAccount ==
    /\ revision < MaxRevision
    /\ revision' = revision + 1
    /\ catalog' \in IF BeforeWrite THEN SUBSET Valid ELSE {catalog}
    /\ shown' = shown \cup (catalog' \X {revision'})
    /\ UNCHANGED <<policy, subject, grants, approval>>

\* The remote catalog offers or withdraws something on the same account.
SetCatalog ==
    /\ BeforeWrite
    /\ \E c \in Valid :
          catalog' = IF c \in catalog THEN catalog \ {c} ELSE catalog \cup {c}
    /\ shown' = shown \cup (catalog' \X {revision})
    /\ UNCHANGED <<policy, subject, grants, revision, approval>>

\* The user approves a call the adapter has let through to confirmation, or an
\* approval lapses. A lapsed approval is not issued again.
Approve ==
    /\ \E c \in Call :
        /\ approval[c] = "none"
        /\ c.content \in Valid
        /\ \E r \in Requests : r.call = c
        /\ approval' = [approval EXCEPT ![c] = "approved"]
    /\ UNCHANGED <<policy, subject, grants, revision, catalog, shown, changes>>
    /\ UNCHANGED <<owner, progress, talk>>

Withdraw ==
    /\ \E c \in Call :
        /\ approval[c] = "approved"
        /\ approval' = [approval EXCEPT ![c] = "withdrawn"]
    /\ UNCHANGED <<policy, subject, grants, revision, catalog, shown>>

World ==
    \/ Approve
    \/ Change /\ (SetPolicy \/ SetSubject \/ SetGrant \/ ReplaceAccount \/ SetCatalog \/ Withdraw)

-----------------------------------------------------------------------------

\* Every call has been answered: nothing more needs to happen.
AllDone ==
    /\ \A a \in Attempts : pc[a] = "done"
    /\ UNCHANGED vars

Next == (\E a \in Attempts : Step(a)) \/ Owner \/ World \/ AllDone

\* The execution timeout starts when the selection has authorized the call and
\* checked its arguments: from there an attempt goes on. Nothing is assumed of
\* the selection's own questions, of the owner or of the world.
Fairness == \A a \in Attempts : WF_vars(Step(a) /\ phase[a] # "select")

Spec == Init /\ [][Next]_vars /\ Fairness

-----------------------------------------------------------------------------
(* Properties *)

Invoker(c) == {a \in Attempts : req[a].call = c /\ req[a].kind = "invoke"}

\* However many attempts share a host idempotency key, and whatever content
\* they carry, the provider acts at most once for that key: the request ID of
\* execute leaves the owner able to see the conflict.
OneEffectPerKey ==
    \A e, f \in effects : e.call.key = f.call.key => e = f

\* An effect is one the user approved, for exactly this key, content and
\* revision, and it happened on the account revision that was approved, not on
\* one that replaced it while the attempt was under way.
EffectAsApproved ==
    \A e \in effects :
        /\ approval[e.call] # "none"
        /\ e.revision = e.call.revision

\* A failed result is final: the effect it denies has not happened and never
\* will, even with the attempt's own message still on its way to the owner.
FailedMeansNoEffect ==
    \A a \in Attempts : result[a] = "failed" =>
        \A e \in effects : e.call # req[a].call

\* A completed result, whether written, reconciled or inspected, stands for an
\* effect of exactly this call.
CompletedMeansEffect ==
    \A a \in Attempts : result[a] = "completed" =>
        \E e \in effects : e.call = req[a].call

\* What the host is told of an outcome is true and stays true.
OutcomesAreTrue == FailedMeansNoEffect /\ CompletedMeansEffect

\* Reconciliation and inspection read receipts: every receipt the owner opens
\* was asked for by an invocation of that call.
OnlyInvocationsWrite ==
    \A id \in RequestIDs : ledger[id].status # "none" => Invoker(ledger[id].call) # {}

\* With remote validation, nothing is performed that the remote catalog of the
\* same account revision never offered.
EffectWasOffered ==
    BeforeWrite => \A e \in effects : <<e.call.content, e.revision>> \in shown

\* An approval withdrawn while the remote validation ran stops the write: the
\* authorization is repeated after validation and before the effect.
LapsedApprovalStopsWrite ==
    \A a \in lapsed : wire[a] = "none"

\* A call that the selection has let through is always answered, with or without
\* an answer of the host, the verifier or the owner to anything it asks.
EveryCallAnswered ==
    \A a \in Attempts : phase[a] # "select" ~> result[a] # "none"

-----------------------------------------------------------------------------
(* The promise to the host, and how the state of this module shows it *)

Settled ==
    {[call |-> ledger[id].call, status |-> ledger[id].status] :
        id \in {i \in RequestIDs : ledger[i].status \in {"succeeded", "failed"}}}

Reported ==
    {[call |-> req[a].call, status |-> IF result[a] = "failed" THEN "failed" ELSE "succeeded"] :
        a \in {b \in Attempts : result[b] \in {"completed", "failed"}}}

Outcome == INSTANCE WriteOutcome WITH
    Correctable <- {c \in Call : c.content \notin Valid},
    approved <- {c \in Call : approval[c] # "none"},
    outcome <- Settled,
    reports <- Reported

\* Every step of the attempts, the owner and the world is a step of the promise
\* or leaves it alone: outcomes settle once and for approved calls only, and
\* reports agree with them whenever they are made.
ImplementsOutcome == Outcome!Spec
=============================================================================
