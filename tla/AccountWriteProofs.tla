-------------------------- MODULE AccountWriteProofs --------------------------
(***************************************************************************)
(* Safety of account writes for any number of attempts, keys, contents and *)
(* account revisions, any host requests and with or without remote         *)
(* validation.                                                             *)
(***************************************************************************)
EXTENDS AccountWrite, TLAPS

-----------------------------------------------------------------------------
(* The inductive invariant *)

Authorized == {"resolve", "validate", "revalidate", "rebind", "send",
               "wait", "release", "disclose"}
Bound == {"validate", "revalidate", "rebind", "send", "wait", "release", "disclose"}
Dispatched == {"wait", "release", "disclose", "done"}

\* What an attempt has established by the stage it has reached.
AttemptInv(a) ==
    /\ pc[a] = "idle" => result[a] = "none" /\ phase[a] = "select" /\ req[a] = NoRequest
    /\ pc[a] # "idle" => req[a] \in Requests
    /\ result[a] # "none" => pc[a] = "done"
    /\ pc[a] \in Authorized => phase[a] # "select"
    /\ pc[a] \in Bound \cup {"account", "confirm"} => req[a].call.content \in Valid
    /\ phase[a] # "select" /\ req[a].call.content \in Valid
          => approval[req[a].call] # "none"
    /\ pc[a] \in Bound \/ phase[a] = "recheck"
          => /\ source[a] = req[a].call.revision
             /\ req[a].call.content \in Valid

\* What its messages to and from the owner stand for.
MessageInv(a) ==
    /\ wire[a] # "none" => pc[a] \in Dispatched
    /\ wire[a] \in {"write", "accepted", "lookup"} => answer[a] = "none"
    /\ wire[a] = "none" => answer[a] = "none"
    /\ wire[a] \in {"write", "accepted"}
          => /\ req[a].kind = "invoke"
             /\ req[a].call.content \in Valid
             /\ source[a] = req[a].call.revision
             /\ approval[req[a].call] # "none"
    /\ wire[a] = "accepted" => OwnReceipt(a).status # "none" /\ SameRequest(a)
    /\ answer[a] \in {"succeeded", "failed"}
          => OwnReceipt(a).status = answer[a] /\ SameRequest(a)
    /\ pc[a] \in {"release", "disclose"} \/ result[a] = "completed"
          => answer[a] = "succeeded"
    /\ result[a] = "failed" => req[a].call.content \notin Valid \/ answer[a] = "failed"

\* What a receipt the owner holds stands for.
ReceiptInv(id) ==
    ledger[id].status # "none" =>
        /\ ledger[id].call \in Call
        /\ RequestID(ledger[id].call) = id
        /\ ledger[id].call.content \in Valid
        /\ ledger[id].revision = ledger[id].call.revision
        /\ approval[ledger[id].call] # "none"
        /\ Invoker(ledger[id].call) # {}
        /\ ledger[id].status = "succeeded" =>
              [call |-> ledger[id].call, revision |-> ledger[id].revision] \in effects

EffectInv ==
    \A e \in effects :
        /\ ledger[RequestID(e.call)].status = "succeeded"
        /\ ledger[RequestID(e.call)].call = e.call
        /\ ledger[RequestID(e.call)].revision = e.revision

IInv ==
    /\ TypeOK
    /\ \A a \in Attempts : AttemptInv(a) /\ MessageInv(a)
    /\ \A id \in RequestIDs : ReceiptInv(id)
    /\ EffectInv

-----------------------------------------------------------------------------
(* Types *)

LEMMA RequestTypes ==
    /\ Requests \subseteq [kind : Kind, token : BOOLEAN, call : Call]
    /\ \A c \in Call : RequestID(c) \in RequestIDs
    /\ \A c \in Call : c.revision \in Revision /\ c.content \in Contents
    /\ 0 \in Revision
BY ConstantsAssumption DEF RequestID, RequestIDs, Call, Revision

LEMMA AttemptTypes == ASSUME TypeOK, NEW a \in Attempts, Step(a) PROVE TypeOK'
<1> USE DEF Stage
<1>1. CASE Begin(a)
  BY <1>1, RequestTypes DEF Begin, TypeOK, Goto, Finish, world, owner, talk
<1>2. CASE HostAuthorize(a)
  BY <1>2 DEF Asking, TypeOK, world, owner, talk, HostAuthorize, AfterAuthorize, Goto, Finish
<1>3. CASE AccountAuthorize(a)
  BY <1>3 DEF Asking, TypeOK, world, owner, talk, AccountAuthorize, Require, Goto, Finish
<1>4. CASE Confirm(a)
  BY <1>4 DEF Asking, TypeOK, world, owner, talk, Confirm, AfterAuthorize, Goto, Finish
<1>5. CASE Resolve(a)
  BY <1>5 DEF Resolve, AfterResolve, Bind, TypeOK, Goto, Finish, world, owner, talk
<1>6. CASE Validate(a)
  BY <1>6 DEF Asking, TypeOK, world, owner, talk, Validate, Require, Goto, Finish
<1>7. CASE Revalidate(a)
  BY <1>7 DEF Revalidate, AfterRevalidate, TypeOK, Goto, Finish, world, owner, talk
<1>8. CASE Rebind(a)
  BY <1>8 DEF Asking, TypeOK, world, owner, talk, Rebind, Require, Goto, Finish
<1>9. CASE Send(a)
  BY <1>9 DEF Send, TypeOK, Goto, world, owner
<1>10. CASE Conclude(a)
  BY <1>10 DEF Asking, TypeOK, world, owner, talk, Conclude, Verdict, Goto, Finish
<1>11. CASE GiveUp(a)
  BY <1>11 DEF Asking, TypeOK, world, owner, talk, GiveUp, Finish, Goto
<1>12. CASE PortError(a)
  BY <1>12 DEF Asking, TypeOK, world, owner, talk, PortError, Finish, Goto
<1>13. CASE Release(a)
  BY <1>13 DEF Asking, TypeOK, world, owner, talk, Release, Require, Goto, Finish
<1>14. CASE Disclose(a)
  BY <1>14 DEF Asking, TypeOK, world, owner, talk, Disclose, Goto, Finish
<1>15. QED
  BY <1>1, <1>2, <1>3, <1>4, <1>5, <1>6, <1>7, <1>8, <1>9, <1>10, <1>11, <1>12,
     <1>13, <1>14 DEF Step

\* A message to the owner belongs to a real request, whose receipt exists.
LEMMA OwnReceiptType ==
    ASSUME IInv, NEW a \in Attempts, wire[a] # "none"
    PROVE  /\ req[a] \in Requests
           /\ req[a].call \in Call
           /\ RequestID(req[a].call) \in RequestIDs
           /\ OwnReceipt(a) \in Receipt
<1>1. req[a] \in Requests
  BY DEF IInv, AttemptInv, MessageInv, Dispatched
<1>2. req[a].call \in Call
  BY <1>1, RequestTypes
<1>3. RequestID(req[a].call) \in RequestIDs
  BY <1>2, RequestTypes
<1>4. QED
  BY <1>1, <1>2, <1>3 DEF IInv, TypeOK, OwnReceipt

LEMMA ToldType ==
    ASSUME NEW receipt \in Receipt
    PROVE  Told(receipt) \in {"notfound", "uncertain", "succeeded", "failed"}
BY DEF Told, Receipt

LEMMA OwnerTypes == ASSUME IInv, Owner PROVE TypeOK'
<1> USE DEF TypeOK, world, progress
<1> TypeOK
  BY DEF IInv
<1>1. ASSUME NEW a \in Attempts, OwnerAccept(a) PROVE TypeOK'
  <2>1. [status |-> "pending", call |-> req[a].call, revision |-> revision] \in Receipt
    BY <1>1, OwnReceiptType DEF OwnerAccept, Receipt
  <2>2. ledger' \in [RequestIDs -> Receipt]
    BY <1>1, <2>1 DEF OwnerAccept
  <2>3. QED
    BY <1>1, <2>2 DEF OwnerAccept, Reply
<1>2. ASSUME NEW a \in Attempts, OwnerAnswer(a) PROVE TypeOK'
  BY <1>2, OwnReceiptType, ToldType DEF OwnerAnswer, Reply, owner
<1>3. ASSUME NEW a \in Attempts, OwnerLookup(a) PROVE TypeOK'
  BY <1>3, OwnReceiptType, ToldType DEF OwnerLookup, Reply, owner
<1>4. ASSUME NEW id \in RequestIDs, OwnerSettle(id) PROVE TypeOK'
  <2>1. ledger[id] \in Receipt /\ ledger[id].call \in Call
    BY <1>4 DEF OwnerSettle, IInv, ReceiptInv
  <2>2. [call |-> ledger[id].call, revision |-> ledger[id].revision] \in Effect
    BY <2>1 DEF Receipt, Effect
  <2>3. ledger' \in [RequestIDs -> Receipt]
    BY <1>4, <2>1 DEF OwnerSettle, Receipt
  <2>4. QED
    BY <1>4, <2>2, <2>3 DEF OwnerSettle, talk
<1>5. QED
  BY <1>1, <1>2, <1>3, <1>4 DEF Owner

LEMMA WorldTypes == ASSUME TypeOK, World PROVE TypeOK'
<1> USE ConstantsAssumption DEF TypeOK, owner, progress, talk
<1>1. CASE Approve
  BY <1>1 DEF Approve
<1>2. ASSUME Change PROVE changes' \in 0..MaxChanges
  BY <1>2 DEF Change
<1>3. CASE Change /\ SetPolicy
  BY <1>2, <1>3 DEF Change, SetPolicy
<1>4. CASE Change /\ SetSubject
  BY <1>2, <1>4 DEF Change, SetSubject
<1>5. CASE Change /\ SetGrant
  BY <1>2, <1>5 DEF Change, SetGrant
<1>6. CASE Change /\ ReplaceAccount
  <2>1. revision' \in Revision
    BY <1>6 DEF ReplaceAccount, Revision
  <2>2. catalog' \subseteq Contents
    BY <1>6 DEF ReplaceAccount
  <2>3. QED
    BY <1>2, <1>6, <2>1, <2>2 DEF Change, ReplaceAccount
<1>7. CASE Change /\ SetCatalog
  BY <1>2, <1>7 DEF Change, SetCatalog
<1>8. CASE Change /\ Withdraw
  BY <1>2, <1>8 DEF Change, Withdraw
<1>9. QED
  BY <1>1, <1>3, <1>4, <1>5, <1>6, <1>7, <1>8 DEF World

-----------------------------------------------------------------------------
(* What a step leaves alone stays as it was *)

\* Attempt b takes no part in the step.
Frame(b) ==
    /\ pc'[b] = pc[b] /\ phase'[b] = phase[b] /\ result'[b] = result[b]
    /\ req'[b] = req[b] /\ source'[b] = source[b]
    /\ wire'[b] = wire[b] /\ answer'[b] = answer[b]

\* Approvals, once given, have been given; receipts, once opened, keep what
\* they stand for and settle at most once.
Grow ==
    /\ \A c \in Call : approval[c] # "none" => approval'[c] # "none"
    /\ \A id \in RequestIDs : ledger[id].status # "none" =>
          /\ ledger'[id].call = ledger[id].call
          /\ ledger'[id].revision = ledger[id].revision
          /\ ledger'[id].status # "none"
          /\ ledger[id].status # "pending" => ledger'[id].status = ledger[id].status

LEMMA FrameKeepsAttempt ==
    ASSUME IInv, NEW b \in Attempts, Frame(b), Grow
    PROVE  AttemptInv(b)'
<1>1. CASE pc[b] = "idle"
  BY <1>1 DEF IInv, AttemptInv, Frame, Bound, Authorized
<1>2. CASE pc[b] # "idle"
  <2>1. req[b].call \in Call
    BY <1>2, RequestTypes DEF IInv, AttemptInv
  <2>2. QED
    BY <1>2, <2>1 DEF IInv, AttemptInv, Frame, Grow
<1>3. QED
  BY <1>1, <1>2

LEMMA FrameKeepsMessages ==
    ASSUME IInv, NEW b \in Attempts, Frame(b), Grow
    PROVE  MessageInv(b)'
<1>1. CASE wire[b] = "none"
  BY <1>1 DEF IInv, MessageInv, Frame
<1>2. CASE wire[b] # "none"
  <2>1. req[b].call \in Call /\ RequestID(req[b].call) \in RequestIDs
    BY <1>2, OwnReceiptType
  <2>2. OwnReceipt(b)' = ledger'[RequestID(req[b].call)]
    BY DEF OwnReceipt, Frame, RequestID
  <2>3. OwnReceipt(b).status # "none" =>
           /\ OwnReceipt(b)'.call = OwnReceipt(b).call
           /\ OwnReceipt(b)'.revision = OwnReceipt(b).revision
           /\ OwnReceipt(b)'.status # "none"
           /\ OwnReceipt(b).status # "pending" => OwnReceipt(b)'.status = OwnReceipt(b).status
    BY <2>1, <2>2 DEF OwnReceipt, Grow
  <2>4. OwnReceipt(b).status # "none" /\ SameRequest(b) => SameRequest(b)'
    BY <2>3 DEF SameRequest, Asked, Frame
  <2>5. QED
    BY <1>2, <2>1, <2>3, <2>4 DEF IInv, MessageInv, Frame, Grow
<1>3. QED
  BY <1>1, <1>2

\* A step of attempt a that leaves the owner, the approvals and all requests
\* but a's alone keeps what the receipts and effects stand for.
LEMMA AttemptKeepsReceipts ==
    ASSUME IInv, NEW a \in Attempts, UNCHANGED <<ledger, effects, approval>>,
           \A b \in Attempts : req'[b] = req[b] \/ pc[b] = "idle"
    PROVE  (\A id \in RequestIDs : ReceiptInv(id)') /\ EffectInv'
<1>1. EffectInv'
  BY DEF IInv, EffectInv
<1>2. ASSUME NEW c PROVE Invoker(c) # {} => Invoker(c)' # {}
  BY DEF Invoker, IInv, AttemptInv, NoRequest
<1>3. QED
  BY <1>1, <1>2 DEF IInv, ReceiptInv

-----------------------------------------------------------------------------
(* The steps of an attempt *)

\* A step that only asks leaves the messages and the receipt as they are.
LEMMA AskingKeeps ==
    ASSUME NEW a \in Attempts, Asking
    PROVE  /\ OwnReceipt(a)' = OwnReceipt(a)
           /\ SameRequest(a)' = SameRequest(a)
           /\ UNCHANGED <<wire, answer, req, source, approval>>
BY DEF Asking, OwnReceipt, SameRequest, Asked, RequestID, world, owner, talk

LEMMA AttemptStep ==
    ASSUME IInv, NEW a \in Attempts, Step(a)
    PROVE  AttemptInv(a)' /\ MessageInv(a)'
<1> TypeOK /\ AttemptInv(a) /\ MessageInv(a)
  BY DEF IInv
<1> USE DEF TypeOK, AttemptInv, MessageInv, Authorized, Bound, Dispatched
<1>1. CASE Begin(a)
  BY <1>1, ConstantsAssumption DEF Begin, Goto, Finish, world, owner, talk, OwnReceipt, SameRequest, Asked, RequestID
<1>2. CASE HostAuthorize(a)
  BY <1>2, AskingKeeps DEF HostAuthorize, AfterAuthorize, Goto, Finish
<1>3. CASE AccountAuthorize(a)
  BY <1>3, AskingKeeps DEF AccountAuthorize, Require, Goto, Finish
<1>4. CASE Confirm(a)
  BY <1>4, AskingKeeps DEF Confirm, AfterAuthorize, Goto, Finish
<1>5. CASE Validate(a)
  BY <1>5, AskingKeeps DEF Validate, Require, Goto, Finish
<1>6. CASE Rebind(a)
  BY <1>6, AskingKeeps DEF Rebind, Require, Goto, Finish
<1>7. CASE Conclude(a)
  BY <1>7, AskingKeeps DEF Conclude, Verdict, Goto, Finish
<1>8. CASE GiveUp(a)
  BY <1>8, AskingKeeps DEF GiveUp, Goto, Finish
<1>9. CASE PortError(a)
  BY <1>9, AskingKeeps DEF PortError, Goto, Finish
<1>10. CASE Release(a)
  BY <1>10, AskingKeeps DEF Release, Require, Goto, Finish
<1>11. CASE Disclose(a)
  BY <1>11, AskingKeeps DEF Disclose, Goto, Finish, AccountAccess
<1>12. CASE Resolve(a)
  BY <1>12 DEF Resolve, AfterResolve, ReceiptOnly, AccountAccess, Bind, Goto, Finish, world, owner, talk
<1>13. CASE Revalidate(a)
  BY <1>13 DEF Revalidate, AfterRevalidate, Goto, Finish, world, owner, talk, OwnReceipt, SameRequest, Asked, RequestID
<1>14. CASE Send(a)
  BY <1>14 DEF Send, ReceiptOnly, Goto, world, owner, OwnReceipt, SameRequest, Asked, RequestID
<1>15. QED
  BY <1>1, <1>2, <1>3, <1>4, <1>5, <1>6, <1>7, <1>8, <1>9, <1>10, <1>11, <1>12, <1>13, <1>14 DEF Step

LEMMA AttemptKeepsIInv == ASSUME IInv, NEW a \in Attempts, Step(a) PROVE IInv'
<1>1. UNCHANGED <<ledger, effects, approval>>
  BY DEF Step, Begin, HostAuthorize, AccountAuthorize, Confirm, Resolve, Validate, Revalidate,
         Rebind, Send, Conclude, GiveUp, PortError, Release, Disclose, Asking, world, owner
<1>2. \A b \in Attempts : req'[b] = req[b] \/ pc[b] = "idle"
  BY DEF IInv, TypeOK, Step, Begin, HostAuthorize, AccountAuthorize, Confirm, Resolve, Validate,
         Revalidate, Rebind, Send, Conclude, GiveUp, PortError, Release, Disclose, Asking
<1>3. Grow
  BY <1>1 DEF Grow
<1>4. ASSUME NEW b \in Attempts, b # a PROVE Frame(b)
  BY <1>4 DEF IInv, TypeOK, Frame, Step, Begin, HostAuthorize, AccountAuthorize, Confirm, Resolve,
         Validate, Revalidate, Rebind, Send, Conclude, GiveUp, PortError, Release, Disclose, Asking,
         AfterAuthorize, AfterRevalidate, Bind, Require, Goto, Finish, talk
<1>5. \A b \in Attempts : AttemptInv(b)' /\ MessageInv(b)'
  BY <1>3, <1>4, AttemptStep, FrameKeepsAttempt, FrameKeepsMessages
<1>6. TypeOK'
  BY AttemptTypes DEF IInv
<1>7. QED
  BY <1>1, <1>2, <1>5, <1>6, AttemptKeepsReceipts DEF IInv

-----------------------------------------------------------------------------
(* The steps of the owner *)

\* Owner steps move neither the attempts nor the approvals.
LEMMA OwnerKeepsAttempts ==
    ASSUME IInv, UNCHANGED <<world, progress>>, NEW b \in Attempts
    PROVE  AttemptInv(b)'
BY DEF IInv, AttemptInv, world, progress

LEMMA OwnerAcceptKeepsIInv == ASSUME IInv, NEW a \in Attempts, OwnerAccept(a) PROVE IInv'
<1> DEFINE id == RequestID(req[a].call)
<1>1. id \in RequestIDs /\ req[a].call \in Call /\ req[a] \in Requests /\ OwnReceipt(a) \in Receipt
  BY OwnReceiptType DEF OwnerAccept
<1>2. TypeOK /\ TypeOK'
  BY OwnerTypes DEF IInv, Owner
<1>3. Grow
  BY <1>1, <1>2 DEF OwnerAccept, Grow, world, OwnReceipt, TypeOK
<1>4. MessageInv(a)'
  <2>1. /\ wire'[a] \in {"accepted", "closed"}
        /\ answer'[a] = IF wire'[a] = "accepted" THEN "none" ELSE "error"
        /\ pc'[a] = pc[a] /\ result'[a] = result[a]
    BY <1>2 DEF OwnerAccept, Reply, IInv, MessageInv, TypeOK, progress
  <2>2. wire'[a] = "accepted" => OwnReceipt(a)'.status # "none" /\ SameRequest(a)'
    BY <1>1, <1>2 DEF OwnerAccept, Reply, OwnerGrants, OwnReceipt, SameRequest, Asked, TypeOK, progress
  <2>3. QED
    BY <2>1, <2>2 DEF OwnerAccept, IInv, MessageInv, progress, world
<1>5. ASSUME NEW b \in Attempts, b # a PROVE MessageInv(b)'
  <2>1. Frame(b)
    BY <1>2, <1>5 DEF OwnerAccept, Reply, Frame, TypeOK, progress
  <2>2. QED
    BY <1>3, <2>1, FrameKeepsMessages
<1>6. ASSUME NEW i \in RequestIDs PROVE ReceiptInv(i)'
  <2>1. CASE ledger'[i] = ledger[i]
    BY <1>6, <2>1 DEF IInv, ReceiptInv, OwnerAccept, progress, world, Invoker
  <2>2. CASE ledger'[i] # ledger[i]
    <3>1. /\ i = id
          /\ ledger'[i] = [status |-> "pending", call |-> req[a].call, revision |-> revision]
          /\ source[a] = revision
          /\ wire[a] = "write"
      BY <1>2, <2>2 DEF OwnerAccept, OwnerGrants, TypeOK
    <3>2. req'[a].call = req[a].call /\ req'[a].kind = "invoke"
      BY <3>1 DEF IInv, MessageInv, OwnerAccept, Invoker, progress
    <3>3. /\ req[a].call.content \in Valid
          /\ revision = req[a].call.revision
          /\ approval'[req[a].call] # "none"
      BY <3>1 DEF IInv, MessageInv, OwnerAccept, world
    <3>4. /\ ledger'[i].call = req[a].call
          /\ ledger'[i].revision = revision
          /\ ledger'[i].status = "pending"
      BY <3>1
    <3>5. RequestID(ledger'[i].call) = i
      BY <3>1, <3>4
    <3>6. Invoker(ledger[i].call)' # {}
      BY <3>2, <3>4 DEF Invoker
    <3>7. QED
      BY <1>1, <3>3, <3>4, <3>5, <3>6 DEF ReceiptInv, RequestID
  <2>3. QED
    BY <2>1, <2>2
<1>7. EffectInv'
  <2>1. ASSUME NEW e \in effects
        PROVE  ledger'[RequestID(e.call)] = ledger[RequestID(e.call)]
    <3>1. ledger[RequestID(e.call)].status = "succeeded"
      BY <2>1 DEF IInv, EffectInv
    <3>2. RequestID(e.call) \in RequestIDs
      BY <1>2, <2>1, RequestTypes DEF TypeOK, Effect
    <3>3. RequestID(e.call) = id => UNCHANGED ledger
      BY <3>1 DEF OwnerAccept, OwnReceipt
    <3>4. QED
      BY <1>2, <3>2, <3>3 DEF OwnerAccept, TypeOK
  <2>2. QED
    BY <2>1 DEF IInv, EffectInv, OwnerAccept
<1>8. QED
  BY <1>2, <1>4, <1>5, <1>6, <1>7, OwnerKeepsAttempts DEF IInv, OwnerAccept

LEMMA OwnerReplyKeepsIInv ==
    ASSUME IInv, NEW a \in Attempts, OwnerAnswer(a) \/ OwnerLookup(a)
    PROVE  IInv'
<1>1. TypeOK /\ TypeOK' /\ OwnReceipt(a) \in Receipt
  BY OwnReceiptType, OwnerTypes DEF IInv, Owner, OwnerAnswer, OwnerLookup
<1>2. UNCHANGED <<world, owner, progress>> /\ Grow
  BY DEF OwnerAnswer, OwnerLookup, Grow, world, owner
<1>3. OwnReceipt(a)' = OwnReceipt(a) /\ SameRequest(a)' = SameRequest(a)
  BY <1>2 DEF OwnReceipt, SameRequest, Asked, RequestID, owner, progress
<1>4. MessageInv(a)'
  <2>1. wire'[a] = "closed" /\ answer'[a] # "none" /\ wire[a] # "none"
    BY <1>1 DEF OwnerAnswer, OwnerLookup, Reply, Told, TypeOK, Receipt
  <2>2. answer'[a] \in {"succeeded", "failed"} => OwnReceipt(a).status = answer'[a] /\ SameRequest(a)
    BY <1>1 DEF OwnerAnswer, OwnerLookup, Reply, Told, TypeOK, Receipt, IInv, MessageInv
  <2>3. answer[a] = "none"
    BY DEF IInv, MessageInv, OwnerAnswer, OwnerLookup
  <2>4. QED
    BY <1>2, <1>3, <2>1, <2>2, <2>3 DEF IInv, MessageInv, progress, world
<1>5. ASSUME NEW b \in Attempts, b # a PROVE MessageInv(b)'
  <2>1. Frame(b)
    BY <1>1, <1>5 DEF OwnerAnswer, OwnerLookup, Reply, Frame, TypeOK, progress
  <2>2. QED
    BY <1>2, <2>1, FrameKeepsMessages
<1>6. (\A i \in RequestIDs : ReceiptInv(i)') /\ EffectInv'
  BY <1>2, AttemptKeepsReceipts DEF world, owner, progress
<1>7. QED
  BY <1>1, <1>2, <1>4, <1>5, <1>6, OwnerKeepsAttempts DEF IInv

LEMMA OwnerSettleKeepsIInv == ASSUME IInv, NEW id \in RequestIDs, OwnerSettle(id) PROVE IInv'
<1>1. TypeOK /\ TypeOK'
  BY OwnerTypes DEF IInv, Owner
<1>2. /\ ledger[id].status = "pending"
      /\ ledger[id] \in Receipt
      /\ \A i \in RequestIDs : i # id => ledger'[i] = ledger[i]
      /\ ledger'[id].call = ledger[id].call /\ ledger'[id].revision = ledger[id].revision
      /\ \/ ledger'[id].status = "succeeded"
            /\ effects' = effects \cup {[call |-> ledger[id].call, revision |-> ledger[id].revision]}
         \/ ledger'[id].status = "failed" /\ effects' = effects
  BY <1>1 DEF OwnerSettle, TypeOK, Receipt
<1>3. Grow
  BY <1>2 DEF OwnerSettle, Grow, world
<1>4. ASSUME NEW b \in Attempts PROVE MessageInv(b)'
  <2>1. Frame(b)
    BY DEF OwnerSettle, Frame, progress, talk
  <2>2. QED
    BY <1>3, <2>1, FrameKeepsMessages
<1>5. ASSUME NEW i \in RequestIDs PROVE ReceiptInv(i)'
  <2>1. CASE i = id
    BY <1>2, <2>1 DEF IInv, ReceiptInv, OwnerSettle, world, progress, Invoker
  <2>2. CASE i # id
    BY <1>2, <2>2 DEF IInv, ReceiptInv, OwnerSettle, world, progress, Invoker
  <2>3. QED
    BY <2>1, <2>2
<1>6. EffectInv'
  <2> SUFFICES ASSUME NEW e \in effects'
               PROVE  /\ ledger'[RequestID(e.call)].status = "succeeded"
                      /\ ledger'[RequestID(e.call)].call = e.call
                      /\ ledger'[RequestID(e.call)].revision = e.revision
    BY DEF EffectInv, RequestID
  <2>1. CASE e \in effects
    <3>1. e \in Effect /\ RequestID(e.call) \in RequestIDs
      BY <1>1, <2>1, RequestTypes DEF TypeOK, Effect
    <3>2. RequestID(e.call) # id
      BY <1>2, <2>1 DEF IInv, EffectInv
    <3>3. QED
      BY <1>2, <2>1, <3>1, <3>2 DEF IInv, EffectInv
  <2>2. CASE e \notin effects
    <3>1. e = [call |-> ledger[id].call, revision |-> ledger[id].revision]
          /\ ledger'[id].status = "succeeded"
      BY <1>2, <2>2
    <3>2. RequestID(e.call) = id
      BY <1>2, <3>1 DEF IInv, ReceiptInv
    <3>3. QED
      BY <1>2, <3>1, <3>2
  <2>3. QED
    BY <2>1, <2>2
<1>7. QED
  BY <1>1, <1>4, <1>5, <1>6, OwnerKeepsAttempts DEF IInv, OwnerSettle

LEMMA OwnerKeepsIInv == ASSUME IInv, Owner PROVE IInv'
BY OwnerAcceptKeepsIInv, OwnerReplyKeepsIInv, OwnerSettleKeepsIInv DEF Owner

-----------------------------------------------------------------------------
(* The world, and the theorems *)

LEMMA WorldKeepsIInv == ASSUME IInv, World PROVE IInv'
<1>1. UNCHANGED <<owner, progress, talk>>
  BY DEF World, Change, Approve
<1>2. Grow
  <2>1. \A c \in Call : approval[c] # "none" => approval'[c] # "none"
    BY DEF World, Change, Approve, Withdraw, SetPolicy, SetSubject, SetGrant, ReplaceAccount,
           SetCatalog, IInv, TypeOK
  <2>2. QED
    BY <1>1, <2>1 DEF Grow, owner
<1>3. ASSUME NEW b \in Attempts PROVE AttemptInv(b)' /\ MessageInv(b)'
  <2>1. Frame(b)
    BY <1>1 DEF Frame, progress, talk
  <2>2. QED
    BY <1>2, <2>1, FrameKeepsAttempt, FrameKeepsMessages
<1>4. ASSUME NEW id \in RequestIDs PROVE ReceiptInv(id)'
  BY <1>1, <1>2 DEF IInv, ReceiptInv, Invoker, Grow, owner, progress
<1>5. EffectInv'
  BY <1>1 DEF IInv, EffectInv, owner
<1>6. TypeOK'
  BY WorldTypes DEF IInv
<1>7. QED
  BY <1>3, <1>4, <1>5, <1>6 DEF IInv

LEMMA InitIInv == Init => IInv
<1> SUFFICES ASSUME Init PROVE IInv
  OBVIOUS
<1>1. TypeOK
  BY ConstantsAssumption DEF Init, TypeOK, Revision, Receipt, NoReceipt, Stage
<1>2. ASSUME NEW a \in Attempts PROVE AttemptInv(a) /\ MessageInv(a)
  BY DEF Init, AttemptInv, MessageInv, Bound, Authorized, Dispatched
<1>3. (\A id \in RequestIDs : ReceiptInv(id)) /\ EffectInv
  BY DEF Init, ReceiptInv, EffectInv, NoReceipt
<1>4. QED
  BY <1>1, <1>2, <1>3 DEF IInv

LEMMA NextIInv == IInv /\ [Next]_vars => IInv'
<1> SUFFICES ASSUME IInv, [Next]_vars PROVE IInv'
  OBVIOUS
<1>1. CASE UNCHANGED vars
  <2>1. UNCHANGED <<world, progress, ledger, effects, wire, answer>>
    BY <1>1 DEF vars, owner, talk
  <2>2. TypeOK'
    BY <2>1 DEF IInv, TypeOK, world, progress
  <2>3. ASSUME NEW a \in Attempts PROVE AttemptInv(a)'
    <3>1. AttemptInv(a)
      BY DEF IInv
    <3>2. QED
      BY <2>1, <3>1 DEF AttemptInv, world, progress
  <2>4. ASSUME NEW a \in Attempts PROVE MessageInv(a)'
    <3>1. MessageInv(a) /\ UNCHANGED <<OwnReceipt(a), SameRequest(a)>>
      BY <2>1 DEF IInv, OwnReceipt, SameRequest, Asked, progress
    <3>2. QED
      BY <2>1, <3>1 DEF MessageInv, world, progress
  <2>5. (\A id \in RequestIDs : ReceiptInv(id)') /\ EffectInv'
    BY <2>1 DEF IInv, ReceiptInv, EffectInv, Invoker, world, progress
  <2>6. QED
    BY <2>2, <2>3, <2>4, <2>5 DEF IInv
<1>2. QED
  BY <1>1, AttemptKeepsIInv, OwnerKeepsIInv, WorldKeepsIInv DEF Next, AllDone

LEMMA AlwaysIInv == Spec => []IInv
BY InitIInv, NextIInv, PTL DEF Spec

\* Types hold throughout, whatever the constants.
THEOREM TypeCorrect == Spec => []TypeOK
<1>1. IInv => TypeOK
  BY DEF IInv
<1>2. QED
  BY <1>1, AlwaysIInv, PTL

\* The provider acts at most once for a host idempotency key: two effects of
\* one key would be two different succeeded receipts of one request ID.
THEOREM AtMostOneEffect == Spec => []OneEffectPerKey
<1>1. IInv => OneEffectPerKey
  BY DEF IInv, TypeOK, EffectInv, OneEffectPerKey, RequestID, Effect
<1>2. QED
  BY <1>1, AlwaysIInv, PTL

\* Every effect was approved for its key, content and revision and happened on
\* that revision.
THEOREM EffectsAreApproved == Spec => []EffectAsApproved
<1>1. IInv => EffectAsApproved
  BY RequestTypes DEF IInv, TypeOK, EffectInv, ReceiptInv, EffectAsApproved, Effect
<1>2. QED
  BY <1>1, AlwaysIInv, PTL

\* A failed result is never contradicted by a later effect.
THEOREM FailureIsFinal == Spec => []FailedMeansNoEffect
<1>1. IInv => FailedMeansNoEffect
  <2> SUFFICES ASSUME IInv, NEW a \in Attempts, result[a] = "failed", NEW e \in effects,
                      e.call = req[a].call
               PROVE  FALSE
    BY DEF FailedMeansNoEffect
  <2>1. ledger[RequestID(e.call)].status = "succeeded"
    BY DEF IInv, EffectInv
  <2>2. e.call \in Call /\ ledger[RequestID(e.call)].call = e.call
    BY DEF IInv, TypeOK, Effect, EffectInv
  <2>3. e.call.content \in Valid
    BY <2>1, <2>2, RequestTypes DEF IInv, ReceiptInv
  <2>4. QED
    BY <2>1, <2>3 DEF IInv, MessageInv, OwnReceipt
<1>2. QED
  BY <1>1, AlwaysIInv, PTL

\* A completed result stands for an effect of exactly this call.
THEOREM CompletionIsReal == Spec => []CompletedMeansEffect
<1>1. IInv => CompletedMeansEffect
  <2> SUFFICES ASSUME IInv, NEW a \in Attempts, result[a] = "completed"
               PROVE  \E e \in effects : e.call = req[a].call
    BY DEF CompletedMeansEffect
  <2>1. answer[a] = "succeeded" /\ wire[a] # "none"
    BY DEF IInv, MessageInv
  <2>2. OwnReceipt(a).status = "succeeded" /\ OwnReceipt(a).call = req[a].call
    BY <2>1 DEF IInv, MessageInv, SameRequest, Asked
  <2>3. [call |-> OwnReceipt(a).call, revision |-> OwnReceipt(a).revision] \in effects
    BY <2>1, <2>2, OwnReceiptType DEF IInv, ReceiptInv, OwnReceipt
  <2>4. QED
    BY <2>2, <2>3
<1>2. QED
  BY <1>1, AlwaysIInv, PTL

\* What the host is told of an outcome, that it failed or that it completed, is
\* true and stays true.
THEOREM OutcomesAreFinal == Spec => []OutcomesAreTrue
<1>1. FailedMeansNoEffect /\ CompletedMeansEffect => OutcomesAreTrue
  BY DEF OutcomesAreTrue
<1>2. QED
  BY <1>1, FailureIsFinal, CompletionIsReal, PTL

\* No receipt is opened by a reconciliation or an inspection.
THEOREM OnlyInvokersWrite == Spec => []OnlyInvocationsWrite
<1>1. IInv => OnlyInvocationsWrite
  BY DEF IInv, ReceiptInv, OnlyInvocationsWrite
<1>2. QED
  BY <1>1, AlwaysIInv, PTL

\* What the host is told under one idempotency key is one story: a call that was
\* reported completed is never reported failed, and no other call of the key is
\* reported completed, however many attempts, retries and reconciliations ask.
AnswersAgree ==
    \A a, b \in Attempts :
        /\ result[a] = "completed"
        /\ result[b] \in {"completed", "failed"}
        /\ req[a].call.key = req[b].call.key
        => (result[b] = "completed" <=> req[a].call = req[b].call)

\* The answers to the calls of one key agree with each other (execute, and what the
\* owner remembers under its request ID).
THEOREM OneStory == Spec => []AnswersAgree
<1>1. OneEffectPerKey /\ OutcomesAreTrue => AnswersAgree
  <2> SUFFICES ASSUME OneEffectPerKey, OutcomesAreTrue,
                      NEW a \in Attempts, NEW b \in Attempts, result[a] = "completed",
                      result[b] \in {"completed", "failed"}, req[a].call.key = req[b].call.key
               PROVE  result[b] = "completed" <=> req[a].call = req[b].call
    BY DEF AnswersAgree
  <2>1. PICK e \in effects : e.call = req[a].call
    BY DEF OutcomesAreTrue, CompletedMeansEffect
  <2>2. CASE result[b] = "completed"
    <3>1. PICK f \in effects : f.call = req[b].call
      BY <2>2 DEF OutcomesAreTrue, CompletedMeansEffect
    <3>2. QED
      BY <2>1, <2>2, <3>1 DEF OneEffectPerKey
  <2>3. CASE result[b] = "failed"
    BY <2>1, <2>3 DEF OutcomesAreTrue, FailedMeansNoEffect
  <2>4. QED
    BY <2>2, <2>3
<1>2. QED
  BY <1>1, AtMostOneEffect, OutcomesAreFinal, PTL

-----------------------------------------------------------------------------
(* Progress. What liveness rests on but for fairness: the steps an attempt *)
(* may still take.                                                         *)

\* The authorizations come in this order, and in each the stages.
Round == [select |-> 2, execute |-> 1, recheck |-> 0]

Place ==
    [idle |-> 13, host |-> 12, account |-> 11, confirm |-> 10, resolve |-> 9, validate |-> 8,
     revalidate |-> 7, rebind |-> 6, send |-> 5, wait |-> 4, release |-> 3, disclose |-> 2,
     done |-> 1]

\* A bound on the steps of an attempt before its answer.
StepsLeft(a) == 13 * Round[phase[a]] + Place[pc[a]]

\* Every step of an attempt brings it nearer to its answer, third authorization
\* and all, and it does not end without one; no step of another attempt, of the owner or of the world throws it
\* back; and what was answered is not answered again.
CallsRunDown ==
    [][\A a \in Attempts :
          /\ StepsLeft(a) \in 1..39
          /\ pc[a] = "done" <=> result[a] # "none"
          /\ Step(a) => StepsLeft(a)' < StepsLeft(a)
          /\ ~Step(a) => UNCHANGED <<pc[a], phase[a], req[a], result[a]>>
          /\ result[a] # "none" => UNCHANGED <<pc[a], phase[a], req[a], result[a]>>]_vars

\* Remote validation belongs to the second authorization. Without it a third one
\* could follow a third one for ever.
OrderInv(a) ==
    /\ pc[a] \in {"resolve", "validate", "revalidate"} => phase[a] = "execute"
    /\ pc[a] = "done" => result[a] # "none"

LEMMA StepsAreLeft == ASSUME TypeOK, NEW a \in Attempts PROVE StepsLeft(a) \in 1..39
<1>1. Round[phase[a]] \in 0..2 /\ Place[pc[a]] \in 1..13
  BY DEF TypeOK, Stage, Round, Place
<1>2. QED
  BY <1>1 DEF StepsLeft

LEMMA StepRunsDown ==
    ASSUME IInv, NEW a \in Attempts, OrderInv(a), Step(a)
    PROVE  StepsLeft(a)' < StepsLeft(a) /\ result[a] = "none" /\ OrderInv(a)'
<1> TypeOK /\ AttemptInv(a)
  BY DEF IInv
<1> USE DEF TypeOK, AttemptInv, Authorized, OrderInv, StepsLeft, Round, Place
<1>1. CASE Begin(a)
  BY <1>1 DEF Begin, Goto, Finish
<1>2. CASE HostAuthorize(a)
  BY <1>2 DEF HostAuthorize, AfterAuthorize, Goto, Finish
<1>3. CASE AccountAuthorize(a)
  BY <1>3 DEF AccountAuthorize, Require, Goto, Finish
<1>4. CASE Confirm(a)
  BY <1>4 DEF Confirm, AfterAuthorize, Goto, Finish
<1>5. CASE Resolve(a)
  BY <1>5 DEF Resolve, AfterResolve, Goto, Finish
<1>6. CASE Validate(a)
  BY <1>6 DEF Validate, Require, Goto, Finish
<1>7. CASE Revalidate(a)
  BY <1>7 DEF Revalidate, AfterRevalidate, Goto, Finish
<1>8. CASE Rebind(a)
  BY <1>8 DEF Rebind, Require, Goto, Finish
<1>9. CASE Send(a)
  BY <1>9 DEF Send, Goto
<1>10. CASE Conclude(a)
  BY <1>10 DEF Conclude, Verdict, Goto, Finish
<1>11. CASE GiveUp(a)
  BY <1>11 DEF GiveUp, Finish, Goto
<1>12. CASE PortError(a)
  BY <1>12 DEF PortError, Finish, Goto, Stage
<1>13. CASE Release(a)
  BY <1>13 DEF Release, Require, Goto, Finish
<1>14. CASE Disclose(a)
  BY <1>14 DEF Disclose, Goto, Finish
<1>15. QED
  BY <1>1, <1>2, <1>3, <1>4, <1>5, <1>6, <1>7, <1>8, <1>9, <1>10, <1>11, <1>12, <1>13, <1>14 DEF Step

\* A step of one attempt leaves every other where it was.
LEMMA MoverLeavesOthers ==
    ASSUME IInv, NEW a \in Attempts, NEW b \in Attempts, b # a, Step(b)
    PROVE  UNCHANGED <<pc[a], phase[a], req[a], result[a]>>
<1>1. /\ DOMAIN pc = Attempts /\ DOMAIN phase = Attempts
      /\ DOMAIN req = Attempts /\ DOMAIN result = Attempts
  BY DEF IInv, TypeOK
<1>2. CASE Begin(b)
  BY <1>1, <1>2 DEF Begin, Goto, Finish
<1>3. CASE HostAuthorize(b)
  BY <1>1, <1>3 DEF HostAuthorize, AfterAuthorize, Asking, Require, Goto, Finish
<1>4. CASE AccountAuthorize(b)
  BY <1>1, <1>4 DEF AccountAuthorize, Asking, Require, Goto, Finish
<1>5. CASE Confirm(b)
  BY <1>1, <1>5 DEF Confirm, AfterAuthorize, Asking, Goto, Finish
<1>6. CASE Resolve(b)
  BY <1>1, <1>6 DEF Resolve, Bind, Goto, Finish
<1>7. CASE Validate(b)
  BY <1>1, <1>7 DEF Validate, Asking, Require, Goto, Finish
<1>8. CASE Revalidate(b)
  BY <1>1, <1>8 DEF Revalidate, AfterRevalidate, Goto, Finish
<1>9. CASE Rebind(b)
  BY <1>1, <1>9 DEF Rebind, Asking, Require, Goto, Finish
<1>10. CASE Send(b)
  BY <1>1, <1>10 DEF Send, Goto
<1>11. CASE Conclude(b)
  BY <1>1, <1>11 DEF Conclude, Asking, Goto, Finish
<1>12. CASE GiveUp(b)
  BY <1>1, <1>12 DEF GiveUp, Asking, Goto, Finish
<1>13. CASE PortError(b)
  BY <1>1, <1>13 DEF PortError, Asking, Goto, Finish
<1>14. CASE Release(b)
  BY <1>1, <1>14 DEF Release, Asking, Require, Goto, Finish
<1>15. CASE Disclose(b)
  BY <1>1, <1>15 DEF Disclose, Asking, Goto, Finish
<1>16. QED
  BY <1>2, <1>3, <1>4, <1>5, <1>6, <1>7, <1>8, <1>9, <1>10, <1>11, <1>12, <1>13, <1>14, <1>15 DEF Step

\* Nobody else moves an attempt.
LEMMA OthersLeaveAttempt ==
    ASSUME IInv, [Next]_vars, NEW a \in Attempts, ~Step(a)
    PROVE  UNCHANGED <<pc[a], phase[a], req[a], result[a]>>
<1>1. ASSUME NEW b \in Attempts, b # a, Step(b)
      PROVE  UNCHANGED <<pc[a], phase[a], req[a], result[a]>>
  BY <1>1, MoverLeavesOthers
<1>2. CASE Owner
  BY <1>2 DEF Owner, OwnerAccept, OwnerAnswer, OwnerLookup, OwnerSettle, progress
<1>3. CASE World
  BY <1>3 DEF World, Approve, Change, progress
<1>4. CASE UNCHANGED vars
  BY <1>4 DEF vars, progress
<1>5. QED
  BY <1>1, <1>2, <1>3, <1>4 DEF Next, AllDone

\* An attempt is answered after at most 38 of its own steps, whatever the owner, the
\* world and other attempts do in between, and its answer stays (AuthorizeTool,
\* execute, BeforeWrite and AuthorizeResult contain no loop).
THEOREM CallsComeToAnEnd == Spec => CallsRunDown
<1> DEFINE Ordered == \A a \in Attempts : OrderInv(a)
<1>1. Init => Ordered
  BY DEF Init, OrderInv
<1>2. ASSUME IInv, Ordered, [Next]_vars, NEW a \in Attempts
      PROVE  /\ OrderInv(a)'
             /\ StepsLeft(a) \in 1..39
             /\ pc[a] = "done" <=> result[a] # "none"
             /\ Step(a) => StepsLeft(a)' < StepsLeft(a)
             /\ ~Step(a) => UNCHANGED <<pc[a], phase[a], req[a], result[a]>>
             /\ result[a] # "none" => UNCHANGED <<pc[a], phase[a], req[a], result[a]>>
  <2>1. StepsLeft(a) \in 1..39 /\ (pc[a] = "done" <=> result[a] # "none")
    BY <1>2, StepsAreLeft DEF IInv, AttemptInv, OrderInv
  <2>2. CASE Step(a)
    BY <1>2, <2>1, <2>2, StepRunsDown
  <2>3. CASE ~Step(a)
    BY <1>2, <2>1, <2>3, OthersLeaveAttempt DEF OrderInv
  <2>4. QED
    BY <2>2, <2>3
<1>3. IInv /\ Ordered /\ [Next]_vars => Ordered'
  BY <1>2
<1>4. IInv /\ Ordered /\ [Next]_vars =>
        [\A a \in Attempts :
            /\ StepsLeft(a) \in 1..39
            /\ pc[a] = "done" <=> result[a] # "none"
            /\ Step(a) => StepsLeft(a)' < StepsLeft(a)
            /\ ~Step(a) => UNCHANGED <<pc[a], phase[a], req[a], result[a]>>
            /\ result[a] # "none" => UNCHANGED <<pc[a], phase[a], req[a], result[a]>>]_vars
  BY <1>2
<1>5. QED
  BY <1>1, <1>3, <1>4, AlwaysIInv, PTL DEF Spec, CallsRunDown

-----------------------------------------------------------------------------
(* Remote validation. What was validated was offered, and who validated    *)
(* with a lapsed approval gets no further than the repeated confirmation.  *)

Offered(a) == <<req[a].call.content, req[a].call.revision>> \in shown

ValidationInv(a) ==
    /\ pc[a] \in {"validate", "revalidate"} => BeforeWrite
    /\ pc[a] = "revalidate" \/ phase[a] = "recheck" => Offered(a)
    /\ pc[a] = "rebind" => phase[a] = "recheck"
    /\ BeforeWrite /\ req[a].kind = "invoke" /\ pc[a] = "send" => phase[a] = "recheck"
    /\ BeforeWrite /\ wire[a] \in {"write", "accepted"} => phase[a] = "recheck"
    /\ a \in lapsed =>
          /\ approval[req[a].call] = "withdrawn"
          /\ wire[a] = "none"
          /\ pc[a] = "done" \/ (phase[a] = "recheck" /\ pc[a] \in {"host", "account", "confirm"})

OfferInv ==
    /\ \A c \in catalog : <<c, revision>> \in shown
    /\ BeforeWrite => \A id \in RequestIDs : ledger[id].status # "none" =>
          <<ledger[id].call.content, ledger[id].revision>> \in shown

RemoteInv == OfferInv /\ \A a \in Attempts : ValidationInv(a)

\* An attempt that a step leaves alone keeps what it has, as nothing that was
\* offered is taken back and a withdrawn approval stays withdrawn.
LEMMA FrameKeepsValidation ==
    ASSUME IInv, NEW b \in Attempts, ValidationInv(b), Frame(b),
           shown \subseteq shown',
           \A c \in Call : approval[c] = "withdrawn" => approval'[c] = "withdrawn",
           b \in lapsed' => b \in lapsed,
           wire'[b] \in {"write", "accepted"} => wire[b] \in {"write", "accepted"}
    PROVE  ValidationInv(b)'
<1>1. b \in lapsed => req[b].call \in Call
  <2>1. b \in lapsed => pc[b] # "idle"
    BY DEF ValidationInv
  <2>2. QED
    BY <2>1, RequestTypes DEF IInv, AttemptInv
<1>2. QED
  BY <1>1 DEF ValidationInv, Offered, Frame

LEMMA AttemptKeepsRemote == ASSUME IInv, RemoteInv, NEW a \in Attempts, Step(a) PROVE RemoteInv'
<1>1. UNCHANGED <<ledger, approval, shown, catalog, revision>>
  BY DEF Step, Begin, HostAuthorize, AccountAuthorize, Confirm, Resolve, Validate, Revalidate,
         Rebind, Send, Conclude, GiveUp, PortError, Release, Disclose, Asking, world, owner
<1>2. OfferInv'
  BY <1>1 DEF RemoteInv, OfferInv
<1>3. ASSUME NEW b \in Attempts, b # a PROVE ValidationInv(b)'
  <2>1. Frame(b) /\ (b \in lapsed' => b \in lapsed)
    BY <1>3 DEF IInv, TypeOK, Frame, Step, Begin, HostAuthorize, AccountAuthorize, Confirm, Resolve,
           Validate, Revalidate, Rebind, Send, Conclude, GiveUp, PortError, Release, Disclose, Asking,
           AfterAuthorize, AfterRevalidate, Bind, Require, Goto, Finish, talk
  <2>2. wire'[b] = wire[b]
    BY <2>1 DEF Frame
  <2>3. QED
    BY <1>1, <2>1, <2>2, FrameKeepsValidation DEF RemoteInv
<1>4. ValidationInv(a)'
  <2>1. TypeOK /\ AttemptInv(a) /\ MessageInv(a) /\ ValidationInv(a) /\ OfferInv
    BY DEF IInv, RemoteInv
  <2> USE DEF TypeOK, ValidationInv, Offered
  <2>2. CASE Begin(a)
    <3>1. pc[a] = "idle" /\ phase[a] = "select" /\ wire[a] = "none" /\ a \notin lapsed
      BY <2>1, <2>2 DEF Begin, AttemptInv, MessageInv, Dispatched
    <3>2. /\ phase' = phase /\ wire' = wire /\ lapsed' = lapsed
          /\ pc'[a] \in {"host", "done"}
      BY <2>1, <2>2 DEF Begin, Goto, Finish, talk
    <3>3. QED
      BY <3>1, <3>2
  <2>3. CASE HostAuthorize(a)
    BY <1>1, <2>1, <2>3 DEF HostAuthorize, AfterAuthorize, Goto, Finish, Asking, talk, AttemptInv
  <2>4. CASE AccountAuthorize(a)
    BY <1>1, <2>1, <2>4 DEF AccountAuthorize, Require, Goto, Finish, Asking, talk
  <2>5. CASE Confirm(a)
    BY <1>1, <2>1, <2>5 DEF Confirm, AfterAuthorize, Goto, Finish, Asking, talk
  <2>6. CASE Resolve(a)
    BY <1>1, <2>1, <2>6 DEF Resolve, AfterResolve, ReceiptOnly, Bind, Goto, Finish, talk
  <2>7. CASE Validate(a)
    BY <1>1, <2>1, <2>7 DEF Validate, Require, ReadAccess, Goto, Finish, Asking, talk, OfferInv
  <2>8. CASE Revalidate(a)
    <3>1. wire[a] = "none"
      BY <2>1, <2>8 DEF Revalidate, MessageInv, Dispatched
    <3>2. QED
      BY <1>1, <2>1, <2>8, <3>1 DEF Revalidate, AfterRevalidate, Goto, Finish, talk
  <2>9. CASE Rebind(a)
    BY <1>1, <2>1, <2>9 DEF Rebind, Require, Goto, Finish, Asking, talk
  <2>10. CASE Send(a)
    BY <1>1, <2>1, <2>10 DEF Send, ReceiptOnly, Goto
  <2>11. CASE Conclude(a)
    BY <1>1, <2>1, <2>11 DEF Conclude, Verdict, Goto, Finish, Asking, talk
  <2>12. CASE GiveUp(a)
    BY <1>1, <2>1, <2>12 DEF GiveUp, Goto, Finish, Asking, talk
  <2>13. CASE PortError(a)
    BY <1>1, <2>1, <2>13 DEF PortError, Goto, Finish, Asking, talk
  <2>14. CASE Release(a)
    BY <1>1, <2>1, <2>14 DEF Release, Require, Goto, Finish, Asking, talk
  <2>15. CASE Disclose(a)
    BY <1>1, <2>1, <2>15 DEF Disclose, Goto, Finish, Asking, talk
  <2>16. QED
    BY <2>2, <2>3, <2>4, <2>5, <2>6, <2>7, <2>8, <2>9, <2>10, <2>11, <2>12, <2>13, <2>14, <2>15 DEF Step
<1>5. QED
  BY <1>2, <1>3, <1>4 DEF RemoteInv

\* The owner starts no conversation and takes none back.
Onwards(b) ==
    /\ wire'[b] \in {"write", "accepted"} => wire[b] \in {"write", "accepted"}
    /\ wire[b] = "none" => wire'[b] = "none"

LEMMA OwnerKeepsRemote == ASSUME IInv, RemoteInv, Owner PROVE RemoteInv'
<1>1. UNCHANGED <<world, progress>>
  BY DEF Owner, OwnerAccept, OwnerAnswer, OwnerLookup, OwnerSettle
<1>2. ASSUME NEW b \in Attempts PROVE Onwards(b)
  <2>1. ASSUME NEW a \in Attempts, OwnerAccept(a) PROVE Onwards(b)
    <3>1. /\ wire[a] = "write"
          /\ wire' = [wire EXCEPT ![a] = "accepted"] \/ wire' = [wire EXCEPT ![a] = "closed"]
      BY <2>1 DEF OwnerAccept, Reply
    <3>2. QED
      BY <3>1 DEF IInv, TypeOK, Onwards
  <2>2. ASSUME NEW a \in Attempts, OwnerAnswer(a) \/ OwnerLookup(a) PROVE Onwards(b)
    <3>1. wire[a] \in {"accepted", "lookup"} /\ wire' = [wire EXCEPT ![a] = "closed"]
      BY <2>2 DEF OwnerAnswer, OwnerLookup, Reply
    <3>2. QED
      BY <3>1 DEF IInv, TypeOK, Onwards
  <2>3. ASSUME NEW id \in RequestIDs, OwnerSettle(id) PROVE Onwards(b)
    BY <2>3 DEF OwnerSettle, talk, Onwards
  <2>4. QED
    BY <2>1, <2>2, <2>3 DEF Owner
<1>3. \A b \in Attempts : Onwards(b)
  BY <1>2
<1>4. ASSUME NEW b \in Attempts PROVE ValidationInv(b)'
  <2>1. /\ ValidationInv(b)
        /\ wire'[b] \in {"write", "accepted"} => wire[b] \in {"write", "accepted"}
        /\ wire[b] = "none" => wire'[b] = "none"
    <3>1. ValidationInv(b) /\ Onwards(b)
      BY <1>3 DEF RemoteInv
    <3>2. QED
      BY <3>1 DEF Onwards
  <2>2. /\ Offered(b)' <=> Offered(b)
        /\ UNCHANGED <<pc, phase, req, lapsed, approval>>
    BY <1>1 DEF Offered, world, progress
  <2>3. QED
    BY <2>1, <2>2 DEF ValidationInv
<1>5. ASSUME BeforeWrite, NEW id \in RequestIDs, ledger'[id].status # "none"
      PROVE  <<ledger'[id].call.content, ledger'[id].revision>> \in shown
  <2>1. CASE ledger[id].status # "none"
    <3>1. ledger'[id].call = ledger[id].call /\ ledger'[id].revision = ledger[id].revision
      <4>1. ledger \in [RequestIDs -> Receipt]
        BY DEF IInv, TypeOK
      <4>2. ASSUME NEW a \in Attempts, OwnerAccept(a) PROVE ledger'[id] = ledger[id]
        <5>1. CASE RequestID(req[a].call) = id
          BY <2>1, <4>2, <5>1 DEF OwnerAccept, OwnReceipt
        <5>2. CASE RequestID(req[a].call) # id
          BY <4>1, <4>2, <5>2 DEF OwnerAccept
        <5>3. QED
          BY <5>1, <5>2
      <4>3. ASSUME NEW i \in RequestIDs, OwnerSettle(i)
            PROVE  ledger'[id].call = ledger[id].call /\ ledger'[id].revision = ledger[id].revision
        <5>1. ledger[id] \in Receipt
          BY <4>1
        <5>2. QED
          BY <4>1, <4>3, <5>1 DEF OwnerSettle, Receipt
      <4>4. QED
        BY <4>2, <4>3 DEF Owner, OwnerAnswer, OwnerLookup, owner
    <3>2. QED
      BY <1>5, <2>1, <3>1 DEF RemoteInv, OfferInv
  <2>2. CASE ledger[id].status = "none"
    <3>1. ledger' # ledger /\ ~(\E i \in RequestIDs : OwnerSettle(i))
      BY <1>5, <2>2 DEF OwnerSettle, IInv, TypeOK
    <3>2. PICK a \in Attempts : OwnerAccept(a)
      BY <3>1 DEF Owner, OwnerAnswer, OwnerLookup, owner
    <3>3. /\ wire[a] = "write" /\ source[a] = revision
          /\ ledger' = [ledger EXCEPT ![RequestID(req[a].call)] =
                           [status |-> "pending", call |-> req[a].call, revision |-> revision]]
      BY <3>1, <3>2 DEF OwnerAccept, OwnerGrants
    <3>4. ledger'[id] = [status |-> "pending", call |-> req[a].call, revision |-> revision]
      BY <1>5, <2>2, <3>3 DEF IInv, TypeOK
    <3>5. phase[a] = "recheck" /\ Offered(a) /\ source[a] = req[a].call.revision
      BY <1>5, <3>3 DEF RemoteInv, ValidationInv, IInv, MessageInv
    <3>6. QED
      BY <3>3, <3>4, <3>5 DEF Offered
  <2>3. QED
    BY <2>1, <2>2
<1>6. OfferInv'
  BY <1>1, <1>5 DEF RemoteInv, OfferInv, world
<1>7. QED
  BY <1>4, <1>6 DEF RemoteInv

LEMMA WorldKeepsRemote == ASSUME IInv, RemoteInv, World PROVE RemoteInv'
<1>1. UNCHANGED <<owner, progress, talk>>
  BY DEF World, Change, Approve
<1>2. /\ shown \subseteq shown'
      /\ \A c \in Call : approval[c] = "withdrawn" => approval'[c] = "withdrawn"
      /\ \A c \in catalog' : <<c, revision'>> \in shown'
  BY DEF World, Change, Approve, Withdraw, SetPolicy, SetSubject, SetGrant, ReplaceAccount,
         SetCatalog, IInv, TypeOK, RemoteInv, OfferInv
<1>3. OfferInv'
  BY <1>1, <1>2 DEF RemoteInv, OfferInv, owner
<1>4. ASSUME NEW b \in Attempts PROVE ValidationInv(b)'
  <2>1. Frame(b) /\ lapsed' = lapsed /\ wire' = wire
    BY <1>1 DEF Frame, progress, talk
  <2>2. QED
    BY <1>2, <2>1, FrameKeepsValidation DEF RemoteInv
<1>5. QED
  BY <1>3, <1>4 DEF RemoteInv

LEMMA AlwaysRemote == Spec => []RemoteInv
<1>1. Init => RemoteInv
  BY DEF Init, RemoteInv, OfferInv, ValidationInv, NoReceipt
<1>2. IInv /\ RemoteInv /\ [Next]_vars => RemoteInv'
  <2> SUFFICES ASSUME IInv, RemoteInv, [Next]_vars PROVE RemoteInv'
    OBVIOUS
  <2>1. CASE UNCHANGED vars
    BY <2>1 DEF RemoteInv, OfferInv, ValidationInv, Offered, vars, world, owner, progress, talk
  <2>2. QED
    BY <2>1, AttemptKeepsRemote, OwnerKeepsRemote, WorldKeepsRemote DEF Next, AllDone
<1>3. QED
  BY <1>1, <1>2, AlwaysIInv, PTL DEF Spec

\* With remote validation the provider performs only what the remote catalog of
\* that account revision has offered.
THEOREM EffectsWereOffered == Spec => []EffectWasOffered
<1>1. IInv /\ RemoteInv => EffectWasOffered
  <2> SUFFICES ASSUME IInv, RemoteInv, BeforeWrite, NEW e \in effects
               PROVE  <<e.call.content, e.revision>> \in shown
    BY DEF EffectWasOffered
  <2>1. RequestID(e.call) \in RequestIDs
    BY RequestTypes DEF IInv, TypeOK, Effect
  <2>2. QED
    BY <2>1 DEF IInv, EffectInv, RemoteInv, OfferInv
<1>2. QED
  BY <1>1, AlwaysIInv, AlwaysRemote, PTL

\* The authorization after remote validation stops a write whose approval was
\* withdrawn in the meantime.
THEOREM LapsedStopsWrite == Spec => []LapsedApprovalStopsWrite
<1>1. IInv /\ RemoteInv => LapsedApprovalStopsWrite
  BY DEF IInv, TypeOK, RemoteInv, ValidationInv, LapsedApprovalStopsWrite
<1>2. QED
  BY <1>1, AlwaysIInv, AlwaysRemote, PTL

-----------------------------------------------------------------------------
(* The promise to the host *)

Final == {"completed", "failed"}

StatusOf(r) == IF r = "failed" THEN "failed" ELSE "succeeded"

\* Who has reported keeps the report.
Keeps(b) == result'[b] = result[b] /\ (result[b] \in Final => req'[b] = req[b])

LEMMA SameReports ==
    ASSUME \A b \in Attempts : Keeps(b)
    PROVE  UNCHANGED Reported
<1>1. \A b \in Attempts : result'[b] \in Final <=> result[b] \in Final
  BY DEF Keeps
<1>2. QED
  BY <1>1 DEF Keeps, Reported, Final

LEMMA OneMoreReport ==
    ASSUME NEW a \in Attempts, result[a] \notin Final,
           \A b \in Attempts : b # a => Keeps(b)
    PROVE  /\ result'[a] \notin Final => UNCHANGED Reported
           /\ result'[a] \in Final =>
                 Reported' = Reported \cup {[call |-> req'[a].call, status |-> StatusOf(result'[a])]}
<1>1. \A b \in Attempts : b # a => (result'[b] \in Final <=> result[b] \in Final)
  BY DEF Keeps
<1>2. CASE result'[a] \notin Final
  BY <1>1, <1>2 DEF Keeps, Reported, Final
<1>3. CASE result'[a] \in Final
  <2>1. Reported' \subseteq Reported \cup {[call |-> req'[a].call, status |-> StatusOf(result'[a])]}
    BY <1>1, <1>3 DEF Keeps, Reported, Final, StatusOf
  <2>2. Reported \subseteq Reported'
    BY <1>1, <1>3 DEF Keeps, Reported, Final
  <2>3. [call |-> req'[a].call, status |-> StatusOf(result'[a])] \in Reported'
    BY <1>3 DEF Reported, Final, StatusOf
  <2>4. QED
    BY <1>3, <2>1, <2>2, <2>3
<1>4. QED
  BY <1>2, <1>3

LEMMA AttemptImplements ==
    ASSUME IInv, IInv', NEW a \in Attempts, Step(a)
    PROVE  Outcome!Next \/ UNCHANGED Outcome!vars
<1>1. UNCHANGED <<ledger, approval>>
  BY DEF Step, Begin, HostAuthorize, AccountAuthorize, Confirm, Resolve, Validate, Revalidate,
         Rebind, Send, Conclude, GiveUp, PortError, Release, Disclose, Asking, world, owner
<1>2. UNCHANGED Settled /\ {c \in Call : approval'[c] # "none"} = {c \in Call : approval[c] # "none"}
  BY <1>1 DEF Settled
<1>3. result[a] \notin Final
  BY DEF Final, IInv, AttemptInv, Step, Begin, HostAuthorize, AccountAuthorize, Confirm, Resolve,
         Validate, Revalidate, Rebind, Send, Conclude, GiveUp, PortError, Release, Disclose
<1>4. ASSUME NEW b \in Attempts, b # a PROVE Keeps(b)
  BY <1>4, MoverLeavesOthers DEF Keeps
<1>5. CASE result'[a] \notin Final
  BY <1>2, <1>3, <1>4, <1>5, OneMoreReport DEF Outcome!vars
<1>6. CASE result'[a] \in Final
  <2>1. Reported' = Reported \cup {[call |-> req'[a].call, status |-> StatusOf(result'[a])]}
    BY <1>3, <1>4, <1>6, OneMoreReport
  <2>2. /\ req'[a].call \in Call
        /\ \/ [call |-> req'[a].call, status |-> StatusOf(result'[a])] \in Settled'
           \/ result'[a] = "failed" /\ req'[a].call.content \notin Valid
    <3>1. req'[a].call \in Call
      <4>1. req'[a] \in Requests
        BY <1>6 DEF IInv, AttemptInv, Final
      <4>2. QED
        BY <4>1, RequestTypes
    <3>2. CASE answer'[a] = StatusOf(result'[a])
      <4>1. /\ ledger'[RequestID(req'[a].call)].status = StatusOf(result'[a])
            /\ ledger'[RequestID(req'[a].call)].call = req'[a].call
        <5>1. answer'[a] \in {"succeeded", "failed"}
          BY <3>2 DEF StatusOf
        <5>2. (MessageInv(a))'
          BY DEF IInv
        <5>3. QED
          BY <3>2, <5>1, <5>2 DEF MessageInv, SameRequest, Asked, OwnReceipt
      <4>2. RequestID(req'[a].call) \in RequestIDs
        BY <3>1, RequestTypes
      <4>3. QED
        BY <3>1, <4>1, <4>2 DEF Settled, StatusOf
    <3>3. CASE answer'[a] # StatusOf(result'[a])
      BY <1>6, <3>1, <3>3 DEF IInv, MessageInv, Final, StatusOf
    <3>4. QED
      BY <3>2, <3>3
  <2>3. Outcome!Report(req'[a].call, StatusOf(result'[a]))
    BY <1>2, <2>1, <2>2 DEF Outcome!Report, StatusOf
  <2>4. StatusOf(result'[a]) \in {"succeeded", "failed"}
    BY DEF StatusOf
  <2>5. QED
    BY <2>2, <2>3, <2>4 DEF Outcome!Next
<1>7. QED
  BY <1>5, <1>6

\* Only a settlement adds a settled outcome, and it adds one.
LEMMA OneMoreSettled ==
    ASSUME NEW id \in RequestIDs, ledger[id].status = "pending",
           NEW status \in {"succeeded", "failed"},
           ledger' = [ledger EXCEPT ![id].status = status],
           TypeOK
    PROVE  Settled' = Settled \cup {[call |-> ledger[id].call, status |-> status]}
<1>1. ledger'[id].status = status /\ ledger'[id].call = ledger[id].call
  BY DEF TypeOK, Receipt
<1>2. \A i \in RequestIDs : i # id => ledger'[i] = ledger[i]
  BY DEF TypeOK
<1>3. Settled' \subseteq Settled \cup {[call |-> ledger[id].call, status |-> status]}
  BY <1>1, <1>2 DEF Settled
<1>4. Settled \subseteq Settled'
  BY <1>2 DEF Settled
<1>5. [call |-> ledger[id].call, status |-> status] \in Settled'
  BY <1>1 DEF Settled
<1>6. QED
  BY <1>3, <1>4, <1>5

LEMMA OwnerImplements ==
    ASSUME IInv, Owner
    PROVE  Outcome!Next \/ UNCHANGED Outcome!vars
<1>1. UNCHANGED Reported /\ UNCHANGED approval
  <2>1. UNCHANGED <<req, result, approval>>
    BY DEF Owner, OwnerAccept, OwnerAnswer, OwnerLookup, OwnerSettle, world, progress
  <2>2. QED
    BY <2>1 DEF Reported
<1>2. {c \in Call : approval'[c] # "none"} = {c \in Call : approval[c] # "none"}
  BY <1>1
<1>3. ASSUME NEW a \in Attempts, OwnerAccept(a)
      PROVE  UNCHANGED Outcome!vars
  <2>1. CASE UNCHANGED ledger
    BY <1>1, <1>2, <2>1 DEF Settled, Outcome!vars
  <2>2. CASE ledger' # ledger
    <3>1. /\ ledger[RequestID(req[a].call)].status = "none"
          /\ ledger' = [ledger EXCEPT ![RequestID(req[a].call)] =
                           [status |-> "pending", call |-> req[a].call, revision |-> revision]]
      BY <1>3, <2>2 DEF OwnerAccept, OwnReceipt
    <3>2. \A i \in RequestIDs :
             \/ ledger'[i] = ledger[i]
             \/ ledger[i].status = "none" /\ ledger'[i].status = "pending"
      BY <3>1 DEF IInv, TypeOK
    <3>3. UNCHANGED Settled
      BY <3>2 DEF Settled
    <3>4. QED
      BY <1>1, <1>2, <3>3 DEF Outcome!vars
  <2>3. QED
    BY <2>1, <2>2
<1>4. ASSUME NEW a \in Attempts, OwnerAnswer(a) \/ OwnerLookup(a)
      PROVE  UNCHANGED Outcome!vars
  <2>1. UNCHANGED ledger
    BY <1>4 DEF OwnerAnswer, OwnerLookup, owner
  <2>2. QED
    BY <1>1, <1>2, <2>1 DEF Settled, Outcome!vars
<1>5. ASSUME NEW id \in RequestIDs, OwnerSettle(id)
      PROVE  Outcome!Next
  <2>1. PICK status \in {"succeeded", "failed"} :
            ledger' = [ledger EXCEPT ![id].status = status]
    BY <1>5 DEF OwnerSettle
  <2>2. ledger[id].status = "pending"
    BY <1>5 DEF OwnerSettle
  <2>3. Settled' = Settled \cup {[call |-> ledger[id].call, status |-> status]}
    BY <2>1, <2>2, OneMoreSettled DEF IInv
  <2>4. /\ ledger[id].call \in Call /\ approval[ledger[id].call] # "none"
        /\ ledger[id].call.key = id
    BY <2>2 DEF IInv, ReceiptInv, RequestID
  <2>5. \A o \in Settled : o.call.key # ledger[id].call.key
    <3>1. ASSUME NEW i \in RequestIDs, ledger[i].status \in {"succeeded", "failed"}
          PROVE  ledger[i].call.key # ledger[id].call.key
      <4>1. ledger[i].call.key = i
        BY <3>1 DEF IInv, ReceiptInv, RequestID
      <4>2. QED
        BY <2>2, <2>4, <3>1, <4>1
    <3>2. QED
      BY <3>1 DEF Settled
  <2>6. Outcome!Settle(ledger[id].call, status)
    BY <1>1, <1>2, <2>3, <2>4, <2>5 DEF Outcome!Settle
  <2>7. QED
    BY <2>4, <2>6 DEF Outcome!Next
<1>6. QED
  BY <1>3, <1>4, <1>5 DEF Owner

LEMMA WorldImplements ==
    ASSUME IInv, World
    PROVE  Outcome!Next \/ UNCHANGED Outcome!vars
<1>1. UNCHANGED <<ledger, req, result>>
  BY DEF World, Approve, Change, owner, progress
<1>2. UNCHANGED Settled /\ UNCHANGED Reported
  BY <1>1 DEF Settled, Reported
<1>3. CASE Approve
  <2>1. PICK c \in Call : approval' = [approval EXCEPT ![c] = "approved"]
    BY <1>3 DEF Approve
  <2>2. {d \in Call : approval'[d] # "none"} = {d \in Call : approval[d] # "none"} \cup {c}
    BY <2>1 DEF IInv, TypeOK
  <2>3. Outcome!Approve(c)
    BY <1>2, <2>2 DEF Outcome!Approve
  <2>4. QED
    BY <2>3 DEF Outcome!Next
<1>4. CASE Withdraw
  <2>1. {c \in Call : approval'[c] # "none"} = {c \in Call : approval[c] # "none"}
    BY <1>4 DEF Withdraw, IInv, TypeOK
  <2>2. QED
    BY <1>2, <2>1 DEF Outcome!vars
<1>5. CASE UNCHANGED approval
  <2>1. {c \in Call : approval'[c] # "none"} = {c \in Call : approval[c] # "none"}
    BY <1>5
  <2>2. QED
    BY <1>2, <2>1 DEF Outcome!vars
<1>6. QED
  BY <1>3, <1>4, <1>5 DEF World, SetPolicy, SetSubject, SetGrant, ReplaceAccount, SetCatalog

\* The attempts, the owner and the world together keep the promise of
\* WriteOutcome: outcomes settle once per key, for approved calls only, and
\* every report made of a call agrees with them.
THEOREM Refinement == Spec => ImplementsOutcome
<1>1. Init => Outcome!Init
  <2>1. ASSUME Init PROVE {c \in Call : approval[c] # "none"} = {}
    BY <2>1 DEF Init
  <2>2. ASSUME Init PROVE Settled = {} /\ Reported = {}
    BY <2>2 DEF Init, Settled, Reported, NoReceipt
  <2>3. QED
    BY <2>1, <2>2 DEF Outcome!Init
<1>2. IInv /\ IInv' /\ [Next]_vars => [Outcome!Next]_(Outcome!vars)
  <2> SUFFICES ASSUME IInv, IInv', [Next]_vars
               PROVE  Outcome!Next \/ UNCHANGED Outcome!vars
    OBVIOUS
  <2>1. CASE \E a \in Attempts : Step(a)
    BY <2>1, AttemptImplements
  <2>2. CASE Owner
    BY <2>2, OwnerImplements
  <2>3. CASE World
    BY <2>3, WorldImplements
  <2>4. CASE UNCHANGED vars
    <3>1. UNCHANGED <<approval, ledger, req, result>>
      BY <2>4 DEF vars, world, owner, progress
    <3>2. {c \in Call : approval'[c] # "none"} = {c \in Call : approval[c] # "none"}
      BY <3>1
    <3>3. QED
      BY <3>1, <3>2 DEF Settled, Reported, Outcome!vars
  <2>5. QED
    BY <2>1, <2>2, <2>3, <2>4 DEF Next, AllDone
<1>3. QED
  BY <1>1, <1>2, AlwaysIInv, PTL DEF Spec, ImplementsOutcome, Outcome!Spec
=============================================================================
