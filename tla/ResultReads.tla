------------------------------ MODULE ResultReads ------------------------------
(***************************************************************************)
(* Reading the saved result of a tool: AuthorizeConversationToolResultRead *)
(* of a selection (registry.go) and what it calls, AuthorizeResultRead of  *)
(* the record tools (recordtools/result_read.go), of the account writes    *)
(* (accounttools/write_result_read.go) and of the plan tools               *)
(* (scheduletools/result_read.go). Reads of accounts and of reports are    *)
(* modelled in AccountRead and Reports.                                    *)
(*                                                                         *)
(* A read asks about rights and sources, one question after the other,     *)
(* and the world changes in between. One read is modelled: reads share     *)
(* nothing but that world. A saved result is a sequence of pieces, each    *)
(* of them a record revision, a plan, or the account that was written to.  *)
(*                                                                         *)
(* An operator Bug_X is the definition X with a plausible bug in it.       *)
(***************************************************************************)
EXTENDS Naturals, Sequences

CONSTANTS
    Items,       \* records, plans or accounts, numbered in the order of their IDs
    Contents,    \* what they may hold
    MaxPage,     \* bound: pieces of a page
    MaxRevision, \* bound: how often an item is revised
    MaxChanges,  \* bound: how often anything changes during a read
    Kinds        \* the results that are read

Records == {"recordList", "recordRead", "recordSave"}
Plans   == {"planList", "planCreate", "planGet", "planChange", "planDelete"}
Lists   == {"recordList", "planList"}

ASSUME ConstantsAssumption ==
    /\ Items \subseteq Nat \ {0}
    /\ Contents # {}
    /\ MaxPage \in Nat \ {0}
    /\ MaxRevision \in Nat \ {0, 1}
    /\ MaxChanges \in Nat
    /\ Kinds \subseteq Records \cup Plans \cup {"receipt"}

\* The reader is the producer of the result, the same user in another role, or
\* another user of the workspace.
Actors == {"producer", "successor", "stranger"}

\* The tools of a family a role may read with, or the account rights of a role:
\* to be resolved as a subject, and to have the account written to.
Rights == {"list", "read", "subject", "access"}

Revision == 0..MaxRevision
Item  == [content : Contents, revision : Revision, deleted : BOOLEAN]
Piece == [item : Items, content : Contents, revision : Revision]

VARIABLES
    may,      \* rights of each role
    source,   \* the items as their owner has them
    changes,  \* changes so far
    kind,     \* what was called
    reader,   \* who reads
    saved,    \* the pieces of the result
    named,    \* the item, or the cursor, that the call names; 0 for none
    expected, \* the revision that the call expects to change, or asks for; 0 for none
    limit,    \* the page size of the call
    recorded, \* whether the owner's receipt for the call is this result
    pc,       \* the question to ask next
    at,       \* the piece it is about
    again,    \* whether the rights are asked for the second time
    recent,   \* history: rights held at some moment since the last look at a source
    allowed,  \* history: plans the reader might read at some moment of their turn
    intact,   \* history: pieces the owner had as they were saved when looked at
    excuse    \* history: there was a reason to refuse at some moment

world   == <<may, source, changes>>
request == <<kind, reader, saved, named, expected, limit, recorded>>
history == <<recent, allowed, intact, excuse>>
vars    == <<world, request, pc, at, again, history>>

-----------------------------------------------------------------------------

Stage == {"idle", "reader", "access", "producer", "plan", "source", "receipt",
          "released", "refused"}

TypeOK ==
    /\ may \in [Actors -> SUBSET Rights]
    /\ source \in [Items -> Item]
    /\ changes \in 0..MaxChanges
    /\ kind \in Kinds
    /\ reader \in Actors
    /\ saved \in Seq(Piece)
    /\ named \in Items \cup {0}
    /\ expected \in Revision
    /\ limit \in 1..MaxPage
    /\ recorded \in BOOLEAN
    /\ pc \in Stage
    /\ at \in 1..(Len(saved) + 1)
    /\ again \in BOOLEAN
    /\ recent \in [Actors -> SUBSET Rights]
    /\ allowed \subseteq Nat
    /\ intact \subseteq Nat
    /\ excuse \in BOOLEAN

Snapshot(i) == [item |-> i, content |-> source[i].content, revision |-> source[i].revision]

\* A deleted plan has been opened before. A changed one has, too, but the result
\* may be that of another call, which opened the plan.
FirstRevisions == CASE kind = "planDelete" -> {2} [] kind = "planChange" -> {1, 2} [] OTHER -> {1}

\* The results that are read were given by the tool, to this call or another.
Init ==
    /\ may = [a \in Actors |-> Rights]
    /\ kind \in Kinds
    /\ reader \in Actors
    /\ \E c \in Contents, n \in FirstRevisions :
          source = [i \in Items |-> [content |-> c, revision |-> n, deleted |-> kind = "planDelete"]]
    /\ changes = 0
    /\ \E n \in IF kind \in Lists THEN 0..MaxPage ELSE {1} : \E f \in [1..n -> Items] :
          saved = [k \in 1..n |-> Snapshot(f[k])]
    /\ named \in Items \cup {0}
    /\ expected \in {n \in 0..2 : kind \in Lists \cup {"planCreate", "planGet"} => n = 0}
    /\ limit \in {n \in 1..MaxPage : kind \notin Lists => n = 1}
    /\ recorded \in {b \in BOOLEAN : kind \notin {"recordSave", "receipt"} => b}
    /\ pc = "idle"
    /\ at = 1
    /\ again = FALSE
    /\ recent = may
    /\ allowed = {}
    /\ intact = {}
    /\ excuse = FALSE

-----------------------------------------------------------------------------
(* What a result must be, and what its sources must be *)

Pieces == 1..Len(saved)

Previous(n) == IF n = 1 THEN named ELSE saved[n - 1].item

Bug_InOrder(n) == Previous(n) <= saved[n].item

\* A page goes on after its cursor, each item once.
InOrder(n) == Previous(n) < saved[n].item

\* The result fits the arguments of the call. Records belong to one user; the
\* order of a page of plans is looked at plan by plan.
WellFormed ==
    /\ kind \in Records => reader # "stranger"
    /\ kind \in Lists => Len(saved) <= limit
    /\ kind = "recordList" => \A n \in Pieces : InOrder(n)
    /\ kind \in {"recordRead", "planGet", "planChange", "planDelete"} => named = saved[1].item
    /\ kind = "recordRead" => expected \in {0, saved[1].revision}
    /\ kind \in {"planChange", "planDelete"} => expected >= 1
    /\ kind = "recordSave" => named \in {0, saved[1].item}
    /\ kind \in {"recordSave", "planChange", "planDelete"} => saved[1].revision = expected + 1

Bug_Unchanged(n) ==
    LET now == source[saved[n].item] IN
    now.content = saved[n].content /\ now.deleted = (kind = "planDelete")
        /\ now.revision = saved[n].revision

\* The owner still has a piece as it was saved. A record is looked up by its
\* revision; a plan may have been paused or resumed since; an account that was
\* authorized again, like a deleted plan, must be at the very revision. Plans
\* are looked up among those of the reader.
Unchanged(n) ==
    LET now == source[saved[n].item] IN
    /\ now.deleted = (kind = "planDelete")
    /\ now.content = saved[n].content
    /\ kind \in Plans => now.revision >= saved[n].revision /\ reader # "stranger"
    /\ kind \in {"planDelete", "receipt"} => now.revision = saved[n].revision

\* The right that a role is asked for.
Right == CASE kind \in Lists -> "list" [] kind = "receipt" -> "subject" [] OTHER -> "read"

-----------------------------------------------------------------------------
(* History *)

Looked == pc \in {"idle", "source", "receipt"}

Looking(n) == (pc = "source" /\ at = n) \/ (pc = "access" /\ again /\ n = 1)

\* The rights that a read depends on.
Needed ==
    CASE kind = "receipt" -> {"subject", "access"}
      [] kind = "planList" -> {"list", "read"}
      [] OTHER -> {Right}

\* What a reader would accept as a reason to refuse.
Reason ==
    \/ ~(Needed \subseteq may[reader])
    \/ kind \notin Plans /\ ~(Needed \subseteq may["producer"])
    \/ reader = "stranger" /\ kind # "receipt"
    \/ ~WellFormed
    \/ \E n \in Pieces :
        \/ Previous(n) >= saved[n].item /\ kind \in Lists
        \/ source[saved[n].item].content # saved[n].content
        \/ source[saved[n].item].deleted # (kind = "planDelete")
        \/ kind \in {"planDelete", "receipt"} /\ source[saved[n].item].revision # saved[n].revision
    \/ kind = "receipt" /\ (named # saved[1].item \/ expected # saved[1].revision)
    \/ ~recorded

Observe ==
    /\ recent' = IF Looked THEN may' ELSE [a \in Actors |-> recent[a] \cup may'[a]]
    /\ allowed' = allowed \cup
          {n \in Pieces : pc' \in {"plan", "source"} /\ at' = n /\ "read" \in may'[reader]}
    /\ intact' = intact \cup {n \in Pieces : Looking(n)' /\ Unchanged(n)'}

-----------------------------------------------------------------------------
(* The read *)

Require(condition, stage) == pc' = IF condition THEN stage ELSE "refused"

Asking ==
    /\ excuse' = (excuse \/ Reason)
    /\ UNCHANGED <<world, request>>

\* The selection and then the tool look at the result as it is.
Begin ==
    /\ pc = "idle"
    /\ Require(WellFormed, IF kind \in Plans \ Lists THEN "plan" ELSE "reader")
    /\ UNCHANGED <<at, again>>
    /\ Asking

\* After the reader's role the producer's, unless it is the same.
AfterReader ==
    CASE kind = "planList" -> IF saved = <<>> THEN "released" ELSE "plan"
      [] kind = "receipt" -> "access"
      [] OTHER -> IF again THEN "released" ELSE IF reader = "producer" THEN "source" ELSE "producer"

\* A receipt must be of the account, and of the authorization, the call names.
AskReader ==
    /\ pc = "reader"
    /\ Require(/\ Right \in may[reader]
               /\ kind = "receipt" =>
                    named = saved[1].item /\ expected = saved[1].revision, AfterReader)
    /\ UNCHANGED <<at, again>>
    /\ Asking

\* AuthorizeConnectionAccountWrite: the reader has the account, as it was.
AskAccess ==
    /\ pc = "access"
    /\ Require("access" \in may[reader] /\ Unchanged(1),
          IF again THEN "released" ELSE IF reader = "producer" THEN "receipt" ELSE "producer")
    /\ UNCHANGED <<at, again>>
    /\ Asking

AskProducer ==
    /\ pc = "producer"
    /\ Require(Right \in may["producer"],
          IF again THEN "reader" ELSE IF kind = "receipt" THEN "receipt" ELSE "source")
    /\ UNCHANGED <<at, again>>
    /\ Asking

\* readSavedPlan: the reader may read this plan.
AskPlan ==
    /\ pc = "plan"
    /\ Require("read" \in may[reader] /\ (kind = "planList" => InOrder(at)), "source")
    /\ UNCHANGED <<at, again>>
    /\ Asking

\* After the sources both roles are asked again, the reader's last.
SecondCheck == IF reader = "producer" THEN "reader" ELSE "producer"

Bug_AfterSources ==
    CASE kind \in Plans \cup {"recordList", "recordRead"} -> "released" [] OTHER -> "receipt"

AfterSources ==
    CASE kind \in Plans -> "released" [] kind = "recordSave" -> "receipt" [] OTHER -> SecondCheck

\* Store.Get, GetScheduledPlan or ReadScheduledPlanDeletion.
Look ==
    /\ pc = "source"
    /\ at \in Pieces
    /\ Require(Unchanged(at),
          IF at = Len(saved) THEN AfterSources ELSE IF kind \in Plans THEN "plan" ELSE "source")
    /\ at' = at + 1
    /\ again' = (at = Len(saved))
    /\ Asking

\* A page without records has no source to look at.
NoSource ==
    /\ pc = "source"
    /\ saved = <<>>
    /\ pc' = SecondCheck
    /\ again' = TRUE
    /\ UNCHANGED at
    /\ Asking

\* The receipt is the producer's, and Integration checks his access itself.
LookUpReceipt ==
    /\ pc = "receipt"
    /\ Require(recorded /\ (kind = "receipt" => "access" \in may["producer"]),
          IF kind = "receipt" THEN "reader" ELSE SecondCheck)
    /\ again' = TRUE
    /\ UNCHANGED at
    /\ Asking

\* A port fails or cannot read deletions, the time is up, or the read is
\* cancelled.
Fail ==
    /\ pc \notin {"idle", "released", "refused"}
    /\ pc' = "refused"
    /\ excuse' = TRUE
    /\ UNCHANGED <<world, request, at, again>>

Step ==
    \/ Begin \/ AskReader \/ AskAccess \/ AskProducer \/ AskPlan \/ Look \/ NoSource
    \/ LookUpReceipt \/ Fail

-----------------------------------------------------------------------------
(* The world *)

Change ==
    /\ changes < MaxChanges
    /\ changes' = changes + 1
    /\ UNCHANGED <<request, pc, at, again>>
    /\ excuse' = (excuse \/ Reason \/ Reason')

\* A role gains or loses a right.
SetRight(a, right) ==
    /\ may' = [may EXCEPT ![a] = IF right \in @ THEN @ \ {right} ELSE @ \cup {right}]
    /\ UNCHANGED source
    /\ Change

\* An item is corrected, or revised without touching what was saved of it: a new
\* head of a record, another status of a plan, a new authorization of an account.
Revise(i, content) ==
    /\ source[i].revision < MaxRevision
    /\ ~source[i].deleted
    /\ source' = [source EXCEPT ![i] =
          [content |-> content, revision |-> @.revision + 1, deleted |-> FALSE]]
    /\ UNCHANGED may
    /\ Change

\* An item is deleted. What is left of a deleted plan may be removed, too: there
\* is no deletion to be read then.
Delete(i) ==
    /\ source[i].deleted = (kind = "planDelete")
    /\ source' = [source EXCEPT ![i].deleted = ~@]
    /\ UNCHANGED may
    /\ Change

World ==
    \/ \E a \in Actors, right \in Rights : SetRight(a, right)
    \/ \E i \in Items : Delete(i) \/ \E c \in Contents : Revise(i, c)

Done == pc \in {"released", "refused"} /\ UNCHANGED vars

Next == ((Step \/ (pc \notin {"released", "refused"} /\ World)) /\ Observe) \/ Done

Spec == Init /\ [][Next]_vars

-----------------------------------------------------------------------------
(* Properties *)

\* What is released might be read at a moment after the last look at its source:
\* records by the reader and the producer, a receipt by the reader of the account.
\* A right withdrawn while their sources are looked at, and not given back, withdraws
\* them. Plans are not asked about again: each was read by the reader in its own
\* turn, and the right to it may be gone by the time the result is released.
ReleasedWasAllowed ==
    pc = "released" =>
        /\ kind \in Records => \A a \in {reader, "producer"} : Right \in recent[a]
        /\ kind = "receipt" => {"subject", "access"} \subseteq recent[reader]
        /\ kind \in Plans => Pieces \subseteq allowed

\* What is released is what its owners had when they were looked at: no record of
\* another user, no corrected or deleted plan, no receipt but the one recorded for
\* the call; a page is in order, after its cursor.
ReleasedIsAsSaved ==
    pc = "released" =>
        /\ Pieces \subseteq intact
        /\ recorded
        /\ kind \in Lists => \A m, n \in Pieces : m < n => saved[m].item < saved[n].item
        /\ reader = "stranger" /\ Pieces # {} => kind = "receipt"

\* A result is withdrawn for a reason only: a plan that was paused or resumed, and
\* a record with newer revisions, can still be read by who might read it.
RefusedForAReason == pc = "refused" => excuse
===============================================================================
