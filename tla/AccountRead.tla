------------------------------ MODULE AccountRead ------------------------------
(***************************************************************************)
(* Reading connected accounts (accounttools/adapter.go, availability.go): *)
(* a read of one account, the discovery of accounts page by page, the     *)
(* question whether there is any, and the release of a result that was    *)
(* saved, to its caller (AuthorizeResult) or to a reader of the record    *)
(* (AuthorizeResultRead), called through a selection (registry.go). The   *)
(* discovery of accounts to write to (write_discovery.go) is called an    *)
(* offer: it follows the same steps with the right to write, and so does  *)
(* the question whether there is any to write to. The web tools           *)
(* (webtools/adapter.go) use the one connection that the host chose.      *)
(*                                                                         *)
(* The engine keeps no state, and calls share nothing but the world around *)
(* them; one caller is modelled, with any number of changes of the world   *)
(* between two of his engine's questions. `changes' bounds them.           *)
(*                                                                         *)
(* An operator Bug_X is the definition X with a plausible bug in it. No     *)
(* specification uses one: each shows that a property notices that bug.    *)
(***************************************************************************)
EXTENDS Naturals, Sequences, FiniteSets

CONSTANTS
    Keys,        \* account keys, numbered in their order
    MaxVersion,  \* bound: how often an account is replaced
    MaxChanges,  \* bound: how often anything around the calls changes
    MaxRequests, \* bound: pages and releases the caller asks for
    Limits,      \* how many accounts a page may hold
    Stored,      \* the accounts there may be at first
    Connection,  \* the account the host chose for the web tools
    Kinds        \* what the caller does

Version == 1..MaxVersion

\* An account is in the owner's list or absent from it; the engine shows it when
\* it is active, ready and in the subject's scope. The owner may refuse to read it.
Rights == {"list", "read", "write"}
Account == [version : Version, shown : {"absent", "hidden", "open"}, readable : BOOLEAN]

ASSUME ConstantsAssumption ==
    /\ Keys \subseteq Nat
    /\ IsFiniteSet(Keys)
    /\ MaxVersion \in Nat \ {0}
    /\ MaxChanges \in Nat
    /\ MaxRequests \in Nat
    /\ Limits \subseteq Nat \ {0}
    /\ Stored \subseteq [Keys -> Account]
    /\ Connection \in Keys
    /\ Kinds \subseteq {"read", "discover", "offer", "available", "writable", "searchable"}

VARIABLES
    policy,   \* whether the host's Authorize grants the tool
    rights,   \* the account actions the resolver has a subject for
    accounts, \* the owner's accounts
    changes,  \* changes so far
    pc,       \* where the caller's request stands
    kind,     \* what it is
    purpose,  \* "invoke", or which release of the result
    asked,    \* requests so far
    wanted,   \* the account to read, and the version named for it
    limit,    \* size of the page
    cursor,   \* where the page begins: an offset into a list
    listing,  \* the accounts as they were listed
    todo,     \* accounts yet to look at
    items,    \* the sources of the result: <<key, version>>
    pages,    \* the pages of the walk that were handed over
    complete, \* whether the last page handed over was the final one
    answer,   \* to the availability question
    lately,   \* history: what was allowed at some moment of the present check
    steady    \* history: accounts open, readable and the same during the walk

world   == <<policy, rights, accounts, changes>>
request == <<kind, asked, wanted, limit, cursor>>
outcome == <<pages, complete, answer>>
vars    == <<world, pc, purpose, request, listing, todo, items, outcome, lately, steady>>

-----------------------------------------------------------------------------

Stage == {"idle", "select", "authorize", "listSubject", "readSubject", "list", "entry",
          "access", "fetch", "reply", "reauthorize", "resubject", "recheck",
          "outer", "release", "releaseSubject", "relistSubject", "relist", "source",
          "held", "refused", "answered"}

\* A cursor carries the list it was made for: its scope digests every key and
\* version of it. Offset 0 stands for no cursor.
Scope == [Keys -> Version \cup {0}]
Cursor == [offset : 0..Cardinality(Keys), scope : Scope]
NoCursor == [offset |-> 0, scope |-> [k \in Keys |-> 0]]

Source == Keys \X Version
Past == [granted : BOOLEAN, rights : SUBSET Rights, listed : SUBSET Source, readable : SUBSET Source]

TypeOK ==
    /\ policy \in BOOLEAN
    /\ rights \subseteq Rights
    /\ accounts \in [Keys -> Account]
    /\ changes \in 0..MaxChanges
    /\ pc \in Stage
    /\ kind \in Kinds
    /\ purpose \in {"invoke", "release", "reopen"}
    /\ asked \in 0..MaxRequests
    /\ wanted \in Keys \X (Version \cup {0})
    /\ limit \in Limits
    /\ cursor \in Cursor
    /\ listing \in [Keys -> Account]
    /\ todo \subseteq Keys
    /\ items \subseteq Source
    /\ pages \in Seq(SUBSET Source)
    /\ complete \in BOOLEAN
    /\ answer \in {"none", "yes", "no"}
    /\ lately \in Past
    /\ steady \subseteq Source

Discovering == kind \in {"discover", "offer"}

\* The questions whether there is an account to read, to write to, or to search
\* the web with.
Probing == kind \in {"available", "writable", "searchable"}

\* The account action a subject is resolved for. A saved offer may be read with
\* the right to read.
Right ==
    IF kind = "writable" \/ (kind = "offer" /\ purpose # "reopen") THEN "write" ELSE "read"

Current(k) == <<k, accounts[k].version>>

\* What is allowed right now.
Now ==
    [granted |-> policy,
     rights |-> rights,
     listed |-> {Current(k) : k \in {j \in Keys : accounts[j].shown = "open"}},
     readable |-> {Current(k) : k \in {j \in Keys : accounts[j].readable}}]

Init ==
    /\ policy = TRUE
    /\ rights = Rights
    /\ accounts \in Stored
    /\ changes = 0
    /\ pc = "idle"
    /\ kind \in Kinds
    /\ purpose = "invoke"
    /\ asked = 0
    /\ wanted \in Keys \X (Version \cup {0})
    /\ kind # "read" => wanted = <<CHOOSE k \in Keys : TRUE, 0>>
    /\ limit \in Limits
    /\ ~Discovering => limit = CHOOSE n \in Limits : TRUE
    /\ cursor = NoCursor
    /\ listing = accounts
    /\ todo = {}
    /\ items = {}
    /\ pages = <<>>
    /\ complete = FALSE
    /\ answer = "none"
    /\ lately = Now
    /\ steady = {}

-----------------------------------------------------------------------------
(* History: what was allowed during a check, and what a walk must find *)

Checking(stage) ==
    \/ stage \in {"reauthorize", "resubject", "recheck", "outer", "release",
                  "releaseSubject", "relistSubject", "relist", "source"}
    \/ Probing /\ stage \notin {"idle", "answered", "refused"}

Observe ==
    /\ lately' = IF ~Checking(pc') THEN lately
                 ELSE IF ~Checking(pc) THEN Now'
                 ELSE [granted |-> lately.granted \/ policy',
                       rights |-> lately.rights \cup rights',
                       listed |-> lately.listed \cup Now'.listed,
                       readable |-> lately.readable \cup Now'.readable]

Findable == {Current(k) : k \in {j \in Keys : accounts[j].shown = "open" /\ accounts[j].readable}}

-----------------------------------------------------------------------------
(* Helpers *)

Goto(stage) == pc' = stage

Refuse == Goto("refused")

Require(condition, stage) == Goto(IF condition THEN stage ELSE "refused")

\* An offer is checked with the right to list first, anything else with the
\* right to the accounts.
FirstCheck == IF kind = "offer" THEN "relistSubject" ELSE "releaseSubject"

\* A step that asks one question and goes on.
Asking == UNCHANGED <<world, purpose, request, listing, todo, items, outcome, steady>>

Present(list) == {k \in Keys : list[k].shown # "absent"}

\* Accounts are sorted by their key.
Position(list, k) == Cardinality({j \in Present(list) : j < k})

ScopeOf(list) == [k \in Keys |-> IF list[k].shown = "absent" THEN 0 ELSE list[k].version]

Bug_CursorFitsOffset(list) == cursor.offset <= Cardinality(Present(list))

\* A cursor goes on in the very list it was made for, or nowhere.
CursorFits(list) == cursor.offset = 0 \/ cursor.scope = ScopeOf(list)

\* Where the page ends: after `limit' accounts, or with the list.
End(list) ==
    IF cursor.offset + limit > Cardinality(Present(list))
    THEN Cardinality(Present(list)) ELSE cursor.offset + limit

Page(list) ==
    {k \in Present(list) : Position(list, k) >= cursor.offset /\ Position(list, k) < End(list)}

-----------------------------------------------------------------------------
(* The caller *)

\* Any kind of request; the availability question comes past the selection.
Begin ==
    /\ pc = "idle"
    /\ Goto(IF Probing THEN "listSubject" ELSE "select")
    /\ steady' = Findable
    /\ UNCHANGED <<world, purpose, request, listing, todo, items, outcome>>

\* The next page of a walk, or the same page again when it was refused.
NextPage ==
    /\ pc \in {"held", "refused"}
    /\ Discovering
    /\ ~complete
    /\ asked < MaxRequests
    /\ asked' = asked + 1
    /\ limit' \in Limits
    /\ purpose' = "invoke"
    /\ items' = {}
    /\ Goto("select")
    /\ UNCHANGED <<world, kind, wanted, cursor, listing, todo, outcome, steady>>

\* The host asks whether it may hand over the saved result again, or a reader
\* whether he may see it.
AskRelease ==
    /\ pc = "held" \/ (pc = "refused" /\ purpose # "invoke")
    /\ ~Probing
    /\ asked < MaxRequests
    /\ asked' = asked + 1
    /\ \/ purpose' = "release" /\ Goto("outer")
       \/ purpose' = "reopen" /\ Goto(FirstCheck)
    /\ todo' = {s[1] : s \in items}
    /\ UNCHANGED <<world, kind, wanted, limit, cursor, listing, items, outcome, steady>>

-----------------------------------------------------------------------------
(* Invoke *)

\* The selection asks the host first, Invoke once more.
Select == pc = "select" /\ Require(policy, "authorize") /\ Asking

Authorize ==
    /\ pc = "authorize"
    /\ Require(policy, IF kind = "read" THEN "readSubject" ELSE "listSubject")
    /\ Asking

ResolveList == pc = "listSubject" /\ Require("list" \in rights, "readSubject") /\ Asking

ResolveRead ==
    /\ pc = "readSubject"
    /\ Require(Right \in rights, IF kind = "read" THEN "access" ELSE "list")
    /\ Asking

\* A read: the owner authorizes it and names the source.
Access ==
    /\ pc = "access"
    /\ Require(accounts[wanted[1]].readable, "fetch")
    /\ items' = {Current(wanted[1])}
    /\ UNCHANGED <<world, purpose, request, listing, todo, outcome, steady>>

\* The owner reads; its answer may take its time, and it does not give out the
\* contents of a read that it has answered before.
Fetch ==
    /\ pc = "fetch"
    /\ \/ /\ accounts[wanted[1]].readable
          /\ Goto(IF Current(wanted[1]) \in items THEN "reply" ELSE "refused")
       \/ Refuse
    /\ Asking

\* The version the caller named was read.
Receive ==
    /\ pc = "reply"
    /\ Require(wanted[2] = 0 \/ wanted \in items, "reauthorize")
    /\ Asking

\* After the network the tool policy, the subject and the source are looked up
\* again.
Reauthorize == pc = "reauthorize" /\ Require(policy, "resubject") /\ Asking

Resubject == pc = "resubject" /\ Require("read" \in rights, "recheck") /\ Asking

Bug_UnchangedReadable(source) == accounts[source[1]].readable

\* AuthorizeConnectionAccountRead grants and returns the source as it was.
Unchanged(source) == accounts[source[1]].readable /\ Current(source[1]) = source

Recheck ==
    /\ pc = "recheck"
    /\ Require(\A s \in items : Unchanged(s), "held")
    /\ Asking

Bug_ListedAny == accounts

\* The web tools see no account but the one chosen; no other replaces it.
Listed ==
    [k \in Keys |-> IF kind = "searchable" /\ k # Connection
                   THEN [accounts[k] EXCEPT !.shown = "absent"] ELSE accounts[k]]

\* Discovery and availability list the accounts.
List ==
    /\ pc = "list"
    /\ listing' = Listed
    /\ \/ /\ Discovering /\ CursorFits(accounts)
          /\ todo' = Page(accounts)
          /\ Goto("entry")
       \/ /\ Discovering /\ ~CursorFits(accounts)
          /\ Refuse /\ UNCHANGED todo
       \/ /\ Probing
          /\ todo' = Present(Listed)
          /\ Goto("entry")
    /\ UNCHANGED <<world, purpose, request, items, outcome, steady>>

\* The next account to look at. Pages are in order, and so is the list.
Next1(k) == k \in todo /\ \A j \in todo : k <= j

\* A discovery asks the owner about every account it may show, and leaves out
\* those it cannot have, whether they are refused or the owner fails.
Entry ==
    /\ pc = "entry"
    /\ Discovering
    /\ \E k \in todo :
        /\ Next1(k)
        /\ todo' = todo \ {k}
        /\ \/ /\ listing[k].shown # "open" \/ ~accounts[k].readable
              /\ UNCHANGED <<pc, items, steady>>
           \/ /\ listing[k].shown = "open" /\ accounts[k].readable
              /\ IF accounts[k].version = listing[k].version
                 THEN items' = items \cup {Current(k)} /\ UNCHANGED pc
                 ELSE Refuse /\ UNCHANGED items
              /\ UNCHANGED steady
           \/ /\ listing[k].shown = "open"
              /\ steady' = steady \ {Current(k)}
              /\ UNCHANGED <<pc, items>>
    /\ UNCHANGED <<world, purpose, request, listing, outcome>>

\* The page is composed and goes through AuthorizeResult like a saved one.
Compose ==
    /\ pc = "entry"
    /\ Discovering
    /\ todo = {}
    /\ Goto("release")
    /\ todo' = {s[1] : s \in items}
    /\ UNCHANGED <<world, purpose, request, listing, items, outcome, steady>>

Bug_ProbeAnyVersion(k) == listing[k].shown = "open" /\ accounts[k].readable

Probe(k) ==
    /\ listing[k].shown = "open"
    /\ accounts[k].readable
    /\ accounts[k].version = listing[k].version

\* ConversationToolAvailable: the first account that can be read is enough.
Look ==
    /\ pc = "entry"
    /\ Probing
    /\ \/ todo = {} /\ answer' = "no" /\ Goto("answered") /\ UNCHANGED todo
       \/ \E k \in todo :
            /\ Next1(k)
            /\ \/ Probe(k) /\ answer' = "yes" /\ Goto("answered")
               \/ UNCHANGED <<answer, pc>>
            /\ todo' = todo \ {k}
    /\ UNCHANGED <<world, purpose, request, listing, items, pages, complete, steady>>

-----------------------------------------------------------------------------
(* AuthorizeResult and AuthorizeResultRead *)

\* The selection asks the host before it asks the engine.
Outer == pc = "outer" /\ Require(policy, "release") /\ Asking

Release == pc = "release" /\ Require(policy, FirstCheck) /\ Asking

ReleaseSubject ==
    /\ pc = "releaseSubject"
    /\ Require(Right \in rights,
          CASE kind = "read" -> "source"
            [] kind = "discover" -> "relistSubject"
            [] OTHER -> "relist")
    /\ Asking

RelistSubject ==
    /\ pc = "relistSubject"
    /\ Require("list" \in rights, IF kind = "offer" THEN "releaseSubject" ELSE "relist")
    /\ Asking

Bug_StillListedAnyway(source) == TRUE

StillListed(source) == accounts[source[1]].shown = "open" /\ Current(source[1]) = source

\* Names of accounts are shown by the list policy as it is now.
Relist ==
    /\ pc = "relist"
    /\ Require(\A s \in items : StillListed(s), "source")
    /\ Asking

\* Hand the result over; a page that was just composed continues the walk.
HandOver ==
    /\ Goto("held")
    /\ IF Discovering /\ purpose = "invoke"
       THEN /\ pages' = Append(pages, items)
            /\ complete' = (End(listing) = Cardinality(Present(listing)))
            /\ cursor' = IF complete' THEN cursor ELSE [offset |-> End(listing), scope |-> ScopeOf(listing)]
       ELSE UNCHANGED <<pages, complete, cursor>>

\* Each source is authorized again, one after the other.
CheckSource ==
    /\ pc = "source"
    /\ \/ /\ todo = {}
          /\ HandOver
          /\ UNCHANGED todo
       \/ \E s \in items :
            /\ Next1(s[1])
            /\ Require(Unchanged(s), "source")
            /\ todo' = todo \ {s[1]}
            /\ UNCHANGED <<pages, complete, cursor>>
    /\ UNCHANGED <<world, purpose, kind, asked, wanted, limit, listing, items, answer, steady>>

\* A port fails or the execution timeout ends the request.
Fail ==
    /\ pc \notin {"idle", "held", "refused", "answered"}
    /\ Refuse
    /\ Asking

Step ==
    /\ \/ Begin \/ NextPage \/ AskRelease
       \/ Select \/ Authorize \/ ResolveList \/ ResolveRead
       \/ Access \/ Fetch \/ Receive \/ Reauthorize \/ Resubject \/ Recheck
       \/ List \/ Entry \/ Compose \/ Look
       \/ Outer \/ Release \/ ReleaseSubject \/ RelistSubject \/ Relist \/ CheckSource
       \/ Fail
    /\ Observe

-----------------------------------------------------------------------------
(* The host, the resolver and the owner change (external) *)

SetAccount(k) ==
    /\ accounts' \in {[accounts EXCEPT ![k] = a] : a \in
            {a \in Account : a.version = accounts[k].version \/ a.version = accounts[k].version + 1}}
    /\ accounts' # accounts
    /\ UNCHANGED <<policy, rights>>

World ==
    /\ changes < MaxChanges
    /\ changes' = changes + 1
    /\ \/ policy' = ~policy /\ UNCHANGED <<rights, accounts>>
       \/ /\ \E r \in Rights : rights' = IF r \in rights THEN rights \ {r} ELSE rights \cup {r}
          /\ UNCHANGED <<policy, accounts>>
       \/ \E k \in Keys : SetAccount(k)
    /\ steady' = steady \cap Findable'
    /\ UNCHANGED <<pc, purpose, request, listing, todo, items, outcome>>
    /\ Observe

\* The caller need not ask for more.
Rest ==
    /\ pc \in {"held", "refused", "answered"}
    /\ UNCHANGED vars

Next == Step \/ World \/ Rest

Spec == Init /\ [][Next]_vars

-----------------------------------------------------------------------------
(* Properties *)

\* Whatever is handed over, by a read, a page or a release, could be read from
\* exactly this version of its account at a moment after the answer of the
\* network, or after the release was asked for, and its tool was granted at
\* such a moment; a reader of the record needs no grant of the tool.
HandedOverWasAllowed ==
    pc = "held" =>
        /\ Right \in lately.rights
        /\ items \subseteq lately.readable
        /\ purpose # "reopen" => lately.granted

\* A page, fresh or saved, names only accounts that the list policy showed at
\* a moment after the page was composed or its release was asked for.
NamesWereListed ==
    pc = "held" /\ Discovering => "list" \in lately.rights /\ items \subseteq lately.listed

\* A walk that is complete has found every account that was there to be found
\* all along, however accounts came, went and changed between its pages, and
\* no account is on two of its pages.
WalkIsExact ==
    /\ complete => \A s \in steady : \E i \in 1..Len(pages) : s \in pages[i]
    /\ \A i, j \in 1..Len(pages) : i # j =>
          {s[1] : s \in pages[i]} \cap {s[1] : s \in pages[j]} = {}

\* A tool is called available only for an account that was shown and could be
\* read, or written to, in one and the same version while the question was looked
\* into; a web tool only for the account that the host chose.
AvailableForOneAccount ==
    answer = "yes" =>
        /\ {"list", Right} \subseteq lately.rights
        /\ \E s \in lately.listed \cap lately.readable :
              kind = "searchable" => s[1] = Connection
===============================================================================
