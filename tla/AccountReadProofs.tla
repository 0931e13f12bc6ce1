--------------------------- MODULE AccountReadProofs ---------------------------
(***************************************************************************)
(* What is handed over by the account read engine was allowed at a moment  *)
(* of its last check, for any accounts, versions and changes, and a walk   *)
(* over the accounts is complete when it says so.                          *)
(***************************************************************************)
EXTENDS AccountRead, FiniteSetTheorems, TLAPS

-----------------------------------------------------------------------------
(* The flow of a request *)

Releasing == {"release", "releaseSubject", "relistSubject", "relist", "source"}

Invoking == {"idle", "select", "authorize", "listSubject", "readSubject", "list", "entry"}

\* Which requests come to which stage, and what they have gathered there.
FlowInv ==
    /\ pc \in {"access", "fetch", "reply", "reauthorize", "resubject", "recheck"} => kind = "read"
    /\ pc \in {"list", "entry"} => kind # "read"
    /\ pc \in {"select", "authorize", "outer", "held"} \cup Releasing => ~Probing
    /\ pc \in {"relistSubject", "relist"} => Discovering
    /\ pc = "outer" => purpose = "release"
    /\ pc \in Invoking => purpose = "invoke"
    /\ pc = "release" => purpose # "reopen"
    /\ pc \in {"idle", "select", "authorize", "listSubject", "readSubject", "list"} => items = {}
    /\ pc = "entry" => \A s \in items : s[1] \notin todo
    /\ \A s, t \in items : s[1] = t[1] => s = t
    /\ pc \in ({"outer"} \cup Releasing) \ {"source"} => \A s \in items : s[1] \in todo
    /\ answer # "none" => pc = "answered"

-----------------------------------------------------------------------------
(* Types *)

LEMMA AccountTypes ==
    ASSUME TypeOK
    PROVE  /\ \A k \in Keys : Current(k) \in Source /\ accounts[k] \in Account /\ listing[k] \in Account
           /\ \A k \in Keys : accounts[k].version \in Version /\ listing[k].version \in Version
           /\ ScopeOf(listing) \in Scope
           /\ Present(listing) \subseteq Keys /\ Present(accounts) \subseteq Keys
           /\ Now \in Past
           /\ limit \in Nat \ {0}
<1>1. /\ \A k \in Keys : Current(k) \in Source /\ accounts[k] \in Account /\ listing[k] \in Account
      /\ \A k \in Keys : accounts[k].version \in Version /\ listing[k].version \in Version
  BY DEF TypeOK, Account, Current, Source
<1>2. ScopeOf(listing) \in Scope
  BY <1>1 DEF ScopeOf, Scope
<1>3. Present(listing) \subseteq Keys /\ Present(accounts) \subseteq Keys
  BY DEF Present
<1>4. Now \in Past
  <2>1. {Current(k) : k \in {j \in Keys : accounts[j].shown = "open"}} \subseteq Source
    BY <1>1
  <2>2. {Current(k) : k \in {j \in Keys : accounts[j].readable}} \subseteq Source
    BY <1>1
  <2>3. QED
    BY <2>1, <2>2 DEF Now, Past, TypeOK
<1>5. limit \in Nat \ {0}
  BY ConstantsAssumption DEF TypeOK
<1>6. QED
  BY <1>1, <1>2, <1>3, <1>4, <1>5

\* A page ends within the list.
LEMMA EndType ==
    ASSUME TypeOK
    PROVE  /\ IsFiniteSet(Present(listing)) /\ Cardinality(Present(listing)) \in Nat
           /\ Cardinality(Present(listing)) <= Cardinality(Keys)
           /\ End(listing) \in 0..Cardinality(Keys)
           /\ End(listing) <= Cardinality(Present(listing))
           /\ cursor.offset \in Nat
<1>1. /\ IsFiniteSet(Present(listing)) /\ Cardinality(Present(listing)) \in Nat
      /\ Cardinality(Present(listing)) <= Cardinality(Keys) /\ Cardinality(Keys) \in Nat
  BY AccountTypes, ConstantsAssumption, FS_Subset, FS_CardinalityType
<1>2. cursor.offset \in Nat
  BY <1>1 DEF TypeOK, Cursor
<1>3. QED
  BY <1>1, <1>2, AccountTypes DEF End

\* The types that the steps of a request can disturb.
CoreTypes ==
    /\ pc \in Stage
    /\ purpose \in {"invoke", "release", "reopen"}
    /\ asked \in 0..MaxRequests
    /\ limit \in Limits
    /\ cursor \in Cursor
    /\ listing \in [Keys -> Account]
    /\ todo \subseteq Keys
    /\ items \subseteq Source
    /\ pages \in Seq(SUBSET Source)
    /\ complete \in BOOLEAN
    /\ answer \in {"none", "yes", "no"}
    /\ steady \subseteq Source

\* A step that asks a question: only the stage changes.
Question ==
    \/ Select \/ Authorize \/ ResolveList \/ ResolveRead \/ Fetch \/ Receive
    \/ Reauthorize \/ Resubject \/ Recheck \/ Outer \/ Release \/ ReleaseSubject
    \/ RelistSubject \/ Relist \/ Fail

LEMMA QuestionTypes ==
    ASSUME Question
    PROVE  /\ Asking /\ pc' \in Stage
           /\ pc' \notin {"idle", "select", "entry", "outer", "answered"}
<1> USE DEF Goto, Refuse, Require, Stage
<1>1. CASE Select \/ Authorize \/ ResolveList \/ ResolveRead
  BY <1>1 DEF Select, Authorize, ResolveList, ResolveRead
<1>2. CASE Fetch \/ Receive \/ Reauthorize \/ Resubject \/ Recheck
  BY <1>2 DEF Fetch, Receive, Reauthorize, Resubject, Recheck
<1>3. CASE Outer \/ Release \/ Relist \/ Fail
  BY <1>3 DEF Outer, Release, FirstCheck, Relist, Fail
<1>4. CASE ReleaseSubject
  BY <1>4 DEF ReleaseSubject
<1>5. CASE RelistSubject
  BY <1>5 DEF RelistSubject
<1>6. QED
  BY <1>1, <1>2, <1>3, <1>4, <1>5 DEF Question

LEMMA StepTypes ==
    ASSUME TypeOK, Step
    PROVE  CoreTypes' /\ UNCHANGED <<world, kind, wanted>> /\ Observe
<1> USE DEF Goto, Refuse, Require, Stage
<1>1. Observe
  BY DEF Step
<1>2. CASE Question
  <2>1. Asking /\ pc' \in Stage
    BY <1>2, QuestionTypes
  <2>2. UNCHANGED <<policy, rights, accounts, changes, kind, purpose, asked, wanted, limit, cursor,
                    listing, todo, items, pages, complete, answer, steady>>
    BY <2>1 DEF Asking, world, request, outcome
  <2>3. CoreTypes'
    BY <2>1, <2>2 DEF TypeOK, CoreTypes
  <2>4. QED
    BY <1>1, <2>2, <2>3 DEF world
<1>3. CASE Begin
  <2>1. Findable \subseteq Source
    BY AccountTypes DEF Findable
  <2>2. QED
    BY <1>3, <1>1, <2>1 DEF Begin, TypeOK, CoreTypes, request, outcome
<1>4. CASE NextPage
  BY <1>1, <1>4, ConstantsAssumption DEF NextPage, TypeOK, CoreTypes, outcome
<1>5. CASE AskRelease
  BY <1>1, <1>5, ConstantsAssumption DEF AskRelease, FirstCheck, TypeOK, CoreTypes, outcome, Source
<1>6. CASE Access
  <2>1. Current(wanted[1]) \in Source
    BY AccountTypes DEF TypeOK
  <2>2. QED
    BY <1>1, <1>6, <2>1 DEF Access, TypeOK, CoreTypes, request, outcome
<1>7. CASE List
  <2>1. Listed \in [Keys -> Account] /\ Page(accounts) \subseteq Keys /\ Present(Listed) \subseteq Keys
    BY AccountTypes DEF Listed, Account, Page, Present
  <2>2. QED
    BY <1>1, <1>7, <2>1 DEF List, TypeOK, CoreTypes, request, outcome
<1>8. CASE Entry
  <2>1. \A k \in todo : Current(k) \in Source
    BY AccountTypes DEF TypeOK
  <2>2. QED
    BY <1>1, <1>8, <2>1 DEF Entry, TypeOK, CoreTypes, request, outcome
<1>9. CASE Compose
  BY <1>1, <1>9 DEF Compose, TypeOK, CoreTypes, request, outcome, Source
<1>10. CASE Look
  BY <1>1, <1>10 DEF Look, TypeOK, CoreTypes, request
<1>11. CASE CheckSource
  <2>1. [offset |-> End(listing), scope |-> ScopeOf(listing)] \in Cursor
    BY EndType, AccountTypes DEF Cursor
  <2>2. pages \in Seq(SUBSET Source) /\ items \in SUBSET Source => Append(pages, items) \in Seq(SUBSET Source)
    OBVIOUS
  <2>3. HandOver => /\ pages' \in Seq(SUBSET Source) /\ complete' \in BOOLEAN /\ cursor' \in Cursor /\ pc' = "held"
    BY <2>1, <2>2 DEF HandOver, TypeOK
  <2>4. QED
    BY <1>1, <1>11, <2>3 DEF CheckSource, TypeOK, CoreTypes
<1>12. QED
  BY <1>1, <1>2, <1>3, <1>4, <1>5, <1>6, <1>7, <1>8, <1>9, <1>10, <1>11 DEF Step, Question

LEMMA ObserveTypes ==
    ASSUME TypeOK, Observe, Now' \in Past, policy' \in BOOLEAN, rights' \subseteq Rights
    PROVE  lately' \in Past
<1>1. /\ lately.granted \in BOOLEAN /\ lately.rights \subseteq Rights
      /\ lately.listed \subseteq Source /\ lately.readable \subseteq Source
      /\ Now'.listed \subseteq Source /\ Now'.readable \subseteq Source
  BY DEF TypeOK, Past
<1>2. [granted |-> lately.granted \/ policy', rights |-> lately.rights \cup rights',
       listed |-> lately.listed \cup Now'.listed,
       readable |-> lately.readable \cup Now'.readable] \in Past
  <2>1. (lately.granted \/ policy') \in BOOLEAN
    OBVIOUS
  <2>2. QED
    BY <1>1, <2>1, Zenon DEF Past
<1>3. QED
  BY <1>2 DEF Observe, TypeOK

LEMMA WorldTypes ==
    ASSUME TypeOK, World
    PROVE  /\ policy' \in BOOLEAN /\ rights' \subseteq Rights /\ accounts' \in [Keys -> Account]
           /\ changes' \in 0..MaxChanges
           /\ UNCHANGED <<pc, purpose, request, listing, todo, items, outcome>>
           /\ steady' = steady \cap Findable' /\ Observe
<1>1. accounts' \in [Keys -> Account]
  BY DEF World, SetAccount, TypeOK
<1>2. changes' \in 0..MaxChanges
  BY ConstantsAssumption DEF World, TypeOK
<1>3. policy' \in BOOLEAN /\ rights' \subseteq Rights
  BY DEF World, SetAccount, TypeOK
<1>4. QED
  BY <1>1, <1>2, <1>3 DEF World

LEMMA NowType ==
    policy \in BOOLEAN /\ rights \subseteq Rights /\ accounts \in [Keys -> Account] => Now \in Past
<1> SUFFICES ASSUME policy \in BOOLEAN, rights \subseteq Rights, accounts \in [Keys -> Account]
             PROVE  Now \in Past
  OBVIOUS
<1>1. \A k \in Keys : Current(k) \in Source
  BY DEF Account, Current, Source
<1>2. {Current(k) : k \in {j \in Keys : accounts[j].shown = "open"}} \subseteq Source
  BY <1>1
<1>3. {Current(k) : k \in {j \in Keys : accounts[j].readable}} \subseteq Source
  BY <1>1
<1>4. QED
  BY <1>2, <1>3 DEF Now, Past

LEMMA NowTypeNext ==
    policy' \in BOOLEAN /\ rights' \subseteq Rights /\ accounts' \in [Keys -> Account] => Now' \in Past
<1> SUFFICES ASSUME policy' \in BOOLEAN, rights' \subseteq Rights, accounts' \in [Keys -> Account]
             PROVE  Now' \in Past
  OBVIOUS
<1>1. \A k \in Keys : Current(k)' \in Source
  BY DEF Account, Current, Source
<1>2. {Current(k)' : k \in {j \in Keys : accounts'[j].shown = "open"}} \subseteq Source
  BY <1>1
<1>3. {Current(k)' : k \in {j \in Keys : accounts'[j].readable}} \subseteq Source
  BY <1>1
<1>4. QED
  BY <1>2, <1>3 DEF Now, Past, Current

LEMMA NextTypes == TypeOK /\ [Next]_vars => TypeOK'
<1> SUFFICES ASSUME TypeOK, [Next]_vars PROVE TypeOK'
  OBVIOUS
<1>1. CASE Step
  <2>1. Now' \in Past
    BY <1>1, StepTypes, NowTypeNext DEF TypeOK, world
  <2>2. QED
    BY <1>1, <2>1, StepTypes, ObserveTypes DEF TypeOK, CoreTypes, world
<1>2. CASE World
  <2>1. Now' \in Past
    BY <1>2, WorldTypes, NowTypeNext
  <2>2. QED
    BY <1>2, <2>1, WorldTypes, ObserveTypes DEF TypeOK, request, outcome
<1>3. CASE UNCHANGED vars
  BY <1>3 DEF TypeOK, vars, world, request, outcome
<1>4. QED
  BY <1>1, <1>2, <1>3 DEF Next, Rest

LEMMA InitTypes == Init => TypeOK
<1> SUFFICES ASSUME Init PROVE TypeOK
  OBVIOUS
<1>1. accounts \in [Keys -> Account] /\ rights \subseteq Rights /\ policy \in BOOLEAN
  BY ConstantsAssumption DEF Init
<1>2. Now \in Past
  BY <1>1, NowType
<1>3. NoCursor \in Cursor
  <2>1. Cardinality(Keys) \in Nat
    BY ConstantsAssumption, FS_CardinalityType
  <2>2. QED
    BY <2>1 DEF NoCursor, Cursor, Scope
<1>4. QED
  <2>1. /\ listing \in [Keys -> Account] /\ lately \in Past /\ cursor \in Cursor
        /\ wanted \in Keys \X (Version \cup {0}) /\ changes \in 0..MaxChanges
        /\ asked \in 0..MaxRequests
    BY <1>1, <1>2, <1>3, ConstantsAssumption DEF Init
  <2>2. pages \in Seq(SUBSET Source) /\ steady \subseteq Source /\ items \subseteq Source
    BY DEF Init
  <2>3. QED
    BY <1>1, <2>1, <2>2 DEF Init, TypeOK, Stage

\* Types hold throughout, whatever the constants.
THEOREM TypeCorrect == Spec => []TypeOK
BY InitTypes, NextTypes, PTL DEF Spec

-----------------------------------------------------------------------------
LEMMA StepFlow ==
    ASSUME TypeOK, FlowInv, Step
    PROVE  FlowInv'
<1> USE DEF Goto, Refuse, Require, FlowInv, Releasing, Invoking, Discovering, Probing, request, outcome
<1>0. kind \in {"read", "discover", "offer", "available", "writable", "searchable"} /\ kind' = kind
  BY ConstantsAssumption, StepTypes DEF TypeOK
<1>1. CASE Begin
  BY <1>0, <1>1 DEF Begin
<1>2. CASE NextPage
  BY <1>0, <1>2 DEF NextPage
<1>3. CASE AskRelease
  BY <1>0, <1>3 DEF AskRelease, FirstCheck
<1>4. CASE Select \/ Authorize \/ ResolveList \/ ResolveRead
  BY <1>0, <1>4 DEF Select, Authorize, ResolveList, ResolveRead, Asking
<1>5. CASE Access
  BY <1>0, <1>5 DEF Access
<1>6. CASE Fetch \/ Receive \/ Reauthorize \/ Resubject \/ Recheck
  BY <1>0, <1>6 DEF Fetch, Receive, Reauthorize, Resubject, Recheck, Asking
<1>7. CASE List
  BY <1>0, <1>7 DEF List
<1>8. CASE Entry
  BY <1>0, <1>8 DEF Entry, Current
<1>9. CASE Compose
  BY <1>0, <1>9 DEF Compose
<1>10. CASE Look
  BY <1>0, <1>10 DEF Look
<1>11. CASE Outer \/ Release
  BY <1>0, <1>11 DEF Outer, Release, FirstCheck, Asking
<1>12. CASE ReleaseSubject
  BY <1>0, <1>12 DEF ReleaseSubject, Asking
<1>13. CASE RelistSubject \/ Relist
  BY <1>0, <1>13 DEF RelistSubject, Relist, Asking
<1>14. CASE CheckSource
  BY <1>0, <1>14 DEF CheckSource, HandOver
<1>15. CASE Fail
  BY <1>0, <1>15 DEF Fail, Asking
<1>16. QED
  BY <1>1, <1>2, <1>3, <1>4, <1>5, <1>6, <1>7, <1>8, <1>9, <1>10, <1>11, <1>12, <1>13, <1>14, <1>15
     DEF Step

LEMMA NextFlow == TypeOK /\ FlowInv /\ [Next]_vars => FlowInv'
<1> SUFFICES ASSUME TypeOK, FlowInv, [Next]_vars PROVE FlowInv'
  OBVIOUS
<1>1. CASE Step
  BY <1>1, StepFlow
<1>2. CASE World
  BY <1>2 DEF World, request, outcome, FlowInv, Discovering, Probing
<1>3. CASE UNCHANGED vars
  BY <1>3 DEF vars, request, outcome, FlowInv, Discovering, Probing
<1>4. QED
  BY <1>1, <1>2, <1>3 DEF Next, Rest

LEMMA InitFlow == Init => FlowInv
BY DEF Init, FlowInv, Releasing, Invoking

-----------------------------------------------------------------------------
(* What was allowed *)

\* What is so now has been seen since the check began.
NowSeen ==
    Checking(pc) =>
        /\ policy => lately.granted
        /\ rights \subseteq lately.rights
        /\ Now.listed \subseteq lately.listed
        /\ Now.readable \subseteq lately.readable

\* What a stage says has been asked and answered since the check began.
GrantSeen ==
    /\ pc \in ({"resubject", "recheck", "held"} \cup Releasing) \ {"release"}
    /\ purpose # "reopen"
    => lately.granted

RightSeen ==
    pc \in {"recheck", "relist", "source", "held"} \/ (pc = "relistSubject" /\ kind = "discover")
    => Right \in lately.rights

ListSeen ==
    (pc \in {"relist", "source", "held"} /\ Discovering) \/ (pc = "releaseSubject" /\ kind = "offer")
    => "list" \in lately.rights

ItemsSeen ==
    /\ pc = "source" => \A s \in items : s[1] \notin todo => s \in lately.readable
    /\ pc = "held" => items \subseteq lately.readable
    /\ pc \in {"source", "held"} /\ Discovering => items \subseteq lately.listed

LookSeen ==
    Probing =>
        /\ pc \in {"readSubject", "list", "entry"} => "list" \in lately.rights
        /\ pc \in {"list", "entry"} => Right \in lately.rights
        /\ pc = "entry" =>
              \A k \in Keys : listing[k].shown = "open" =>
                  /\ <<k, listing[k].version>> \in lately.listed
                  /\ kind = "searchable" => k = Connection

SeenInv == NowSeen /\ GrantSeen /\ RightSeen /\ ListSeen /\ ItemsSeen /\ LookSeen /\ AvailableForOneAccount

-----------------------------------------------------------------------------
LEMMA WhatWasSeen ==
    ASSUME TypeOK, TypeOK', NowSeen, Observe, kind' = kind
    PROVE  /\ NowSeen'
           /\ ~Checking(pc)' => lately' = lately
           /\ Checking(pc) /\ Checking(pc)' =>
                 /\ lately.granted \/ policy' => lately'.granted
                 /\ lately.rights \subseteq lately'.rights /\ rights' \subseteq lately'.rights
                 /\ lately.listed \subseteq lately'.listed /\ Now'.listed \subseteq lately'.listed
                 /\ lately.readable \subseteq lately'.readable /\ Now'.readable \subseteq lately'.readable
<1>1. Checking(pc') <=> Checking(pc)'
  BY DEF Checking, Probing
<1>2. Now'.granted = policy' /\ Now'.rights = rights'
  BY DEF Now
<1>3. CASE ~Checking(pc)'
  BY <1>1, <1>3 DEF Observe, NowSeen
<1>4. CASE Checking(pc)' /\ ~Checking(pc)
  <2>1. lately' = Now'
    BY <1>1, <1>4 DEF Observe
  <2>2. QED
    BY <1>2, <1>4, <2>1 DEF NowSeen
<1>5. CASE Checking(pc)' /\ Checking(pc)
  <2>1. /\ lately'.granted = (lately.granted \/ policy')
        /\ lately'.rights = lately.rights \cup rights'
        /\ lately'.listed = lately.listed \cup Now'.listed
        /\ lately'.readable = lately.readable \cup Now'.readable
    BY <1>1, <1>5 DEF Observe
  <2>2. QED
    BY <1>5, <2>1 DEF NowSeen
<1>6. QED
  BY <1>3, <1>4, <1>5

\* Who passes a check now has been seen to.
LEMMA SourceSeen ==
    ASSUME TypeOK, NowSeen, Checking(pc), NEW s \in Source
    PROVE  /\ Unchanged(s) => s \in lately.readable
           /\ StillListed(s) => s \in lately.listed
<1>1. /\ Now.listed = {Current(k) : k \in {j \in Keys : accounts[j].shown = "open"}}
      /\ Now.readable = {Current(k) : k \in {j \in Keys : accounts[j].readable}}
  BY DEF Now
<1>2. s[1] \in Keys
  BY DEF Source
<1>3. Unchanged(s) => s \in Now.readable
  BY <1>1, <1>2 DEF Unchanged
<1>4. StillListed(s) => s \in Now.listed
  BY <1>1, <1>2 DEF StillListed
<1>5. QED
  BY <1>3, <1>4 DEF NowSeen

LEMMA StepSeen ==
    ASSUME TypeOK, TypeOK', FlowInv, FlowInv', SeenInv, Step
    PROVE  SeenInv'
<1> USE DEF Goto, Refuse, Require, Releasing, Invoking, Discovering, Probing, Checking, Right,
            GrantSeen, RightSeen, ListSeen, LookSeen
<1>0. /\ kind \in {"read", "discover", "offer", "available", "writable", "searchable"} /\ kind' = kind
      /\ UNCHANGED <<policy, rights, accounts>> /\ Observe /\ NowSeen
  BY ConstantsAssumption, StepTypes DEF TypeOK, SeenInv, world
<1>a. NowSeen'
  BY <1>0, WhatWasSeen
<1>b. /\ GrantSeen /\ RightSeen /\ ListSeen /\ ItemsSeen /\ LookSeen /\ AvailableForOneAccount
      /\ FlowInv
  BY DEF SeenInv
<1>c. Now' = Now
  BY <1>0 DEF Now, Current
<1>1. CASE Begin \/ NextPage \/ AskRelease
  BY <1>0, <1>1, <1>a, <1>b, WhatWasSeen
     DEF Begin, NextPage, AskRelease, FirstCheck, SeenInv, ItemsSeen, AvailableForOneAccount, outcome, request, FlowInv
<1>4. CASE Select \/ Authorize \/ ResolveList \/ ResolveRead
  BY <1>0, <1>4, <1>a, <1>b, WhatWasSeen
     DEF Select, Authorize, ResolveList, ResolveRead, Asking, SeenInv, ItemsSeen, AvailableForOneAccount, outcome, request, NowSeen, FlowInv
<1>5. CASE Access
  BY <1>0, <1>5, <1>a, <1>b, WhatWasSeen DEF Access, SeenInv, ItemsSeen, AvailableForOneAccount, outcome, request, FlowInv
<1>6. CASE Fetch \/ Receive \/ Reauthorize \/ Resubject
  BY <1>0, <1>6, <1>a, <1>b, WhatWasSeen
     DEF Fetch, Receive, Reauthorize, Resubject, Asking, SeenInv, ItemsSeen, AvailableForOneAccount, outcome, request, NowSeen, FlowInv
<1>7. CASE Recheck
  <2>1. /\ kind = "read" /\ pc = "recheck" /\ UNCHANGED <<items, answer, purpose, todo, listing>>
        /\ pc' \in {"held", "refused"} /\ lately' = lately
    BY <1>0, <1>7, <1>b, WhatWasSeen DEF Recheck, Asking, outcome, request, FlowInv
  <2>2. pc' = "held" => items \subseteq lately.readable
    BY <1>0, <1>7, <2>1, SourceSeen DEF Recheck, TypeOK
  <2>3. ItemsSeen'
    BY <1>0, <2>1, <2>2 DEF ItemsSeen
  <2>4. QED
    BY <1>0, <1>a, <1>b, <2>1, <2>3 DEF SeenInv, AvailableForOneAccount
<1>8. CASE List
  BY <1>0, <1>8, <1>a, <1>b, <1>c, WhatWasSeen
     DEF List, Listed, SeenInv, ItemsSeen, AvailableForOneAccount, outcome, request, NowSeen, Now, Current, FlowInv
<1>9. CASE Entry \/ Compose
  BY <1>0, <1>9, <1>a, <1>b, WhatWasSeen
     DEF Entry, Compose, SeenInv, ItemsSeen, AvailableForOneAccount, outcome, request, FlowInv
<1>10. CASE Look
  <2>1. /\ pc = "entry" /\ Probing /\ pc' \in {"entry", "answered"}
        /\ UNCHANGED <<items, purpose, listing>>
        /\ {"list", Right} \subseteq lately.rights
    BY <1>0, <1>10, <1>b DEF Look, request
  <2>2. answer' = "yes" /\ pc' # "entry" =>
           /\ \E s \in lately.listed \cap lately.readable : kind = "searchable" => s[1] = Connection
           /\ lately' = lately
    <3>1. SUFFICES ASSUME answer' = "yes", pc' # "entry"
                   PROVE  \E s \in lately.listed \cap lately.readable :
                             kind = "searchable" => s[1] = Connection
      BY <1>0, <2>1, WhatWasSeen
    <3>2. PICK k \in todo : Probe(k)
      BY <1>10, <1>b, <2>1, <3>1 DEF Look, FlowInv
    <3>3. k \in Keys /\ Current(k) \in Source /\ Current(k) = <<k, listing[k].version>>
      BY <3>2, AccountTypes DEF TypeOK, Probe, Current
    <3>4. Current(k) \in lately.listed /\ (kind = "searchable" => k = Connection)
      BY <1>b, <2>1, <3>2, <3>3 DEF Probe
    <3>5. Unchanged(Current(k))
      BY <3>2, <3>3 DEF Probe, Unchanged, Current
    <3>6. QED
      BY <1>0, <2>1, <3>3, <3>4, <3>5, SourceSeen
  <2>3. AvailableForOneAccount'
    <3>1. pc' = "entry" => answer' = "none"
      BY FlowInv', <2>1, <1>0 DEF FlowInv, TypeOK
    <3>2. QED
      BY <1>0, <2>1, <2>2, <3>1 DEF AvailableForOneAccount, FlowInv
  <2>4. LookSeen'
    BY <1>0, <1>b, <2>1, WhatWasSeen
  <2>5. QED
    BY <1>0, <1>a, <2>1, <2>3, <2>4 DEF SeenInv, ItemsSeen
<1>11. CASE Outer \/ Release \/ ReleaseSubject \/ RelistSubject
  BY <1>0, <1>11, <1>a, <1>b, WhatWasSeen
     DEF Outer, Release, ReleaseSubject, RelistSubject, FirstCheck, Asking, SeenInv, ItemsSeen, AvailableForOneAccount, outcome, request, NowSeen, FlowInv
<1>13. CASE Relist
  <2>1. /\ Discovering /\ pc = "relist" /\ UNCHANGED <<items, answer, purpose, todo, listing>>
        /\ pc' \in {"source", "refused"} /\ \A s \in items : s[1] \in todo
    BY <1>0, <1>13, <1>b DEF Relist, Asking, outcome, request, FlowInv
  <2>2. pc' = "source" => items \subseteq lately'.listed
    <3>1. pc' = "source" => items \subseteq lately.listed
      BY <1>0, <1>13, <2>1, SourceSeen DEF Relist, TypeOK
    <3>2. QED
      BY <1>0, <2>1, <3>1, WhatWasSeen
  <2>3. ItemsSeen'
    BY <1>0, <2>1, <2>2 DEF ItemsSeen
  <2>4. GrantSeen' /\ RightSeen' /\ ListSeen' /\ LookSeen'
    BY <1>0, <1>b, <2>1, WhatWasSeen
  <2>5. QED
    BY <1>0, <1>a, <1>b, <2>1, <2>3, <2>4, WhatWasSeen DEF SeenInv, AvailableForOneAccount, FlowInv
<1>14. CASE CheckSource
  <2>1. /\ pc = "source" /\ ~Probing /\ UNCHANGED <<items, answer, purpose, listing>>
        /\ pc' \in {"source", "held", "refused"}
    BY <1>0, <1>14, <1>b DEF CheckSource, HandOver, FlowInv
  <2>2. pc' = "held" => todo = {} /\ lately' = lately
    BY <1>0, <1>14, <2>1, WhatWasSeen DEF CheckSource, HandOver
  <2>3. pc' = "source" => \A s \in items : s[1] \notin todo' => s \in lately'.readable
    <3>1. SUFFICES ASSUME pc' = "source", NEW s \in items, s[1] \notin todo'
                   PROVE  s \in lately.readable
      BY <1>0, <2>1, WhatWasSeen
    <3>2. CASE s[1] \notin todo
      BY <1>b, <2>1, <3>2 DEF ItemsSeen
    <3>3. CASE s[1] \in todo
      <4>1. PICK r \in items : Require(Unchanged(r), "source") /\ todo' = todo \ {r[1]}
        BY <1>14, <3>1, <3>3 DEF CheckSource, HandOver
      <4>2. r = s /\ Unchanged(s)
        BY <1>b, <3>1, <3>3, <4>1 DEF FlowInv
      <4>3. QED
        BY <1>0, <2>1, <4>2, SourceSeen DEF TypeOK
    <3>4. QED
      BY <3>2, <3>3
  <2>4. ItemsSeen'
    BY <1>0, <1>b, <2>1, <2>2, <2>3, WhatWasSeen DEF ItemsSeen
  <2>5. GrantSeen' /\ RightSeen' /\ ListSeen' /\ LookSeen'
    BY <1>0, <1>b, <2>1, <2>2, WhatWasSeen
  <2>6. QED
    BY <1>0, <1>a, <1>b, <2>1, <2>4, <2>5, WhatWasSeen DEF SeenInv, AvailableForOneAccount, FlowInv
<1>15. CASE Fail
  BY <1>0, <1>15, <1>a, <1>b, WhatWasSeen DEF Fail, Asking, SeenInv, ItemsSeen, AvailableForOneAccount, outcome, request, FlowInv
<1>16. QED
  BY <1>1, <1>4, <1>5, <1>6, <1>7, <1>8, <1>9, <1>10, <1>11, <1>13, <1>14, <1>15 DEF Step

LEMMA NextSeen == TypeOK /\ TypeOK' /\ FlowInv /\ FlowInv' /\ SeenInv /\ [Next]_vars => SeenInv'
<1> SUFFICES ASSUME TypeOK, TypeOK', FlowInv, FlowInv', SeenInv, [Next]_vars PROVE SeenInv'
  OBVIOUS
<1> USE DEF Releasing, Discovering, Probing, Checking, Right, GrantSeen, RightSeen, ListSeen, LookSeen
<1>1. CASE Step
  BY <1>1, StepSeen
<1>2. CASE World
  <2>1. /\ UNCHANGED <<pc, kind, purpose, items, todo, listing, answer>> /\ Observe
        /\ GrantSeen /\ RightSeen /\ ListSeen /\ ItemsSeen /\ LookSeen /\ AvailableForOneAccount
    BY <1>2 DEF World, request, outcome, SeenInv
  <2>2. NowSeen'
    BY <2>1, WhatWasSeen DEF SeenInv
  <2>3. GrantSeen' /\ RightSeen' /\ ListSeen' /\ LookSeen'
    BY <2>1, WhatWasSeen DEF SeenInv
  <2>4. ItemsSeen' /\ AvailableForOneAccount'
    BY <2>1, WhatWasSeen DEF SeenInv, ItemsSeen, AvailableForOneAccount, FlowInv
  <2>5. QED
    BY <2>2, <2>3, <2>4 DEF SeenInv
<1>3. CASE UNCHANGED vars
  <2>1. UNCHANGED <<policy, rights, accounts, pc, kind, purpose, items, todo, listing, answer, lately>>
    BY <1>3 DEF vars, world, request, outcome
  <2>2. NowSeen'
    BY <2>1 DEF SeenInv, NowSeen, Now, Current
  <2>3. QED
    BY <2>1, <2>2 DEF SeenInv, ItemsSeen, AvailableForOneAccount
<1>4. QED
  BY <1>1, <1>2, <1>3 DEF Next, Rest

LEMMA InitSeen == Init => SeenInv
BY DEF Init, SeenInv, NowSeen, GrantSeen, RightSeen, ListSeen, ItemsSeen, LookSeen,
       AvailableForOneAccount, Checking, Releasing

\* Stages, types and what has been seen agree in every state: the inductive
\* invariant of the three theorems below.
THEOREM Seen == Spec => [](TypeOK /\ FlowInv /\ SeenInv)
BY InitTypes, NextTypes, InitFlow, NextFlow, InitSeen, NextSeen, PTL DEF Spec

\* Whatever is handed over, fresh or saved, could be read at a moment of its
\* last check, for any accounts, owners and changes of what is allowed.
THEOREM HandedOver == Spec => []HandedOverWasAllowed
<1>1. FlowInv /\ SeenInv => HandedOverWasAllowed
  BY DEF SeenInv, GrantSeen, RightSeen, ItemsSeen, HandedOverWasAllowed
<1>2. QED
  BY <1>1, Seen, PTL

\* Names are only shown as the list policy showed them during the last check.
THEOREM Named == Spec => []NamesWereListed
<1>1. SeenInv => NamesWereListed
  BY DEF SeenInv, ListSeen, ItemsSeen, NamesWereListed
<1>2. QED
  BY <1>1, Seen, PTL

\* A tool is called available for an account, not for what two accounts or two
\* versions of one would make up together.
THEOREM Available == Spec => []AvailableForOneAccount
<1>1. SeenInv => AvailableForOneAccount
  BY DEF SeenInv
<1>2. QED
  BY <1>1, Seen, PTL

-----------------------------------------------------------------------------
(* The walk *)

\* How many accounts of a list come before one of them.
PositionIn(scope, k) == Cardinality({j \in Keys : scope[j] # 0 /\ j < k})

\* The cursor has left the account behind.
WalkedPast(k) == PositionIn(cursor.scope, k) < cursor.offset

Composing == Discovering /\ purpose = "invoke" /\ pc \in {"entry"} \cup Releasing

\* A page in the making continues the walk, and has or will look at every
\* steady account that belongs on it.
PageInv ==
    Composing =>
        /\ CursorFits(listing)
        /\ pc = "entry" => todo \subseteq Page(listing)
        /\ \A s \in items : s[1] \in Page(listing)
        /\ \A s \in steady : listing[s[1]].shown = "open"
        /\ \A s \in steady :
              s[1] \in Page(listing) => s \in items \/ (pc = "entry" /\ s[1] \in todo)

\* The pages handed over are what the cursor has left behind.
PagesInv ==
    ~complete =>
        /\ \A i \in 1..Len(pages) : \A s \in pages[i] : WalkedPast(s[1])
        /\ \A s \in steady : WalkedPast(s[1]) => \E i \in 1..Len(pages) : s \in pages[i]

WalkInv ==
    /\ pc = "idle" => cursor.offset = 0
    /\ steady \subseteq Findable
    /\ complete => pc = "held" \/ purpose # "invoke"
    /\ PageInv
    /\ PagesInv
    /\ WalkIsExact

-----------------------------------------------------------------------------
(* Places in the list *)

LEMMA PositionType ==
    ASSUME NEW scope, NEW k
    PROVE  PositionIn(scope, k) \in Nat
<1>1. {j \in Keys : scope[j] # 0 /\ j < k} \subseteq Keys
  OBVIOUS
<1>2. QED
  BY <1>1, ConstantsAssumption, FS_Subset, FS_CardinalityType DEF PositionIn

LEMMA Places ==
    ASSUME TypeOK, NEW k \in Keys
    PROVE  /\ PositionIn(ScopeOf(listing), k) = Position(listing, k)
           /\ Position(listing, k) \in Nat
           /\ k \in Present(listing) => Position(listing, k) < Cardinality(Present(listing))
<1>1. \A j \in Keys : ScopeOf(listing)[j] # 0 <=> j \in Present(listing)
  BY AccountTypes DEF ScopeOf, Present, Version
<1>2. {j \in Keys : ScopeOf(listing)[j] # 0 /\ j < k} = {j \in Present(listing) : j < k}
  BY <1>1 DEF Present
<1>3. PositionIn(ScopeOf(listing), k) = Position(listing, k)
  BY <1>2 DEF PositionIn, Position
<1>4. k \in Present(listing) => Position(listing, k) < Cardinality(Present(listing))
  <2>1. SUFFICES ASSUME k \in Present(listing)
                 PROVE  Position(listing, k) < Cardinality(Present(listing))
    OBVIOUS
  <2>2. {j \in Present(listing) : j < k} # Present(listing)
    <3>1. ~(k < k)
      BY ConstantsAssumption
    <3>2. QED
      BY <2>1, <3>1
  <2>3. {j \in Present(listing) : j < k} \in SUBSET Present(listing)
    OBVIOUS
  <2>4. /\ Position(listing, k) <= Cardinality(Present(listing))
        /\ Position(listing, k) # Cardinality(Present(listing))
    BY <2>2, <2>3, EndType, FS_Subset DEF Position
  <2>5. QED
    BY <1>3, <2>4, PositionType, EndType
<1>5. QED
  BY <1>3, <1>4, PositionType

\* A page takes up where the cursor is, and goes on to its end.
LEMMA PageSplits ==
    ASSUME TypeOK, CursorFits(listing), NEW k \in Keys
    PROVE  /\ WalkedPast(k) => cursor.offset # 0 /\ Position(listing, k) < cursor.offset
           /\ k \in Present(listing) =>
                 (k \in Page(listing) <=> ~WalkedPast(k) /\ Position(listing, k) < End(listing))
<1>1. PositionIn(cursor.scope, k) \in Nat /\ cursor.offset \in Nat
  BY PositionType, EndType
<1>2. CASE cursor.offset = 0
  BY <1>1, <1>2, Places DEF WalkedPast, Page
<1>3. CASE cursor.scope = ScopeOf(listing)
  BY <1>1, <1>3, Places DEF WalkedPast, Page
<1>4. QED
  BY <1>2, <1>3 DEF CursorFits

-----------------------------------------------------------------------------
LEMMA WalkHandOver ==
    ASSUME TypeOK, FlowInv, WalkInv, pc = "source", todo = {}, HandOver,
           Discovering, purpose = "invoke",
           UNCHANGED <<listing, items, steady>>
    PROVE  PagesInv' /\ WalkIsExact'
<1>1. /\ ~complete /\ CursorFits(listing) /\ PagesInv /\ WalkIsExact
      /\ \A s \in items : s[1] \in Page(listing)
      /\ \A s \in steady : listing[s[1]].shown = "open"
      /\ \A s \in steady : s[1] \in Page(listing) => s \in items
  BY DEF WalkInv, PageInv, Composing, Releasing
<1>2. /\ pages' = Append(pages, items) /\ Len(pages) \in Nat /\ Len(pages') = Len(pages) + 1
      /\ \A i \in 1..Len(pages) : pages'[i] = pages[i] /\ pages[i] \subseteq Source
      /\ pages'[Len(pages) + 1] = items
      /\ items \subseteq Source /\ steady \subseteq Source
  <2>1. pages \in Seq(SUBSET Source) /\ items \in SUBSET Source /\ steady \subseteq Source
    BY DEF TypeOK
  <2>2. pages' = Append(pages, items)
    BY DEF HandOver
  <2>3. \A i \in 1..Len(pages) : pages[i] \in SUBSET Source
    BY <2>1
  <2>4. QED
    BY <2>1, <2>2, <2>3
<1>3. /\ complete' = (End(listing) = Cardinality(Present(listing)))
      /\ ~complete' => cursor' = [offset |-> End(listing), scope |-> ScopeOf(listing)]
  BY DEF HandOver
<1>4. \A s \in Source : s[1] \in Keys
  BY DEF Source
<1>5. \A s \in items : s[1] \in Keys /\ ~WalkedPast(s[1]) /\ Position(listing, s[1]) < End(listing)
  BY <1>1, <1>2, <1>4, PageSplits DEF Page
<1>6. \A i \in 1..Len(pages) : \A s \in pages[i] : WalkedPast(s[1]) /\ s[1] \in Keys
  BY <1>1, <1>2, <1>4 DEF PagesInv
\* Every steady account is handed over by now or lies beyond the page.
<1>7. ASSUME NEW s \in steady, Position(listing, s[1]) < End(listing)
      PROVE  \E i \in 1..Len(pages') : s \in pages'[i]
  <2>1. s[1] \in Keys /\ s[1] \in Present(listing)
    BY <1>1, <1>2, <1>4 DEF Present
  <2>2. CASE WalkedPast(s[1])
    <3>1. PICK i \in 1..Len(pages) : s \in pages[i]
      BY <1>1, <2>2 DEF PagesInv
    <3>2. QED
      BY <1>2, <3>1
  <2>3. CASE ~WalkedPast(s[1])
    <3>1. s \in items
      BY <1>1, <1>7, <2>1, <2>3, PageSplits
    <3>2. QED
      BY <1>2, <3>1
  <2>4. QED
    BY <2>2, <2>3
<1>8. WalkIsExact'
  <2>1. complete' => \A s \in steady : \E i \in 1..Len(pages') : s \in pages'[i]
    <3>1. SUFFICES ASSUME complete', NEW s \in steady
                   PROVE  \E i \in 1..Len(pages') : s \in pages'[i]
      OBVIOUS
    <3>2. s[1] \in Keys /\ s[1] \in Present(listing)
      BY <1>1, <1>2, <1>4 DEF Present
    <3>3. QED
      BY <1>3, <1>7, <3>1, <3>2, Places
  <2>2. ASSUME NEW i \in 1..Len(pages'), NEW j \in 1..Len(pages'), i < j,
               NEW s \in pages'[i], NEW r \in pages'[j], s[1] = r[1]
        PROVE  FALSE
    <3>1. i \in 1..Len(pages) /\ s \in pages[i]
      BY <1>2, <2>2
    <3>2. CASE j \in 1..Len(pages)
      <4>1. {q[1] : q \in pages[i]} \cap {q[1] : q \in pages[j]} = {}
        BY <1>1, <2>2, <3>1, <3>2 DEF WalkIsExact
      <4>2. s[1] \in {q[1] : q \in pages[i]} /\ r[1] \in {q[1] : q \in pages[j]}
        BY <1>2, <2>2, <3>1, <3>2
      <4>3. QED
        BY <2>2, <4>1, <4>2
    <3>3. CASE j = Len(pages) + 1
      BY <1>2, <1>5, <1>6, <2>2, <3>1, <3>3
    <3>4. QED
      BY <1>2, <3>2, <3>3
  <2>3. ASSUME NEW i \in 1..Len(pages'), NEW j \in 1..Len(pages'), i # j
        PROVE  {s[1] : s \in pages'[i]} \cap {s[1] : s \in pages'[j]} = {}
    <3>1. i < j \/ j < i
      BY <1>2, <2>3
    <3>2. QED
      BY <2>2, <3>1
  <2>4. QED
    BY <2>1, <2>3 DEF WalkIsExact
<1>9. PagesInv'
  <2>1. SUFFICES ASSUME ~complete' PROVE PagesInv'
    BY DEF PagesInv
  <2>2. End(listing) = cursor.offset + limit /\ cursor.offset \in Nat /\ limit \in Nat
    BY <1>3, <2>1, EndType, AccountTypes DEF End
  <2>3. \A k \in Keys : WalkedPast(k)' <=> Position(listing, k) < End(listing)
    BY <1>3, <2>1, Places DEF WalkedPast, PositionIn
  <2>4. ASSUME NEW i \in 1..Len(pages'), NEW s \in pages'[i]
        PROVE  WalkedPast(s[1])'
    <3>1. CASE i \in 1..Len(pages)
      <4>1. s[1] \in Keys /\ Position(listing, s[1]) < cursor.offset
        BY <1>1, <1>2, <1>6, <2>4, <3>1, PageSplits
      <4>2. QED
        BY <2>2, <2>3, <4>1, Places
    <3>2. CASE i = Len(pages) + 1
      BY <1>2, <1>5, <2>3, <2>4, <3>2
    <3>3. QED
      BY <1>2, <3>1, <3>2
  <2>5. ASSUME NEW s \in steady, WalkedPast(s[1])'
        PROVE  \E i \in 1..Len(pages') : s \in pages'[i]
    BY <1>2, <1>4, <1>7, <2>3, <2>5
  <2>6. QED
    BY <2>4, <2>5 DEF PagesInv
<1>10. QED
  BY <1>8, <1>9

\* The cursor, the page and the accounts that stayed are as they were, or fewer.
LEMMA WalkKept ==
    ASSUME TypeOK, WalkInv, UNCHANGED <<cursor, pages, complete>>, steady' \subseteq steady
    PROVE  PagesInv' /\ WalkIsExact'
<1>1. \A k : WalkedPast(k)' <=> WalkedPast(k)
  BY DEF WalkedPast, PositionIn
<1>2. PagesInv /\ WalkIsExact
  BY DEF WalkInv
<1>3. QED
  BY <1>1, <1>2 DEF PagesInv, WalkIsExact

LEMMA PageKept ==
    ASSUME UNCHANGED <<cursor, limit, listing>>
    PROVE  /\ CursorFits(listing)' = CursorFits(listing)
           /\ Page(listing)' = Page(listing)
BY DEF CursorFits, Page, End, Present, Position, ScopeOf

LEMMA StepWalk ==
    ASSUME TypeOK, FlowInv, WalkInv, Step
    PROVE  WalkInv'
<1> USE DEF Goto, Refuse, Require, Releasing, Invoking, Discovering, Probing, Composing
<1>0. /\ kind \in {"read", "discover", "offer", "available", "writable", "searchable"} /\ kind' = kind
      /\ UNCHANGED accounts /\ Findable' = Findable
  BY ConstantsAssumption, StepTypes DEF TypeOK, world, Findable, Current
<1>a. /\ steady \subseteq Findable /\ (complete => pc = "held" \/ purpose # "invoke")
      /\ PageInv /\ PagesInv /\ WalkIsExact /\ (pc = "idle" => cursor.offset = 0) /\ pc' # "idle"
  BY DEF WalkInv, Step, Begin, NextPage, AskRelease, FirstCheck, Question, Access, List, Entry, Compose, Look,
         CheckSource, HandOver, Select, Authorize, ResolveList, ResolveRead, Fetch, Receive,
         Reauthorize, Resubject, Recheck, Outer, Release, ReleaseSubject, RelistSubject, Relist, Fail
\* A step that leaves the walk alone keeps its invariant.
<1>b. ASSUME UNCHANGED <<purpose, limit, cursor, listing, items, pages, complete, steady>>,
             pc \notin {"held", "entry"}, pc' # "entry",
             Composing' => Composing
      PROVE  WalkInv'
  <2>1. PageInv'
    BY <1>a, <1>b, PageKept DEF PageInv
  <2>2. QED
    BY <1>0, <1>a, <1>b, <2>1, WalkKept DEF WalkInv
<1>1. CASE Begin
  <2>1. pc = "idle" /\ ~complete /\ ~Composing' /\ UNCHANGED <<cursor, purpose, pages, complete>> /\ steady' = Findable
    BY <1>1, <1>a DEF Begin, request, outcome, FlowInv
  <2>2. \A k : WalkedPast(k)' <=> WalkedPast(k)
    BY <2>1 DEF WalkedPast, PositionIn
  <2>3. \A k : ~WalkedPast(k)
    BY <1>a, <2>1, PositionType DEF WalkedPast
  <2>4. PagesInv' /\ WalkIsExact' /\ PageInv'
    BY <1>a, <2>1, <2>2, <2>3 DEF PagesInv, WalkIsExact, PageInv
  <2>5. QED
    BY <1>0, <1>a, <2>1, <2>4 DEF WalkInv
<1>2. CASE NextPage \/ AskRelease
  <2>1. /\ ~Composing' /\ UNCHANGED <<cursor, pages, complete, steady>>
        /\ complete => purpose' # "invoke"
    BY <1>0, <1>2, <1>a DEF NextPage, AskRelease, FirstCheck, outcome
  <2>2. QED
    BY <1>0, <1>a, <2>1, WalkKept DEF WalkInv, PageInv
<1>3. CASE Access
  <2>1. ~Composing' /\ UNCHANGED <<cursor, purpose, pages, complete, steady>> /\ pc # "held"
    BY <1>0, <1>3 DEF Access, outcome, request
  <2>2. QED
    BY <1>0, <1>a, <2>1, WalkKept DEF WalkInv, PageInv
<1>4. CASE Question
  <2>1. UNCHANGED <<purpose, limit, cursor, listing, items, pages, complete, steady>>
    BY <1>0, <1>4, QuestionTypes DEF Asking, request, outcome
  <2>2. CASE Select \/ Authorize \/ ResolveList \/ ResolveRead \/ Fetch \/ Receive
              \/ Reauthorize \/ Resubject \/ Recheck \/ Fail
    <3>1. ~Composing' /\ pc # "held"
      BY <2>2 DEF Select, Authorize, ResolveList, ResolveRead, Fetch, Receive,
                  Reauthorize, Resubject, Recheck, Fail
    <3>2. QED
      BY <1>0, <1>a, <2>1, <3>1, WalkKept DEF WalkInv, PageInv
  <2>3. CASE Outer \/ Release \/ ReleaseSubject \/ RelistSubject \/ Relist
    <3>1. pc \notin {"held", "entry"} /\ pc' # "entry" /\ (Composing' => Composing)
      BY <1>0, <2>1, <2>3 DEF Outer, Release, FirstCheck, ReleaseSubject, RelistSubject, Relist, FlowInv
    <3>2. QED
      BY <1>b, <2>1, <3>1
  <2>4. QED
    BY <1>4, <2>2, <2>3 DEF Question
<1>5. CASE List
  <2>1. /\ pc = "list" /\ items = {}
        /\ UNCHANGED <<purpose, limit, cursor, items, pages, complete, steady>>
    BY <1>5 DEF List, request, outcome, FlowInv
  <2>2. PageInv'
    <3>1. SUFFICES ASSUME Composing' PROVE PageInv'
      BY DEF PageInv
    <3>2. CursorFits(accounts) /\ todo' = Page(accounts) /\ pc' = "entry" /\ listing' = accounts
      <4>1. listing' = Listed /\ kind # "searchable" /\ Discovering
        BY <1>0, <1>5, <3>1 DEF List
      <4>2. Listed = accounts
        BY <4>1 DEF Listed, TypeOK
      <4>3. QED
        BY <1>0, <1>5, <3>1, <4>1, <4>2 DEF List
    <3>3. CursorFits(listing)' = CursorFits(accounts) /\ Page(listing)' = Page(accounts)
      BY <2>1, <3>2 DEF CursorFits, Page, End, Present, Position, ScopeOf
    <3>4. \A s \in steady : accounts[s[1]].shown = "open"
      BY <1>a DEF Findable, Current
    <3>5. QED
      BY <2>1, <3>2, <3>3, <3>4 DEF PageInv
  <2>3. QED
    BY <1>0, <1>a, <2>1, <2>2, WalkKept DEF WalkInv
<1>6. CASE Entry
  <2>1. /\ pc = "entry" /\ Discovering /\ ~complete /\ purpose = "invoke" /\ steady' \subseteq steady
        /\ UNCHANGED <<purpose, limit, cursor, listing, pages, complete>>
        /\ pc' \in {"entry", "refused"}
    BY <1>6, <1>a DEF Entry, request, outcome, FlowInv
  <2>2. PageInv'
    <3>1. SUFFICES ASSUME pc' = "entry" PROVE PageInv'
      BY <1>0, <2>1 DEF PageInv
    <3>2. PICK k \in todo :
            /\ todo' = todo \ {k}
            /\ \/ /\ listing[k].shown # "open" \/ ~accounts[k].readable
                  /\ UNCHANGED <<items, steady>>
               \/ items' = items \cup {Current(k)} /\ UNCHANGED steady
               \/ steady' = steady \ {Current(k)} /\ UNCHANGED items
      BY <1>6, <3>1 DEF Entry
    <3>3. /\ CursorFits(listing)' /\ Page(listing)' = Page(listing)
          /\ todo \subseteq Page(listing)
          /\ \A s \in items : s[1] \in Page(listing)
          /\ \A s \in steady : listing[s[1]].shown = "open"
          /\ \A s \in steady : s[1] \in Page(listing) => s \in items \/ s[1] \in todo
      BY <1>a, <2>1, PageKept DEF PageInv
    <3>4. Current(k)[1] = k
      BY DEF Current
    <3>5. \A s \in steady : s[1] = k => s = Current(k) /\ accounts[k].readable /\ listing[k].shown = "open"
      BY <1>a, <3>3 DEF Findable, Current
    <3>6. \A s \in items' : s[1] \in Page(listing)
      BY <3>2, <3>3, <3>4
    <3>7. \A s \in steady' : s[1] \in Page(listing) => s \in items' \/ s[1] \in todo'
      BY <3>2, <3>3, <3>5
    <3>8. QED
      BY <2>1, <3>1, <3>2, <3>3, <3>6, <3>7 DEF PageInv
  <2>3. QED
    BY <1>0, <1>a, <2>1, <2>2, WalkKept DEF WalkInv
<1>7. CASE Compose
  <2>1. /\ pc = "entry" /\ Discovering /\ todo = {} /\ pc' = "release" /\ purpose = "invoke"
        /\ UNCHANGED <<purpose, limit, cursor, listing, items, pages, complete, steady>>
    BY <1>7 DEF Compose, request, outcome, FlowInv
  <2>2. PageInv'
    BY <1>0, <1>a, <2>1, PageKept DEF PageInv
  <2>3. QED
    BY <1>0, <1>a, <2>1, <2>2, WalkKept DEF WalkInv
<1>8. CASE Look
  <2>1. ~Composing' /\ UNCHANGED <<cursor, purpose, pages, complete, steady>> /\ pc # "held"
    BY <1>0, <1>8 DEF Look, request
  <2>2. QED
    BY <1>0, <1>a, <2>1, WalkKept DEF WalkInv, PageInv
<1>9. CASE CheckSource
  <2>1. pc = "source" /\ UNCHANGED <<purpose, limit, listing, items, steady>>
    BY <1>9 DEF CheckSource
  <2>2. CASE todo # {}
    <3>1. UNCHANGED <<cursor, pages, complete>> /\ pc' \in {"source", "refused"}
      BY <1>9, <2>2 DEF CheckSource, Next1
    <3>2. QED
      BY <1>0, <1>b, <2>1, <3>1
  <2>3. CASE todo = {}
    <3>1. CASE HandOver /\ Discovering /\ purpose = "invoke"
      <4>1. PagesInv' /\ WalkIsExact'
        BY <2>1, <2>3, <3>1, WalkHandOver
      <4>2. QED
        BY <1>0, <1>a, <2>1, <3>1, <4>1 DEF WalkInv, PageInv, HandOver
    <3>2. CASE HandOver /\ ~(Discovering /\ purpose = "invoke")
      BY <1>0, <1>a, <2>1, <3>2, WalkKept DEF WalkInv, PageInv, HandOver
    <3>3. CASE ~HandOver
      <4>1. UNCHANGED <<cursor, pages, complete>> /\ pc' \in {"source", "refused"}
        BY <1>9, <3>3 DEF CheckSource
      <4>2. QED
        BY <1>0, <1>b, <2>1, <4>1
    <3>4. QED
      BY <3>1, <3>2, <3>3
  <2>4. QED
    BY <2>2, <2>3
<1>10. QED
  BY <1>1, <1>2, <1>3, <1>4, <1>5, <1>6, <1>7, <1>8, <1>9 DEF Step, Question

LEMMA NextWalk == TypeOK /\ FlowInv /\ WalkInv /\ [Next]_vars => WalkInv'
<1> SUFFICES ASSUME TypeOK, FlowInv, WalkInv, [Next]_vars PROVE WalkInv'
  OBVIOUS
<1>1. CASE Step
  BY <1>1, StepWalk
<1>2. ASSUME UNCHANGED <<pc, kind, purpose, limit, cursor, listing, todo, items, pages, complete>>,
             steady' \subseteq steady, steady' \subseteq Findable'
      PROVE  WalkInv'
  <2>1. PageInv'
    BY <1>2, PageKept DEF WalkInv, PageInv, Composing, Discovering, Probing
  <2>2. QED
    BY <1>2, <2>1, WalkKept DEF WalkInv
<1>3. CASE World
  BY <1>2, <1>3 DEF World, request, outcome
<1>4. CASE UNCHANGED vars
  <2>1. Findable' = Findable
    BY <1>4 DEF vars, world, Findable, Current
  <2>2. QED
    BY <1>2, <1>4, <2>1 DEF vars, request, outcome, WalkInv
<1>5. QED
  BY <1>1, <1>3, <1>4 DEF Next, Rest

LEMMA InitWalk == Init => WalkInv
BY DEF Init, NoCursor, WalkInv, PageInv, PagesInv, WalkIsExact, Composing, Releasing

\* A walk over any number of accounts, in pages of any sizes, finds each account
\* that stays, once, and says that it is complete only then.
THEOREM Walk == Spec => []WalkIsExact
<1>1. WalkInv => WalkIsExact
  BY DEF WalkInv
<1>2. QED
  BY <1>1, InitTypes, NextTypes, InitFlow, NextFlow, InitWalk, NextWalk, PTL DEF Spec
-----------------------------------------------------------------------------
(* The length of a walk *)

\* Two accounts of a list are not in the same place.
LEMMA PlacesDiffer ==
    ASSUME TypeOK, NEW j \in Present(listing), NEW k \in Present(listing), j # k
    PROVE  Position(listing, j) # Position(listing, k)
<1>1. ASSUME NEW m \in Present(listing), NEW n \in Present(listing), m < n
      PROVE  Position(listing, m) < Position(listing, n)
  <2> DEFINE Below(x) == {i \in Present(listing) : i < x}
  <2>1. m \in Nat /\ n \in Nat /\ \A i \in Present(listing) : i \in Nat
    BY AccountTypes, ConstantsAssumption
  <2>2. Below(m) \subseteq Below(n) /\ m \in Below(n) /\ m \notin Below(m)
    <3>1. (\A i \in Present(listing) : i < m => i < n) /\ ~(m < m) /\ m < n
      BY <1>1, <2>1
    <3>2. QED
      BY <3>1
  <2>3. IsFiniteSet(Below(n)) /\ IsFiniteSet(Below(m))
    <3>1. Below(n) \in SUBSET Present(listing) /\ Below(m) \in SUBSET Present(listing)
      OBVIOUS
    <3>2. QED
      BY <3>1, EndType, FS_Subset
  <2> HIDE DEF Below
  <2>4. Cardinality(Below(m)) \in Nat /\ Cardinality(Below(n)) \in Nat
    BY <2>3, FS_CardinalityType
  <2>5. /\ Cardinality(Below(m)) <= Cardinality(Below(n))
        /\ Cardinality(Below(n)) = Cardinality(Below(m)) => Below(n) = Below(m)
    <3>1. Below(m) \in SUBSET Below(n)
      BY <2>2
    <3>2. QED
      BY <2>3, <3>1, FS_Subset
  <2>6. Cardinality(Below(m)) < Cardinality(Below(n))
    BY <2>2, <2>4, <2>5
  <2>7. QED
    BY <2>6 DEF Position, Below
<1>2. j \in Nat /\ k \in Nat
  BY AccountTypes, ConstantsAssumption
<1>3. Position(listing, j) \in Nat /\ Position(listing, k) \in Nat
  BY AccountTypes, Places
<1>4. CASE j < k
  BY <1>1, <1>3, <1>4
<1>5. CASE k < j
  BY <1>1, <1>3, <1>5
<1>6. QED
  BY <1>2, <1>4, <1>5

\* A page holds no more accounts than it has places.
LEMMA PageFits ==
    ASSUME TypeOK
    PROVE  /\ IsFiniteSet(Page(listing))
           /\ Cardinality(Page(listing)) <= limit
<1>1. Page(listing) \subseteq Present(listing) /\ IsFiniteSet(Page(listing))
  <2>1. Page(listing) \in SUBSET Present(listing)
    BY DEF Page
  <2>2. QED
    BY <2>1, EndType, FS_Subset
<1> DEFINE places == cursor.offset..(End(listing) - 1)
           f == [k \in Page(listing) |-> Position(listing, k)]
<1>2. /\ cursor.offset \in Nat /\ End(listing) \in Nat /\ limit \in Nat
      /\ End(listing) <= cursor.offset + limit
  <2>1. cursor.offset \in Nat /\ limit \in Nat /\ Cardinality(Present(listing)) \in Nat
    BY EndType, AccountTypes
  <2>2. QED
    BY <2>1 DEF End
<1>3. IsFiniteSet(places) /\ Cardinality(places) <= limit /\ Cardinality(places) \in Nat
  <2>1. cursor.offset \in Int /\ End(listing) - 1 \in Int
    BY <1>2
  <2>2. IsFiniteSet(places) /\ Cardinality(places) =
          IF cursor.offset > End(listing) - 1 THEN 0 ELSE End(listing) - 1 - cursor.offset + 1
    BY <2>1, FS_Interval
  <2>3. QED
    BY <1>2, <2>2
<1>4. f \in [Page(listing) -> places]
  <2>1. ASSUME NEW k \in Page(listing) PROVE Position(listing, k) \in places
    <3>1. /\ k \in Keys /\ Position(listing, k) >= cursor.offset
          /\ Position(listing, k) < End(listing)
      BY <1>1, AccountTypes DEF Page
    <3>2. QED
      BY <1>2, <3>1, Places
  <2>2. QED
    BY <2>1
<1>5. ASSUME Cardinality(places) < Cardinality(Page(listing)) PROVE FALSE
  <2> HIDE DEF places, f
  <2>1. PICK j \in Page(listing), k \in Page(listing) : j # k /\ f[j] = f[k]
    BY <1>1, <1>3, <1>4, <1>5, FS_PigeonHole
  <2>2. QED
    BY <1>1, <2>1, PlacesDiffer DEF f
<1>6. Cardinality(Page(listing)) \in Nat
  BY <1>1, FS_CardinalityType
<1> HIDE DEF places, f
<1>7. QED
  BY <1>1, <1>2, <1>3, <1>5, <1>6

\* A page in the making names no more accounts than it was asked for.
LEMMA ItemsFit ==
    ASSUME TypeOK, FlowInv, \A s \in items : s[1] \in Page(listing)
    PROVE  IsFiniteSet(items) /\ Cardinality(items) <= limit
<1> DEFINE f == [s \in items |-> s[1]]
<1>1. f \in [items -> Page(listing)]
  OBVIOUS
<1>2. IsFiniteSet(items)
  <2>1. Page(listing) \in SUBSET Keys /\ IsFiniteSet(Keys) /\ items \subseteq Source
    BY AccountTypes, ConstantsAssumption DEF Page, TypeOK
  <2>2. IsFiniteSet(Version)
    BY ConstantsAssumption, FS_Interval DEF Version
  <2>3. IsFiniteSet(Source)
    BY <2>1, <2>2, FS_Product DEF Source
  <2>4. QED
    BY <2>1, <2>3, FS_Subset
<1>3. Cardinality(items) \in Nat /\ Cardinality(Page(listing)) \in Nat /\ limit \in Nat
  BY <1>2, PageFits, FS_CardinalityType, AccountTypes
<1>4. ASSUME Cardinality(Page(listing)) < Cardinality(items) PROVE FALSE
  <2> HIDE DEF f
  <2>1. PICK s \in items, t \in items : s # t /\ f[s] = f[t]
    BY <1>1, <1>2, <1>4, PageFits, FS_PigeonHole
  <2>2. QED
    BY <2>1 DEF f, FlowInv
<1> HIDE DEF f
<1>5. QED
  BY <1>2, <1>3, <1>4, PageFits
\* Pages and cursor change only when a page is handed over.
LEMMA PagesChange ==
    ASSUME TypeOK, Step
    PROVE  \/ UNCHANGED <<pages, complete, cursor>>
           \/ pc = "source" /\ todo = {} /\ Discovering /\ purpose = "invoke" /\ HandOver
<1>1. CASE Question
  BY <1>1, QuestionTypes DEF Asking, outcome, request
<1>2. CASE Begin \/ NextPage \/ AskRelease
  BY <1>2 DEF Begin, NextPage, AskRelease, outcome, request
<1>3. CASE Access \/ List \/ Entry
  BY <1>3 DEF Access, List, Entry, outcome, request
<1>4. CASE Compose \/ Look
  BY <1>4 DEF Compose, Look, outcome, request
<1>5. CASE CheckSource
  BY <1>5 DEF CheckSource, HandOver
<1>6. QED
  BY <1>1, <1>2, <1>3, <1>4, <1>5 DEF Step, Question

\* The cursor has passed at least one place for each page.
LengthInv ==
    /\ Len(pages) <= Cardinality(Keys)
    /\ ~complete => Len(pages) <= cursor.offset /\ cursor.offset < Cardinality(Keys)

\* A page holds no more than was asked for, and moves the cursor on by just that
\* much, unless it is the last one.
WalkAdvances ==
    [][/\ complete => UNCHANGED <<pages, complete>>
       /\ pages' # pages => Cardinality(items) <= limit
       /\ pages' # pages /\ ~complete' => cursor'.offset = cursor.offset + limit]_vars

LEMMA PageAdvances ==
    ASSUME TypeOK, FlowInv, WalkInv, LengthInv, pc = "source", todo = {}, Discovering,
           purpose = "invoke", HandOver
    PROVE  /\ LengthInv' /\ ~complete
           /\ Cardinality(items) <= limit
           /\ ~complete' => cursor'.offset = cursor.offset + limit
<1>1. ~complete /\ \A s \in items : s[1] \in Page(listing)
  BY DEF WalkInv, PageInv, Composing, Releasing
<1>2. Cardinality(items) <= limit
  BY <1>1, ItemsFit
<1>3. Len(pages) \in Nat /\ Len(pages') = Len(pages) + 1
  <2>1. pages \in Seq(SUBSET Source) /\ items \in SUBSET Source /\ pages' = Append(pages, items)
    BY DEF TypeOK, HandOver
  <2>2. QED
    BY <2>1
<1>4. /\ cursor.offset \in Nat /\ limit \in Nat \ {0} /\ Cardinality(Keys) \in Nat
      /\ Cardinality(Present(listing)) \in Nat
      /\ Cardinality(Present(listing)) <= Cardinality(Keys)
  BY EndType, AccountTypes, ConstantsAssumption, FS_CardinalityType
<1>5. Len(pages) <= cursor.offset /\ cursor.offset < Cardinality(Keys)
  BY <1>1 DEF LengthInv
<1>6. ~complete' => /\ cursor'.offset = cursor.offset + limit
                    /\ cursor.offset + limit < Cardinality(Keys)
  <2>1. SUFFICES ASSUME ~complete'
                 PROVE  /\ cursor'.offset = cursor.offset + limit
                        /\ cursor.offset + limit < Cardinality(Keys)
    OBVIOUS
  <2>2. End(listing) # Cardinality(Present(listing)) /\ cursor'.offset = End(listing)
    <3>1. /\ complete' = (End(listing) = Cardinality(Present(listing)))
          /\ cursor' = [offset |-> End(listing), scope |-> ScopeOf(listing)]
      BY <2>1 DEF HandOver
    <3>2. QED
      BY <2>1, <3>1
  <2>3. End(listing) = cursor.offset + limit /\ cursor.offset + limit <= Cardinality(Present(listing))
    BY <1>4, <2>2 DEF End
  <2>4. QED
    BY <1>4, <2>2, <2>3
<1>7. LengthInv'
  <2>1. Len(pages') <= Cardinality(Keys)
    BY <1>3, <1>4, <1>5
  <2>2. ~complete' => Len(pages') <= cursor'.offset /\ cursor'.offset < Cardinality(Keys)
    BY <1>3, <1>4, <1>5, <1>6
  <2>3. QED
    BY <2>1, <2>2 DEF LengthInv
<1>8. QED
  BY <1>1, <1>2, <1>6, <1>7

\* A walk takes no more pages than there are accounts, however they come, go and
\* change meanwhile: each page goes on where the one before it ended, or is the
\* last, and a cursor that no longer fits its list is refused (a page is not begun
\* again).
THEOREM WalksComeToAnEnd == Spec => [](Len(pages) <= Cardinality(Keys)) /\ WalkAdvances
<1>1. Init => LengthInv
  <2>1. SUFFICES ASSUME Init PROVE LengthInv
    OBVIOUS
  <2>2. Cardinality(Keys) \in Nat /\ Cardinality(Keys) # 0
    BY ConstantsAssumption, FS_CardinalityType, FS_EmptySet
  <2>3. QED
    BY <2>1, <2>2 DEF Init, LengthInv, NoCursor
<1>2. ASSUME TypeOK, FlowInv, WalkInv, LengthInv, [Next]_vars
      PROVE  /\ LengthInv'
             /\ complete => UNCHANGED <<pages, complete>>
             /\ pages' # pages => Cardinality(items) <= limit
             /\ pages' # pages /\ ~complete' => cursor'.offset = cursor.offset + limit
  <2>1. CASE UNCHANGED <<pages, complete, cursor>>
    BY <1>2, <2>1 DEF LengthInv
  <2>2. CASE pc = "source" /\ todo = {} /\ Discovering /\ purpose = "invoke" /\ HandOver
    BY <1>2, <2>2, PageAdvances
  <2>3. CASE World \/ UNCHANGED vars
    BY <2>1, <2>3 DEF World, vars, outcome, request
  <2>4. CASE Step
    BY <1>2, <2>1, <2>2, <2>4, PagesChange
  <2>5. QED
    BY <1>2, <2>3, <2>4 DEF Next, Rest
<1>3. TypeOK /\ FlowInv /\ WalkInv /\ LengthInv /\ [Next]_vars => LengthInv'
  BY <1>2
<1>4. TypeOK /\ FlowInv /\ WalkInv /\ LengthInv /\ [Next]_vars =>
        [/\ complete => UNCHANGED <<pages, complete>>
         /\ pages' # pages => Cardinality(items) <= limit
         /\ pages' # pages /\ ~complete' => cursor'.offset = cursor.offset + limit]_vars
  BY <1>2
<1>5. LengthInv => Len(pages) <= Cardinality(Keys)
  BY DEF LengthInv
<1>6. QED
  BY <1>1, <1>3, <1>4, <1>5, InitTypes, NextTypes, InitFlow, NextFlow, InitWalk, NextWalk, PTL
     DEF Spec, WalkAdvances

-----------------------------------------------------------------------------
(* Progress: the questions that a request may still ask *)

Resting == pc \in {"held", "refused", "answered"}

\* The questions of a read after its subject, those of a release after the host's
\* (the two subjects in the order of the kind), and those before any account.
Reading == [access |-> 6, fetch |-> 5, reply |-> 4, reauthorize |-> 3, resubject |-> 2, recheck |-> 1]

Checks == [outer |-> 6, release |-> 5, releaseSubject |-> 3, relistSubject |-> 3, relist |-> 2]

Before == [idle |-> 12, select |-> 11, authorize |-> 10, listSubject |-> 9, readSubject |-> 8, list |-> 7]

\* One for each account of the page, in the making and in the release.
Left(stage, first, accountsLeft) ==
    CASE stage \in {"held", "refused", "answered"} -> 0
      [] stage \in DOMAIN Reading -> Reading[stage]
      [] stage = "source" -> accountsLeft + 1
      [] stage \in DOMAIN Checks -> Cardinality(Keys) + (IF stage = first THEN 4 ELSE Checks[stage])
      [] stage = "entry" -> Cardinality(Keys) + 6 + accountsLeft
      [] OTHER -> 2 * Cardinality(Keys) + Before[stage]

StepsLeft == Left(pc, FirstCheck, Cardinality(todo))

\* Every step brings a request nearer to its answer; the world does not throw it back,
\* and only the caller begins another one.
RequestsRunDown ==
    [][/\ StepsLeft \in 0..(2 * Cardinality(Keys) + 12)
       /\ StepsLeft = 0 <=> Resting
       /\ Step /\ ~Resting => StepsLeft' < StepsLeft
       /\ Step /\ Resting => asked' = asked + 1
       /\ ~Step => UNCHANGED <<pc, kind, purpose, todo>>]_vars

LEMMA TodoSize ==
    ASSUME TypeOK
    PROVE  /\ Cardinality(Keys) \in Nat /\ Cardinality(Keys) > 0
           /\ Cardinality(todo) \in 0..Cardinality(Keys)
           /\ \A k \in todo : Cardinality(todo \ {k}) = Cardinality(todo) - 1
<1>1. IsFiniteSet(Keys) /\ Keys # {} /\ todo \in SUBSET Keys
  BY ConstantsAssumption DEF TypeOK
<1>2. IsFiniteSet(todo) /\ Cardinality(todo) <= Cardinality(Keys)
  BY <1>1, FS_Subset
<1>3. Cardinality(Keys) \in Nat /\ Cardinality(Keys) # 0 /\ Cardinality(todo) \in Nat
  BY <1>1, <1>2, FS_CardinalityType, FS_EmptySet
<1>4. \A k \in todo : Cardinality(todo \ {k}) = Cardinality(todo) - 1
  BY <1>2, FS_RemoveElement
<1>5. QED
  BY <1>2, <1>3, <1>4

\* Where a request stands decides how much is left of it.
LEMMA LeftAtStage ==
    ASSUME NEW n \in Nat, Cardinality(Keys) \in Nat, NEW first \in {"releaseSubject", "relistSubject"}
    PROVE  /\ \A stage \in {"held", "refused", "answered"} : Left(stage, first, n) = 0
           /\ \A stage \in DOMAIN Reading : Left(stage, first, n) = Reading[stage]
           /\ Left("source", first, n) = n + 1
           /\ Left("relist", first, n) = Cardinality(Keys) + 2
           /\ \A stage \in {"releaseSubject", "relistSubject"} :
                Left(stage, first, n) = Cardinality(Keys) + (IF stage = first THEN 4 ELSE 3)
           /\ Left("release", first, n) = Cardinality(Keys) + 5
           /\ Left("outer", first, n) = Cardinality(Keys) + 6
           /\ Left("entry", first, n) = Cardinality(Keys) + 6 + n
           /\ \A stage \in DOMAIN Before : Left(stage, first, n) = 2 * Cardinality(Keys) + Before[stage]
<1> USE DEF Left, Reading, Checks, Before
<1>1. \A stage \in {"held", "refused", "answered"} : Left(stage, first, n) = 0
  OBVIOUS
<1>2. \A stage \in DOMAIN Reading : Left(stage, first, n) = Reading[stage]
  OBVIOUS
<1>3. Left("source", first, n) = n + 1 /\ Left("entry", first, n) = Cardinality(Keys) + 6 + n
  OBVIOUS
<1>4. /\ Left("relist", first, n) = Cardinality(Keys) + 2
      /\ Left("release", first, n) = Cardinality(Keys) + 5
      /\ Left("outer", first, n) = Cardinality(Keys) + 6
  OBVIOUS
<1>5. \A stage \in {"releaseSubject", "relistSubject"} :
        Left(stage, first, n) = Cardinality(Keys) + (IF stage = first THEN 4 ELSE 3)
  OBVIOUS
<1>6. \A stage \in DOMAIN Before : Left(stage, first, n) = 2 * Cardinality(Keys) + Before[stage]
  OBVIOUS
<1>7. QED
  BY <1>1, <1>2, <1>3, <1>4, <1>5, <1>6

LEMMA StepsAreLeft ==
    ASSUME TypeOK
    PROVE  /\ StepsLeft \in 0..(2 * Cardinality(Keys) + 12)
           /\ StepsLeft = 0 <=> Resting
<1>1. Cardinality(Keys) \in Nat /\ Cardinality(todo) \in 0..Cardinality(Keys)
  BY TodoSize
<1>2. FirstCheck \in {"releaseSubject", "relistSubject"}
  BY DEF FirstCheck
<1>3. CASE Resting
  BY <1>1, <1>2, <1>3, LeftAtStage DEF Resting, StepsLeft
<1>4. CASE pc \in DOMAIN Reading
  <2>1. Reading[pc] \in 1..6 /\ ~Resting
    BY <1>4 DEF Reading, Resting
  <2>2. QED
    BY <1>1, <1>2, <1>4, <2>1, LeftAtStage DEF StepsLeft
<1>5. CASE pc \in {"source", "entry", "relist", "releaseSubject", "relistSubject", "release", "outer"}
  BY <1>1, <1>2, <1>5, LeftAtStage DEF Resting, StepsLeft
<1>6. CASE pc \in DOMAIN Before
  <2>1. Before[pc] \in 7..12 /\ ~Resting
    BY <1>6 DEF Before, Resting
  <2>2. QED
    BY <1>1, <1>2, <1>6, <2>1, LeftAtStage DEF StepsLeft
<1>7. QED
  BY <1>3, <1>4, <1>5, <1>6 DEF TypeOK, Stage, Resting, Reading, Before
\* A step that asks a question moves a request on.
LEMMA QuestionRunsDown ==
    ASSUME TypeOK, FlowInv, Question, ~Resting'
    PROVE  StepsLeft' < StepsLeft
<1> DEFINE N == Cardinality(Keys)
           n == Cardinality(todo)
<1>1. N \in Nat /\ n \in 0..N
  BY TodoSize
<1>2. todo' = todo /\ kind' = kind /\ FirstCheck' = FirstCheck
      /\ FirstCheck \in {"releaseSubject", "relistSubject"}
  BY QuestionTypes DEF Asking, request, FirstCheck
<1>3. StepsLeft = Left(pc, FirstCheck, n) /\ StepsLeft' = Left(pc', FirstCheck, n)
  BY <1>2 DEF StepsLeft
<1> HIDE DEF N, n
<1> USE DEF Goto, Refuse, Require, Resting, Reading, Before
<1>4. CASE Select \/ Authorize
  BY <1>1, <1>2, <1>3, <1>4, LeftAtStage DEF Select, Authorize, N
<1>5. CASE ResolveList \/ ResolveRead
  BY <1>1, <1>2, <1>3, <1>5, LeftAtStage DEF ResolveList, ResolveRead, N
<1>6. CASE Fetch \/ Receive \/ Reauthorize \/ Resubject \/ Recheck
  <2>1. /\ pc \in DOMAIN Reading /\ pc' \in DOMAIN Reading
        /\ Reading[pc'] < Reading[pc]
    BY <1>6 DEF Fetch, Receive, Reauthorize, Resubject, Recheck
  <2>2. QED
    BY <1>1, <1>2, <1>3, <2>1, LeftAtStage DEF N
<1>7. CASE Outer \/ Release
  BY <1>1, <1>2, <1>3, <1>7, LeftAtStage DEF Outer, Release, N
<1>8. CASE ReleaseSubject
  <2>1. /\ pc = "releaseSubject"
        /\ \/ pc' = "source"
           \/ pc' = "relistSubject" /\ FirstCheck = "releaseSubject"
           \/ pc' = "relist"
    BY <1>8 DEF ReleaseSubject, FirstCheck
  <2>2. QED
    BY <1>1, <1>2, <1>3, <2>1, LeftAtStage DEF N
<1>9. CASE RelistSubject
  <2>1. /\ pc = "relistSubject"
        /\ \/ pc' = "releaseSubject" /\ FirstCheck = "relistSubject"
           \/ pc' = "relist"
    BY <1>9 DEF RelistSubject, FirstCheck
  <2>2. QED
    BY <1>1, <1>2, <1>3, <2>1, LeftAtStage DEF N
<1>10. CASE Relist
  BY <1>1, <1>2, <1>3, <1>10, LeftAtStage DEF Relist, N
<1>11. CASE Fail
  BY <1>11 DEF Fail
<1>12. QED
  BY <1>4, <1>5, <1>6, <1>7, <1>8, <1>9, <1>10, <1>11 DEF Question

LEMMA RequestRunsDown ==
    ASSUME TypeOK, FlowInv, Step, ~Resting
    PROVE  StepsLeft' < StepsLeft
<1>1. StepsLeft \in Nat /\ StepsLeft > 0
  BY StepsAreLeft, TodoSize
<1>2. /\ Cardinality(Keys) \in Nat /\ Cardinality(todo) \in 0..Cardinality(Keys)
      /\ \A k \in todo : Cardinality(todo \ {k}) = Cardinality(todo) - 1
  BY TodoSize
<1>3. Cardinality(todo') \in 0..Cardinality(Keys)
  <2>1. todo' \in SUBSET Keys /\ IsFiniteSet(Keys)
    BY StepTypes, ConstantsAssumption DEF CoreTypes
  <2>2. QED
    BY <1>2, <2>1, FS_Subset, FS_CardinalityType
<1>4. FirstCheck' = FirstCheck /\ FirstCheck \in {"releaseSubject", "relistSubject"}
  BY StepTypes DEF FirstCheck
<1>5. /\ StepsLeft = Left(pc, FirstCheck, Cardinality(todo))
      /\ StepsLeft' = Left(pc', FirstCheck, Cardinality(todo'))
  BY <1>4 DEF StepsLeft
<1>6. CASE Resting'
  BY <1>1, <1>3, <1>4, <1>2, <1>5, <1>6, LeftAtStage DEF Resting
<1>7. CASE ~Resting'
  <2> USE DEF Goto, Refuse, Require, Resting
  <2>1. CASE Question
    BY <1>7, <2>1, QuestionRunsDown
  <2>2. CASE Begin
    BY <1>2, <1>3, <1>4, <1>5, <2>2, LeftAtStage DEF Begin, Before
  <2>3. CASE Access
    BY <1>2, <1>3, <1>4, <1>5, <1>7, <2>3, LeftAtStage DEF Access, Reading
  <2>4. CASE List
    <3>1. pc = "list" /\ pc' = "entry"
      BY <1>7, <2>4 DEF List
    <3>2. /\ Left("list", FirstCheck, Cardinality(todo)) = 2 * Cardinality(Keys) + 7
          /\ Left("entry", FirstCheck, Cardinality(todo')) = Cardinality(Keys) + 6 + Cardinality(todo')
      BY <1>2, <1>3, <1>4, LeftAtStage DEF Before
    <3>3. QED
      BY <1>2, <1>3, <1>5, <3>1, <3>2
  <2>5. CASE Entry \/ (Look /\ pc' = "entry")
    <3>1. pc = "entry" /\ pc' = "entry" /\ \E k \in todo : todo' = todo \ {k}
      BY <1>7, <2>5 DEF Entry, Look
    <3>2. QED
      BY <1>2, <1>3, <1>4, <1>5, <3>1, LeftAtStage
  <2>6. CASE Compose
    BY <1>2, <1>3, <1>4, <1>5, <2>6, LeftAtStage DEF Compose
  <2>7. CASE Look
    BY <1>7, <2>5, <2>7 DEF Look
  <2>8. CASE CheckSource
    <3>1. pc = "source" /\ pc' = "source" /\ \E k \in todo : todo' = todo \ {k}
      BY <1>7, <2>8 DEF CheckSource, HandOver, Next1
    <3>2. QED
      BY <1>2, <1>3, <1>4, <1>5, <3>1, LeftAtStage
  <2>9. CASE NextPage \/ AskRelease
    BY <2>9 DEF NextPage, AskRelease
  <2>10. QED
    BY <2>1, <2>2, <2>3, <2>4, <2>5, <2>6, <2>7, <2>8, <2>9 DEF Step, Question
<1>8. QED
  BY <1>6, <1>7

\* A request is answered, handed over or refused after at most 2n + 12 steps where
\* there are n accounts, whatever happens to them: invoke and the availability
\* question ask about each account of their list once, the release once more about
\* each account of the page, and neither starts over.
THEOREM RequestsComeToAnEnd == Spec => RequestsRunDown
<1>1. ASSUME TypeOK, FlowInv, [Next]_vars
      PROVE  /\ StepsLeft \in 0..(2 * Cardinality(Keys) + 12)
             /\ StepsLeft = 0 <=> Resting
             /\ Step /\ ~Resting => StepsLeft' < StepsLeft
             /\ Step /\ Resting => asked' = asked + 1
             /\ ~Step => UNCHANGED <<pc, kind, purpose, todo>>
  <2>1. Step /\ Resting => asked' = asked + 1
    <3>1. SUFFICES ASSUME Step, Resting PROVE NextPage \/ AskRelease
      BY DEF NextPage, AskRelease
    <3>2. ~Question
      BY <3>1 DEF Question, Select, Authorize, ResolveList, ResolveRead, Fetch, Receive, Reauthorize, Resubject,
                  Recheck, Outer, Release, ReleaseSubject, RelistSubject, Relist, Fail, Resting
    <3>3. QED
      BY <3>1, <3>2 DEF Step, Question, Begin, Access, List, Entry, Compose, Look, CheckSource, Resting
  <2>2. ~Step => UNCHANGED <<pc, kind, purpose, todo>>
    BY <1>1 DEF Next, World, Rest, vars, request
  <2>3. QED
    BY <1>1, <2>1, <2>2, StepsAreLeft, RequestRunsDown
<1>2. TypeOK /\ FlowInv /\ [Next]_vars =>
        [/\ StepsLeft \in 0..(2 * Cardinality(Keys) + 12)
         /\ StepsLeft = 0 <=> Resting
         /\ Step /\ ~Resting => StepsLeft' < StepsLeft
         /\ Step /\ Resting => asked' = asked + 1
         /\ ~Step => UNCHANGED <<pc, kind, purpose, todo>>]_vars
  BY <1>1
<1>3. QED
  BY <1>2, InitTypes, NextTypes, InitFlow, NextFlow, PTL DEF Spec, RequestsRunDown
===============================================================================
