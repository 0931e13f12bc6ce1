------------------------------ MODULE Preferences ------------------------------
(***************************************************************************)
(* User tool settings: the HTTP adapter, the settings service and the      *)
(* database store, serving concurrent requests of several users while the  *)
(* deployment's catalog, the access policy and the connections change.     *)
(*                                                                         *)
(* A request reads the catalog, then saves or reads preferences, then asks *)
(* the connection policy; each of these is a step of its own. A database   *)
(* error may hide a committed save, and any request may run out of time.   *)
(*                                                                         *)
(* An operator Bug_X is the definition X with a plausible bug in it. No     *)
(* specification uses one: each shows that a property notices that bug.    *)
(***************************************************************************)
EXTENDS Integers, FiniteSets

CONSTANTS
    Users,       \* authenticated users, each an owner of preferences
    Tools,       \* tool keys
    Versions,    \* tool definition versions
    NotListed,   \* the catalog does not list the tool
    Calls,       \* requests being served
    Requests,    \* what they may ask for
    MaxRevision, \* stands for the largest int64
    MaxChanges   \* bound: changes of the catalog, the access and the connections

Row == Users \X Tools
Kind == {"update", "malformed", "list", "availability"}

\* An update names what the client last saw: the revision and the version.
Input == [kind : Kind, user : Users, tool : Tools, enabled : BOOLEAN,
          expected : -1..MaxRevision, version : Versions]

ASSUME ConstantsAssumption ==
    /\ NotListed \notin Versions
    /\ MaxRevision \in Nat \ {0}
    /\ MaxChanges \in Nat
    /\ Requests \subseteq Input

VARIABLES
    rows,       \* table _tools_user_preferences: revision 0 stands for no row
    catalog,    \* version of each tool the catalog lists
    access,     \* users whose access bundle allows the settings routes
    connection, \* what the connection policy answers for each tool
    changes,    \* number of changes so far
    pc,         \* where each request stands
    input,      \* what it asks for
    todo,       \* tools a list request has yet to read
    tool,       \* the tool it is looking at
    pref,       \* the preference it read or saved
    items,      \* the settings it has gathered
    reply,      \* its answer
    applied,    \* history: the updates the table took
    seen,       \* history: what the user's rows held during each request
    seenVersion \* history: requests during which the version they name was listed

world   == <<catalog, access, connection, changes>>
request == <<pc, input, todo, tool, pref, items, reply>>
history == <<seen, seenVersion>>
vars    == <<rows, applied, world, request, history>>

-----------------------------------------------------------------------------

Preference == [enabled : BOOLEAN, revision : 0..MaxRevision]
Default == [enabled |-> TRUE, revision |-> 0]
State == {"disabled", "available", "connection_unavailable", "connection_unknown"}
Setting == [tool : Tools, pref : Preference, state : State]
Update == [by : Calls, row : Row, expected : 0..(MaxRevision - 1), enabled : BOOLEAN]

Stage == {"idle", "catalog", "save", "read", "connect", "done"}
Status == {"none", "ok", "yes", "no", "forbidden", "bad_request", "conflict", "unavailable"}
Connection == {"ready", "unready", "broken", "silent"}

TypeOK ==
    /\ rows \in [Row -> Preference]
    /\ catalog \in [Tools -> Versions \cup {NotListed}]
    /\ access \subseteq Users
    /\ connection \in [Tools -> Connection]
    /\ changes \in 0..MaxChanges
    /\ pc \in [Calls -> Stage]
    /\ input \in [Calls -> Requests]
    /\ todo \in [Calls -> SUBSET Tools]
    /\ tool \in [Calls -> Tools]
    /\ pref \in [Calls -> Preference]
    /\ items \in [Calls -> SUBSET Setting]
    /\ reply \in [Calls -> Status]
    /\ applied \subseteq Update
    /\ seen \in [Calls -> SUBSET (Tools \X Preference)]
    /\ seenVersion \subseteq Calls

Init ==
    /\ rows = [r \in Row |-> Default]
    /\ catalog \in [Tools -> Versions]
    /\ access = Users
    /\ connection = [t \in Tools |-> "ready"]
    /\ changes = 0
    /\ pc = [c \in Calls |-> "idle"]
    /\ input \in [Calls -> Requests]
    /\ todo = [c \in Calls |-> {}]
    /\ tool = [c \in Calls |-> input[c].tool]
    /\ pref = [c \in Calls |-> Default]
    /\ items = [c \in Calls |-> {}]
    /\ reply = [c \in Calls |-> "none"]
    /\ applied = {}
    /\ seen = [c \in Calls |-> {}]
    /\ seenVersion = {}

-----------------------------------------------------------------------------
(* Helpers *)

Bug_RowOfWorkspace(c) == <<CHOOSE u \in Users : TRUE, tool[c]>>

\* owner() hashes runtime, workspace and user: one row per user and tool.
RowOf(c) == <<input[c].user, tool[c]>>

Goto(c, stage) == pc' = [pc EXCEPT ![c] = stage]

Answer(c, status) ==
    /\ Goto(c, "done")
    /\ reply' = [reply EXCEPT ![c] = status]

\* History: what was true at some moment of each running request.
Observe ==
    /\ seen' = [c \in Calls |->
          IF pc'[c] \in {"idle", "done"} THEN seen[c]
          ELSE seen[c] \cup {<<t, rows'[<<input[c].user, t>>]>> : t \in Tools}]
    /\ seenVersion' = seenVersion \cup
          {c \in Calls : /\ pc'[c] \notin {"idle", "done"}
                         /\ catalog'[input[c].tool] = input[c].version}

\* Pass on to the next tool of a list; map iteration is in no order.
ReadNext(c, remaining) ==
    /\ todo' = [todo EXCEPT ![c] = remaining]
    /\ \/ /\ remaining = {}
          /\ Answer(c, "ok")
          /\ UNCHANGED tool
       \/ /\ \E t \in remaining : tool' = [tool EXCEPT ![c] = t]
          /\ Goto(c, "read")
          /\ UNCHANGED reply

-----------------------------------------------------------------------------
(* A request *)

\* The HTTP adapter checks the principal's access and decodes the body. The
\* availability question comes from the host's engine, past the adapter.
Start(c) ==
    /\ pc[c] = "idle"
    /\ \/ /\ input[c].kind = "availability"
          /\ Goto(c, "read")
          /\ UNCHANGED reply
       \/ /\ input[c].kind # "availability"
          /\ input[c].user \notin access
          /\ Answer(c, "forbidden")
       \/ /\ input[c].kind = "malformed"
          /\ input[c].user \in access
          /\ Answer(c, "bad_request")
       \/ /\ input[c].kind \in {"update", "list"}
          /\ input[c].user \in access
          /\ Goto(c, "catalog")
          /\ UNCHANGED reply
    /\ UNCHANGED <<rows, applied, world, input, todo, tool, pref, items>>

Bug_NamesCurrentUnversioned(c) == input[c].expected >= 0

\* An update must name the listed version and a revision that could exist.
NamesCurrent(c) == input[c].expected >= 0 /\ input[c].version = catalog[input[c].tool]

ReadCatalog(c) ==
    /\ pc[c] = "catalog"
    /\ \/ /\ input[c].kind = "list"
          /\ ReadNext(c, {t \in Tools : catalog[t] # NotListed})
       \/ /\ input[c].kind = "update"
          /\ catalog[input[c].tool] = NotListed
          /\ Answer(c, "forbidden")
          /\ UNCHANGED <<todo, tool>>
       \/ /\ input[c].kind = "update"
          /\ catalog[input[c].tool] # NotListed
          /\ IF NamesCurrent(c) THEN Goto(c, "save") /\ UNCHANGED reply ELSE Answer(c, "conflict")
          /\ UNCHANGED <<todo, tool>>
    /\ UNCHANGED <<rows, applied, world, input, pref, items>>

Bug_SavableUnbounded(c) == input[c].expected >= 0

\* The largest revision has no successor.
Savable(c) == input[c].expected >= 0 /\ input[c].expected # MaxRevision

Bug_FitsUpsert(c) == input[c].expected \in {0, rows[RowOf(c)].revision}

\* INSERT meets the primary key of an existing row, UPDATE ... WHERE revision
\* meets no row: both say that somebody else was first.
Fits(c) == rows[RowOf(c)].revision = input[c].expected

Bug_AfterCommitConflict(c) == Answer(c, "conflict")

\* The statement may have been committed though the driver reports an error.
AfterCommit(c) ==
    \/ Goto(c, "connect") /\ UNCHANGED reply
    \/ Answer(c, "unavailable")

\* No row was affected, or the key was taken.
Unfitting(c) == Answer(c, "conflict")

Save(c) ==
    LET next == [enabled |-> input[c].enabled, revision |-> input[c].expected + 1] IN
    /\ pc[c] = "save"
    /\ \/ /\ Savable(c) /\ Fits(c)
          /\ rows' = [rows EXCEPT ![RowOf(c)] = next]
          /\ applied' = applied \cup {[by |-> c, row |-> RowOf(c),
                            expected |-> input[c].expected, enabled |-> input[c].enabled]}
          /\ pref' = [pref EXCEPT ![c] = next]
          /\ AfterCommit(c)
       \/ /\ Savable(c) /\ ~Fits(c)
          /\ Unfitting(c)
          /\ UNCHANGED <<rows, applied, pref>>
       \/ /\ ~Savable(c)
          /\ Answer(c, "bad_request")
          /\ UNCHANGED <<rows, applied, pref>>
    /\ UNCHANGED <<world, input, todo, tool, items>>

Bug_ReadErrorIsDefault(c) == \E p \in {Default, rows[RowOf(c)]} : pref' = [pref EXCEPT ![c] = p]

\* A user who never saved a preference has the tool switched on.
ReadRow(c) == pref' = [pref EXCEPT ![c] = rows[RowOf(c)]]

Read(c) ==
    /\ pc[c] = "read"
    /\ ReadRow(c)
    /\ Goto(c, "connect")
    /\ UNCHANGED <<rows, applied, world, input, todo, tool, items, reply>>

\* setting(): the connection policy is asked only about a tool that is on, and
\* its error makes the state unknown. A silent policy does not answer.
StateOf(c) ==
    IF ~pref[c].enabled THEN "disabled"
    ELSE CASE connection[tool[c]] = "ready" -> "available"
           [] connection[tool[c]] = "unready" -> "connection_unavailable"
           [] OTHER -> "connection_unknown"

\* ConversationToolAvailable(): here an error of the policy is an error.
Availability(c) ==
    CASE StateOf(c) = "available" -> "yes"
      [] StateOf(c) = "connection_unknown" -> "unavailable"
      [] OTHER -> "no"

Connect(c) ==
    /\ pc[c] = "connect"
    /\ pref[c].enabled => connection[tool[c]] # "silent"
    /\ \/ /\ input[c].kind = "availability"
          /\ Answer(c, Availability(c))
          /\ UNCHANGED <<items, todo, tool>>
       \/ /\ input[c].kind # "availability"
          /\ items' = [items EXCEPT ![c] =
                @ \cup {[tool |-> tool[c], pref |-> pref[c], state |-> StateOf(c)]}]
          /\ ReadNext(c, todo[c] \ {tool[c]})
    /\ UNCHANGED <<rows, applied, world, input, pref>>

Bug_InterruptibleUnlessConnecting == {"catalog", "save", "read"}

\* Every port of the service takes the request's context, and ends with it.
Interruptible == {"catalog", "save", "read", "connect"}

\* A port fails or the context is over, which the HTTP adapter's is after five
\* seconds; nothing was saved by this step.
Fail(c) ==
    /\ pc[c] \in Interruptible
    /\ Answer(c, "unavailable")
    /\ UNCHANGED <<rows, applied, world, input, todo, tool, pref, items>>

Step(c) == (Start(c) \/ ReadCatalog(c) \/ Save(c) \/ Read(c) \/ Connect(c) \/ Fail(c)) /\ Observe

-----------------------------------------------------------------------------
(* What changes around the requests (external) *)

Change ==
    /\ changes < MaxChanges
    /\ changes' = changes + 1
    /\ UNCHANGED <<rows, applied, request>>

SetCatalog ==
    /\ \E t \in Tools, v \in Versions \cup {NotListed} : catalog' = [catalog EXCEPT ![t] = v]
    /\ UNCHANGED <<access, connection>>

SetAccess ==
    /\ \E u \in Users : access' = IF u \in access THEN access \ {u} ELSE access \cup {u}
    /\ UNCHANGED <<catalog, connection>>

SetConnection ==
    /\ \E t \in Tools, s \in Connection : connection' = [connection EXCEPT ![t] = s]
    /\ UNCHANGED <<catalog, access>>

World == Change /\ (SetCatalog \/ SetAccess \/ SetConnection) /\ Observe

AllDone ==
    /\ \A c \in Calls : pc[c] = "done"
    /\ UNCHANGED vars

Next == (\E c \in Calls : Step(c)) \/ World \/ AllDone

Received(c) == pc[c] # "idle" /\ input[c].kind # "availability"

\* A request that the HTTP adapter received goes on: its ports answer or its
\* deadline ends it. A question of the engine has no deadline of the service's.
Fairness == \A c \in Calls : WF_vars(Step(c) /\ Received(c))

Spec == Init /\ [][Next]_vars /\ Fairness

-----------------------------------------------------------------------------
(* Properties *)

\* Of the updates that name the same revision of a setting, at most one is
\* taken, whether it created the row or changed it.
OneWinnerPerRevision ==
    \A u, v \in applied : u.row = v.row /\ u.expected = v.expected => u = v

\* A setting is the last update taken, and none was lost on the way: its
\* revision counts the updates, and the newest of them set the switch.
NoUpdateLost ==
    \A r \in Row :
        LET taken == {u \in applied : u.row = r} IN
        /\ rows[r].revision = Cardinality(taken)
        /\ \A u \in taken : u.expected + 1 = rows[r].revision => u.enabled = rows[r].enabled

\* The updates taken on a setting follow each other, revision by revision.
UpdatesInSequence == OneWinnerPerRevision /\ NoUpdateLost

\* An update answered with a refusal was not taken and never will be: the
\* client may correct it and try again. An error says nothing either way.
RefusedMeansUntaken ==
    \A c \in Calls : reply[c] \in {"conflict", "forbidden", "bad_request"} =>
        \A u \in applied : u.by # c

\* An update answered "ok" was taken, for the user who asked and as asked.
AcknowledgedMeansTaken ==
    \A c \in Calls : reply[c] = "ok" /\ input[c].kind = "update" =>
        [by |-> c, row |-> <<input[c].user, input[c].tool>>,
         expected |-> input[c].expected, enabled |-> input[c].enabled] \in applied

\* What a user is told of his update is true and stays true.
AnswersAreTrue == RefusedMeansUntaken /\ AcknowledgedMeansTaken

\* Every setting shown was in the user's own table row at some moment of the
\* request, and so was the switch behind an availability granted.
ShownWasTrue ==
    \A c \in Calls :
        /\ \A i \in items[c] : <<i.tool, i.pref>> \in seen[c]
        /\ reply[c] = "yes" => \E p \in Preference : p.enabled /\ <<input[c].tool, p>> \in seen[c]

\* An update is taken only if the catalog listed the version it names while the
\* request ran: a setting is not changed for a definition unseen by the user.
TakenForListedVersion ==
    \A u \in applied : u.by \in seenVersion

\* A setting changes only by a request of its own user.
OwnersAreIsolated ==
    [][\A r \in Row : rows'[r] # rows[r] =>
          \E c \in Calls : pc[c] = "save" /\ input[c].user = r[1]]_vars

\* Every request received by the HTTP adapter is answered, even with a policy
\* that never answers.
EveryRequestAnswered ==
    \A c \in Calls : Received(c) ~> reply[c] # "none"

-----------------------------------------------------------------------------

Register == INSTANCE CasRegister WITH value <- rows

\* To its users the table is one register for each user and tool, whatever the
\* interleaving of requests, lost answers and deadlines.
ImplementsRegister == Register!Spec
=============================================================================
