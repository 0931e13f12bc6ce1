# Verification of domainry-tools

domainry-tools is a Go library. Products embed it between a host (an agent
engine or another caller of tools) and the owners of data: it registers tools,
authorizes and runs calls of them, and lets a user switch tools on and off. It
keeps one table of its own, the tool settings; all else it changes lives with
an owner it calls (Integration for connected accounts, Scheduler for plans,
Knowledge for records, Data and Analysis for reports). What is hard about it is
what happens between its calls of these owners, so that is what is modelled:
concurrent calls, retries, answers that are lost or late, and rights, approvals,
catalogs and sources that change while a call is under way.

Paths below are relative to `src/`. "registry.go" is
`internal/application/tool/registry.go`, "write.go" is
`internal/adapter/accounttools/write.go`, and so on.

## 1. Inventory

| Component | State it keeps | Operations | Talks to | What makes it correct |
|---|---|---|---|---|
| Tool registry and selection, `internal/application/tool/registry.go` | definitions and adapters by key, `sealed`; a selection holds copies | `Register`, `Select`, list, invoke, reconcile, `AuthorizeResult`, result read, `InspectOutcome` | adapters; the host's authorizer | definitions are what was registered; nothing changes after the first selection; every write can be reconciled; a call is authorized before it runs and its result before it is released |
| Combined host, `combine.go` | two hosts and the keys of the second | lists both, routes by key | two selections | what is listed is what is served, by the host it is routed to |
| Account write engine, `internal/adapter/accounttools/write.go`, `write_discovery.go`, `write_result_read.go` | none; the owner's ledger keeps receipts | `AuthorizeTool`, `Invoke`, `Reconcile`, `InspectOutcome`, `AuthorizeResult`, account discovery, result read | host policy, subject resolver, confirmation verifier, Integration ledger | one effect per idempotency key, only as approved and on the approved account; no failure is reported that is not final |
| Account read engine, `accounttools/adapter.go`, `availability.go` | none | `Invoke` with the check after the read, discovery pages with a cursor, result release and result read | subject resolver, Integration reads | nothing is released that the caller may no longer see, or from an account that was replaced |
| Account families: `mcptools`, `mailtools`, `calendartools`, `webtools` | none | preparation and presentation of calls; `mcptools` validates against a remote catalog right before a write | the account engines | arguments and receipts are what the schemas say; a remote tool that is gone is not called, nor one with arguments it does not accept |
| Schedule tools, `internal/adapter/scheduletools` | none; the scheduler keeps plans | create, list, get, update, pause, resume, delete; invoked or reconciled; result release and read | Scheduler, host policy, tool catalog | a command changes a plan at most once; fields that are not named are kept; a task only gets tools its user has |
| Record tools, `internal/adapter/recordtools` | none; the record owner keeps receipts | save, reconcile, read; result read | record owner | a save happens once per key and its result belongs to reader and producer |
| Report and analysis tools, `reporttools`, `analysistools` | none; `Source` is a function of the host | availability, catalog, query; result release and two kinds of read | a business source, which the host may replace at any time | what is handed over belongs to the source that was bound and is allowed by it; a saved result is refused for a reason only |
| Tool settings: `internal/application/preferences/service.go`, `internal/infrastructure/persistence/database/preferences/store.go`, `internal/transport/http/preferences/adapter.go`, `internal/assembly/preferences/module.go` | table `_tools_user_preferences` | list and update settings, answer availability | SQL database, access bundles, catalog, connection policy | compare-and-set per user and tool; a refusal is final, an acknowledgement real; every request through HTTP ends |
| Calculation `calculation/`, time `timeutil/` | none | pure functions | - | results equal the mathematical definition; bounded sizes; gaps and overlaps of local time |
| `module/` | none | aliases and constructors | - | - |

How they interact. Adapters register with the registry at assembly; a product
selects keys and hands the selection, or two combined, to the host. A call goes
host → combined host → selection (entry check, authorization, argument schema,
execution timeout) → adapter → owner, and its result comes back the same way,
is checked against the output schema and released only if `AuthorizeResult` agrees.
Tool settings answer the host's availability question and serve a settings page.
There are no goroutines or channels inside; concurrency comes from the callers, and
shared state is the registry (mutex), the table (SQL) and the owners.

Behaviours that are hard: everything that is checked before an owner is called
can have changed when the owner acts; the answer of an owner may be lost or come
after the timeout; the host retries, reconciles and inspects under the same
idempotency key, possibly while the first call is on its way; a definition is
shared memory. The list of hazards, each with its line and the properties that
watch it, is in `PROJECT.json`.

## 2. Modules

| Module | Models | Abstract specification |
|---|---|---|
| `AccountWrite` | a write through a selection, the write engine, the MCP validation, and the owner's ledger | `WriteOutcome` |
| `Preferences` | HTTP adapter, service and store of the tool settings | `CasRegister` |
| `Registry` | registration, selection, combination and listing | `FrozenCatalog` |
| `Schedule` | plans of the scheduler as the schedule tools change them | `PlanBook` |
| `AccountRead` | reading accounts, discovering accounts to read or to write, availability to read, write and search, and the release of what was saved | |
| `ResultReads` | reading saved results of record, plan and account write tools | |
| `Records` | saving, reconciling, inspecting and reading records | `SaveLedger` |
| `Reports` | catalogs and queries of reports and analyses, their availability and releases | |
| `RemoteCatalog` | what the MCP tools make of a remote catalog, as operators | the server's own schemas |
| `Calculation` | the calculation tool, as operators | reference definitions in `Arithmetic` |
| `Rounding` | the rounding of the calculation tool, as operators without recursion, so that it can be proved about | `Nearest` in the same module |
| `TimeResolution` | the clock tool, as operators | `Meant` in the same module |
| `MC*` | the small instances TLC checks | |
| `*Proofs` | theorems and proofs about the module of that name; those about `TimeResolution` and `Rounding` are in `ReportsProofs` | |

In `AccountWrite`, `Preferences`, `Registry`, `Schedule` and `Records` an attempt, call or request is a process with a program counter, and several run side by side.
In `AccountRead`, `ResultReads` and `Reports` there is one caller: these parts of the code keep nothing between calls that a call could
leave to another, so what a call can meet is a change of the world around it, which the model lets happen between any two questions.
`RemoteCatalog`, `Calculation` and `Rounding` have no state, and `TimeResolution` none but the question it is asked. A step is one question to something outside (a port, the database, a lock section)
together with all that the code does with the answer up to its next question. Whatever the
outside does is a step of its own and marked external. An operator `Bug_X` is `X` with
a plausible mistake; no specification uses one, they serve to show that the properties would notice.
Variables called history in their comment record the past for a property; no guard reads them.

### AccountWrite

`pc` walks through registry.go:146-186 and write.go: `Begin` (call checks), `HostAuthorize`,
`AccountAuthorize`, `Confirm` (`AuthorizeTool`, write.go:117-145), `Resolve` (first part of
`execute`: prepare, identity, access, binding of `who` and `source`), `Validate`, `Revalidate`
(`BeforeWrite` of mcptools), the three authorization steps once more, `Rebind`, `Send`,
`Conclude` (meaning of the answer), `GiveUp` (the timeout, which runs only after the selection's own authorization), `PortError`, `Release` and `Disclose`
(`AuthorizeResult`). `phase` says which of the up to three runs of `AuthorizeTool` it is. The owner has a durable
`ledger` of receipts by request ID and is the reader's assumption about
Integration, taken from how write.go uses it: same request replayed, other
request under the same ID refused, lookup finds only the very request, the provider acts at any time after acceptance.

Abstractions. `access()` asks the resolver and then the owner; both answers are
taken in one step, since the engine combines them and every check is repeated
later. The discovery tool of the account families is in `AccountRead`. Calls
with empty arguments are left out. Approvals are not issued again once withdrawn, so that
"withdrawn before validation ended" has a meaning. Contents stand for target and payload.

### Preferences

`Start` is the adapter up to the service call, `ReadCatalog` and `Read`, `Save`,
`Connect` are the calls of the catalog, the store and the connection policy, `Fail` is an
error of any of these or the end of the context, which is that of transport/http/preferences/adapter.go:36 after five seconds. Revision 0 stands for
"no row": INSERT when 0 is expected and `UPDATE ... WHERE revision` otherwise both fit exactly if the row's revision is the expected
one. `Save` may commit and still report an error. `MaxRevision` stands for the largest int64. The availability question of an engine
(`ConversationToolAvailable`, `ConversationToolResultReadAvailable`) is one kind of request; it does not come through the
HTTP adapter and has whatever deadline its caller gave it, perhaps none.

### Registry

A definition is its key, its effect and a buffer; `heap` says what is in a buffer. `copyDefinition` is the
choice of a fresh buffer; `Overwrite` is a caller that writes into one it holds. `Register` is one call under the lock, an adapter's own
loop over its definitions is `plan` and `done`. `sound` stands for the checks of a definition by itself (keys, schemas, limits). `Select`
that fails, whether for an unknown key, a repeated key or an empty list, leaves no trace. `ListBegin`, `ListEntry`, `ListNext` and `ListFail` are the
combined listing, one authorization at a time.

### Schedule

`Begin` and `Authorize` are the selection and the first switch of `invoke`, `Reauthorize` the second
authorization of a creation, `Lookup` is `GetScheduledPlan` with all that is decided from the plan (`view`, merge, details),
`ReadCatalog` is `backgroundInput`, `Deliver` the scheduler acting on a command, `Conclude` the mapping of its answer. The scheduler's
semantics are those of the stub the repository tests with (scheduletools/adapter_test.go:25-96), with one addition: an answer may be lost
and a command may arrive after its caller gave up. What it does not replay it may also find invalid, and nothing says for how long. `Conclude` has the
selection's check of the output, too (registry.go:179-184), which makes a completed result uncertain. One text stands for name, time zone and trigger, one for goal and input, or title and message; background tasks
and follow-ups are one kind. `conversation` is the conversation and run a plan was last written from, which an update replaces if it is called in one. A caller names a revision it may have been shown: at most the current one when it begins (`Anticipate = FALSE`).

Two things the code does are kept in the model though they may surprise: when a plan cannot be viewed, or the merged details do not fit or
name a tool that is not listed, an update, pause, resume or deletion reports an unavailable service,
because `mapSchedulerError` replaces errors it does not know (adapter.go:300), whereas a creation reports the error itself.

### AccountRead

One caller: the engine keeps nothing, so calls meet only through the policy, the rights and the accounts, which `World` changes
between any two questions. A request is a read (`Access`, `Fetch`, `Receive`, then the checks after the network
`Reauthorize`, `Resubject`, `Recheck`, adapter.go:135-212), a discovery page (`List`, `Entry` for one account after the other, `Compose`, and then the
release check like a saved page, adapter.go:236-315), an offer, which is the discovery of accounts to write to (write_discovery.go:47-163: the same steps,
but the right to write, and in the release check the right to list first), or an availability question (`Look`): whether something can be
read (availability.go), written (write_discovery.go:165-201) or searched with. The last is that of the web tools, which filter the
owner's list down to the one `Connection` the host chose (webtools/adapter.go:86-98); `Listed` is that filter, and a web read or release is a read of that account.
An availability question promises that one and the same account, in one version, was listed, may be used and, for the web, is the chosen one. What was handed over may be asked for again:
`AskRelease` by the host (`Outer`, registry.go:193-209, then `Release`) or by a reader of the record, who needs no grant of the tool.
A cursor is an offset and the list it was made for; the code digests that list, and a digest is taken to be without collisions.
`absent` accounts are not in the owner's list; `hidden` ones count for the offsets and are skipped.

An owner that fails for one account of a discovery drops that account from the page, as one that refuses does (adapter.go:289-292); the page may still be called
complete. `Entry` has that step, and `WalkIsExact` promises only the accounts (`steady`) for which no question failed.

### ResultReads

A selection's `AuthorizeConversationToolResultRead` (registry.go:215-240) is asked by a reader who may be the producer of a
result, the same user in another role (`successor`) or another user (`stranger`). `kind` is the tool that gave the result: `recordList`, `recordRead`, `recordSave`
(recordtools/result_read.go), `planList`, `planCreate`, `planGet`, `planChange`, `planDelete` (scheduletools/result_read.go) or
`receipt` (accounttools/write_result_read.go). `Begin` is all that is decided from the result itself (`WellFormed`), then the questions follow one by one:
`AskReader`, `AskProducer`, `AskAccess`, `AskPlan` about rights, `Look` and `LookUpReceipt` at the sources, and, for records and receipts, the rights once more (`again`).
Between any two of them rights are withdrawn or given back and items revised, corrected or deleted. A saved result is a sequence of pieces with the item, its
content and its revision; the arguments of the call are reduced to the item or cursor it names, the revision it expects and its page size.

Plans are asked for and looked at in turn, and are not asked for again: `ReleasedWasAllowed` says for plans what the code gives, that each was
allowed in its own turn, and for the others the stronger fact, that the right was held after the last look.

### Records and SaveLedger

`Begin` and `Authorize` are the selection, `InvokeSave`, `InvokeRead` and `Receive` are `Invoke` (recordtools/adapter.go:84-122), `Reconcile`
is `Reconcile` and `InspectOutcome` (124-142), `Fail` any error or the timeout, after which a save may still be under way. The record repository is
external: immutable revisions, and a receipt per client ID, which digests the idempotency key. `OwnerRepeat`, `OwnerWrite` and `OwnerRefuse` are its
answers, at any time after the save was sent. `Disclose` is the output check of the selection (registry.go:179-184 and, for inspections, 267-272): a
result with too large or unfitting content reaches the host as "uncertain", with the code `tool.output_invalid`, although the revision is written. So the host hears "uncertain" for two
opposite reasons, and only the code tells them apart; the stages are called `missing` (`record.receipt_missing`) and `withheld`. `SaveLedger` is the promise: `Save` once per key,
`Complete` only with that row, `Miss` while nothing is saved, `Withhold` once something is. `Saved` and `Told` are the refinement mapping. `Told` covers completed and uncertain answers; a
failed save promises nothing in this code, since the answer may only have been lost, which is what `Reconcile` is for.

### Reports

Report tools and analysis tools have the same shape, and `family` tells them apart where they differ: a report's query is confirmed with the owner before
its size is measured, an analysis' after that, and an analysis turns several errors into results of their own (`Diagnose`, analysistools/failures.go). `purpose` is a
question of availability, a call, the release to the caller (`AuthorizeResult`), to a reader, or of a published result (`AuthorizeResultRead`). Each request takes the
source that is bound when it comes to `Take`; the host may bind another one at any time. A catalog is a version, of which 0 is empty; `attests` are the sources that
give read proofs with their results. The data of catalogs and queries, and the schema checks of either, are reasons to `Fail`.

### Calculation, Rounding, Arithmetic and TimeResolution

`CalculateConversation` follows calculation.go:184-275 with the recursive descent of `DecimalParser` (`Sum`, `Terms`, `Product`, `Factors`, `Factor`): position, count of tokens, depth and
the widest operand go through it, because the limits depend on them. A number is one lexeme; `ValueOf` gives its value, and a lexeme without one is a
number that cannot be read. math/big is external and modelled by exact fractions. `Arithmetic` says the same without a parser: an expression is cut at its last operator
of lowest precedence, a smallest and a largest value are chosen from the set, an interval is counted in parts of a second, and a decimal is judged by its distance to the exact value. `Rounding` has the part of `DecimalRound` (calculation.go:162-170) that decides the number: integers of the last decimal place
for the absolute value of a fraction, and `Nearest`, what it promises. The text that is made of it, with its sign, is `Written` in `Calculation`.

`Resolve` is timeutil/time.go:14-57. A zone is two offsets and the instant of their change; `Instants` is what `time.Date` documents: an instant that shows the wall
time, or, where the change skips it, one that is right by either offset. `ResolvedIsMeant` states the exception that follows from it: on a date where the change skips the wall time, the neighbouring date and no other.

### RemoteCatalog

`AccountWrite` says when a remote catalog is read and what may change around that; `RemoteCatalog` says what is made of it: `presentCatalog` with
`sanitizeInputSchema` and `sanitizeSchemaValue` (mcptools/adapter.go:157-284), and the `Verdict` of `validateCurrentRemoteTool` (315-333). JSON is a tree; the schema compiler of the SDK
is external, and six keywords (`type`, `properties`, `required`, `additionalProperties`, `anyOf`, `$ref`) stand for those it knows. What is too long, not valid text or
another document is a marked value. `CatalogFitsRemote` speaks of the schema as the server published it, with its annotations: the cleaned schema decides as
that one does, and the shown schema says at every place what the published one says there, except under an annotation.

## 3. What the runs check

All bounds are constants of the configurations. Symmetry is used only over values that
are interchangeable (calls, attempts, adapters, contents) and only in runs without liveness.

| Run | Shows | Bounds |
|---|---|---|
| `account_write` | one effect per key; effects are approved and on the approved account; "failed" is final; "completed" is real; only invocations write; the attempts implement `WriteOutcome` | two attempts out of five requests on one key (two contents, two revisions, a refused argument), two external changes |
| `account_write_validated` | with remote validation: effects were offered by the catalog of that account; an approval withdrawn meanwhile stops the write; every call that the selection let through is answered | two attempts out of five requests (invoked, inspected, misused token, no key, bad argument), two subjects, one external change |
| `preferences` | one winner per revision; no update lost; refusals and acknowledgements; what is shown was true; updates refer to a listed version; users are isolated; implements `CasRegister`; every request through the HTTP adapter is answered | three requests race for one switch at revisions 0..2 with 2 the largest and nothing else changing; or two requests of every kind with two users, tools and versions next to a malformed one, with one change |
| `registry` | definitions stay as registered; ownership of keys; writes can be reconciled; listing is true; implements `FrozenCatalog` | two adapters with up to two registrations, two keys, two contents, two selections, two changes |
| `schedule` | one plan per key; only own plans change; retries change once; unnamed fields are kept; task tools were listed; answers are true, for a reconciled creation or deletion also of its first execution; implements `PlanBook` | three calls out of six edits of one plan, or three out of twelve openings and foreign reaches, one of them without a key; two users, two conversations of which one is none, one change of policy or (not while edits race) catalog |
| `account_read` | what is handed over was readable, listed and granted at a moment after the network's answer or after it was asked for again; availability speaks of one account in one version; a complete walk has found every account that was there all along, none twice | walks over three accounts and pages of two, other requests over accounts in two versions; two changes, two further requests |
| `result_reads` | what is released was allowed and is what the owners had; a refusal has a reason | nine kinds of results, three readers, two items with two contents and three revisions, pages of up to two, two changes |
| `records` | saves, retries and reconciliations implement `SaveLedger` | three attempts of every kind, two keys of which one creates and one replaces, two records with two revisions, one change of policy |
| `reports` | what is handed over belongs to a bound source and was allowed; a saved result is refused for a reason | two sources of which one has a reading policy, catalogs in two versions of which one is empty, both families, two changes, one release |
| `functions` | answers of the calculation tool are exact and correctly rounded, and its operands stay bounded; relative dates are the dates meant; a remote catalog is shown, and judges calls, as the server published it but for annotations | expressions up to six words, lists up to three values, intervals, every rounding at five precisions; three zones (an hour forward, an hour back, over a whole day) and 61 instants around their changes; every schema of two arguments of five shapes, with and without `required` and `additionalProperties`, thirteen odd schemas, two tools, arguments of five shapes |
| `schedule_reconcile` | violation, see section 6 | two calls |
| `remote_catalog_names` | violation, see section 6 | catalogs as in `functions`, with an argument named `title` |

Why the bounds are enough for what they show. Every hazard listed needs at most two calls that meet and one or two
changes around them; the third call in `preferences`, `schedule` and `records` is there for a retry of one of two
that race. Requests are chosen so that every branch of every action is taken in some run. `MCPreferences` and `MCSchedule` restrict which requests come together, so
that three calls of one sort meet, rather than any three. In `functions` the limits of the code (depth 32, 256 tokens, 4096 bits, 2048 bytes, 256 values, 12 places) are 3, 3, 8, 5, 2 and 2, so that
six words and three values go past each of them. Of schemas, depth 32, 256 children and 64 tools are 6, 5 and 2, and catalogs go past each; arguments
are not named like annotations there, which is the subject of `remote_catalog_names`. The theorems cover all sizes for the properties they name.

Deadlock is checked in every run but `functions` and `remote_catalog_names`, which enumerate inputs and have nothing to do after the last. `AllDone`, `Done` and `Rest` are the only steps that do
nothing: they are enabled when all calls have been answered (or, in `Schedule`, were never made), or when a caller with a final answer need not go on.

## 4. Fairness

`AccountWrite` and `Preferences` state weak fairness of the steps of a call where the code sets it a deadline, which is given to every
port. In `AccountWrite` that is from the timeout of the definition on (registry.go:165 and 261), after the selection has authorized the call: there the policy, the
subject and the account's owner are asked under the caller's own context (registry.go:154 and 250), so a call in phase `select` may hang for ever, and `EveryCallAnswered`
says nothing of it. In `Preferences` it is for requests that come through the HTTP adapter, which gives them five seconds
(transport/http/preferences/adapter.go:36); the availability questions of an engine have no deadline in the service (service.go:121-155) and `EveryRequestAnswered` leaves them out. Nothing is assumed
of the owner, the provider, the connection policy or the world: the owner never has to answer and a policy may be silent for ever.
Whether calls are made at all is not assumed either. The other modules have no liveness property and no fairness: what ends their calls is
the same timeout, which is modelled once, in `AccountWrite`; theirs is the step `Fail`.

## 5. What is proved

TLAPS proves the theorems below for all values of the constants that satisfy `ConstantsAssumption` (distinct markers, well-formed requests, natural bounds).
Each comes from one inductive invariant, `IInv` or `Inv` (in `AccountReadProofs` it stays in its parts), of which the proof
shows that `Init` establishes it and every step keeps it, with one step per action, and that it implies the property.

`AccountWriteProofs`: `IInv` is `TypeOK` with four parts. `AttemptInv`: an attempt past `Confirm` carries an approved call, and past
`Resolve` a source equal to the revision its caller was shown. `MessageInv`: a message on the wire belongs to an attempt that got so far, a write to an invocation, and an
answer agrees with a receipt that can no longer change. `ReceiptInv`: every receipt is that of an approved call of an invocation, on
the revision it names. `EffectInv`: effects are exactly what succeeded receipts stand for. The properties alone are not inductive: "failed is final" needs to know that a failed receipt
is final, which is about the ledger and not about results. On top of it `RemoteInv` (`OfferInv`, `ValidationInv`) says what the remote validation adds: what passed it was
offered, every receipt is of something offered, and an attempt whose approval lapsed while it validated has sent nothing and gets no further than the repeated confirmation. Theorems: `TypeCorrect`, `AtMostOneEffect`, `EffectsAreApproved`,
`FailureIsFinal` and `CompletionIsReal`, together `OutcomesAreFinal`, from which `OneStory` follows (the definite answers under one key agree with each other), `OnlyInvokersWrite`, `EffectsWereOffered`, `LapsedStopsWrite`, and `Refinement`: the specification implements `WriteOutcome`.
For the refinement the approval of a call is the abstract `Approve`, the final status of a receipt is `Settle`, and the answer to an attempt is `Report`.
`CallsComeToAnEnd` is what safety can say of `EveryCallAnswered`: `StepsLeft` counts down. A call passes the authorization up to three times, and `Round` (the phase) and `Place` (where it stands
in one) fall lexicographically with each of its own steps, so that it takes at most 38 of them; nothing others do gives it back a step; it has an answer exactly when it is done, and the answer stays. It needs
`OrderInv`, that the remote validation belongs to the second authorization: without it a third could follow a third for ever. The bound holds for every call, the selection's own authorization included; that an enabled step is taken is left to
fairness, which only the calls that got past the selection have.

`PreferencesProofs`: `IInv` says that the updates taken form a chain without gaps for each row, each update belongs to the request that
made it, and a request that was not answered "ok" or with an error has taken none. `ShowInv` says that what a request holds or shows was in a row of its user since it began. Theorems: `TypeCorrect`, `OneWinner` and `NoneLost` (together `Sequence`),
`RefusalIsFinal` and `AcknowledgementIsReal` (together `AnswersAreFinal`), `VersionWasListed`, `ShownIsTrue`, `Isolation` (an action property),
`Refinement`: the specification implements `CasRegister`, and `RequestsComeToAnEnd`, the same for `EveryRequestAnswered` as `CallsComeToAnEnd` is for the calls, questions of availability included: each step of a list either moves it on or leaves fewer tools to show, which
needs `ListInv`, that the tool whose row is read is one of those left.

`RegistryProofs`: `IInv` says that entries and selections point only into buffers that no caller holds, which carry what was registered, that each running adapter owns what it
has registered so far, and what a listing has gathered. Theorems: `TypeCorrect`, `DefinitionsAreCopied`, `NothingIsReplaced`,
`WritesCanBeReconciled`, `ListingIsHonest` and
`Refinement`: the specification implements `FrozenCatalog`; and what a product has of that, `SelectionSettles`: after the first selection no definition is added, lost or reworded.

`ScheduleProofs`: `IInv` says which change the answer to a call stands for (`AnswerInv`), that an update carries the merge of its patch with the plan it has read,
which is still the plan if the revision is (`UpdateInv`), and that all changes of a plan have revisions of their own (`Numbered`), from which
"one plan per key" and "a retry changes once" follow. `DeniedInv` is about the command instead of the call: the scheduler never answers a creation with a conflict or a missing plan, and a deletion
that is has not been performed by any call, and cannot be any more, because the plan has moved on without it. Theorems: `TypeCorrect`, `OnePlan`, `RetriesAreHarmless`, `ForeignPlansAreSafe` and, assuming
that callers name only revisions they have been shown (`~Anticipate`, without which fields are lost, see section 6, and a deletion that came too early may be denied and then performed), `AnswersAreFinal` (which needs it for reconciled deletions only), `FieldsAreKept`, `ToolsAreListed` and
`Refinement`: the specification implements `PlanBook`. `RevisionsCount` needs no such condition: every change of a plan is one command of its own user and moves its revision on by exactly one, and a deleted plan stays deleted. Nor does `CallsComeToAnEnd`: a call takes at most five
steps of its own, sends one command at most, and is answered once; an execution that has lost the scheduler's answer does not ask again.

`AccountReadProofs`: `FlowInv` says which kinds of requests come to which stage and what they carry there. `SeenInv` says what a stage proves
about the history of the check: what is so now has been seen since it began, and the answers that led to the stage are part of that. `WalkInv` is about places in the
list: the pages handed over hold exactly the steady accounts behind the cursor, and a page in the making has looked at, or will look at, every steady account
that belongs on it. `CursorFits` is what carries it from one page to the next: the place of an account means the same in two listings
only because their scopes are equal. Theorems: `TypeCorrect`, `HandedOver`, `Named`, `Available` and `Walk`. Two more say that asking comes to an end though the accounts change all the time. `WalksComeToAnEnd`: a walk has no more pages than there are accounts, because each page that is not the last moves the cursor on by its limit
(`LengthInv`: the pages are no more than the cursor's offset, and that is less than the number of accounts). `RequestsComeToAnEnd`: a request takes at most 2n + 12 steps of its own with n accounts; `StepsLeft` counts the accounts
left in `todo` and the stages ahead (`Left`): each account of the list is asked about once for the page and once more for its release, and neither starts over when the accounts change.

`ResultReadsProofs`: `Inv` has a part for each thing that has to be remembered up to the release. `FlowInv`: which kinds come to which stage. `RecordedInv`, `OrderInv`, `IntactInv`,
`AllowedInv`: the receipt, the order, the sources and the plans' rights of the pieces behind the one that is asked about. `RecentInv`: the rights collected since the last look. `SourceInv`: revisions only grow, without which a
plan of an older revision than the saved one could be a refusal without reason. Theorems: `TypeCorrect`, `ReleasedOnlyWhenAllowed`, `ReleasedOnlyAsSaved` and `RefusedWithReason`; and `ReadsComeToAnEnd`: a read of a result of n pieces is answered after at most 2n + 9 questions. `StepsLeft` has two questions for each piece that is left and those of the
two rounds about the roles, of which `again` tells the second; a change of the world never begins a round again.

`RecordsProofs`: `AttemptInv` and `WrittenInv` say that every row an attempt has written or has in its reply is a receipt of its key, and that
no receipt is there that no attempt has written; so a missing receipt is reported only while nothing is written, and a result is withheld only when its revision is written. Theorems: `TypeCorrect` and `Refinement`: the specification implements `SaveLedger`. `AnswersAgree` and `AnswersStay` are what the host has of the ledger, proved through the refinement: all results told under one key are one and the same saved revision (`LedgerInv`, which also says that a withheld result is a saved one), and neither a save nor an answer is ever undone. `CallsComeToAnEnd` (a call takes at most four steps of its own and sends its save once) and `LookupsNeverWrite`
(each revision is the first write of a call to save) are what a reconciliation relies on: it may be repeated without an effect.

`ReportsProofs`: `FlowInv` says that from `Take` on a request has the source it was bound to at some moment, and what it has been granted since the source's answer. Theorems:
`TypeCorrect`, `HandedOver`, `RefusedWithReason` and `RequestsComeToAnEnd` (at most eight steps; the confirmation and the measuring of a result, whose order depends on the family, follow each other once).

Two more sections of `ReportsProofs` are about functions of other parts, for every argument. `DatesMeant`: at every instant, in every zone of `Zones` and for every question, the date is the one meant. The
proof writes an instant as a day and a time of day and compares the days of the two instants that `time.Date` may choose from; it assumes that a zone never moves its clocks by more than a day
(which none has). `RoundingIsExact`: the number of units that `RoundedUnits` computes by quotient, remainder and parity is a `Nearest` one and the only one,
for every fraction, place and rounding; from that, `RoundingKeepsOrder` (a larger value is never shown as the smaller one) and `RoundingIsTold` (`rounded` is said exactly if the number shown is not the value).

Only model-checked: that the steps which `CallsComeToAnEnd` of `AccountWriteProofs` and `RequestsComeToAnEnd` of `PreferencesProofs` count are taken, which is the rest of `EveryCallAnswered` and `EveryRequestAnswered` (liveness under fairness is out of the prover's reach;
the other modules state no fairness, see section 4, and their theorems of this kind bound the steps that are taken);
`AnswersAreExact` but for its rounding, and `CatalogFitsRemote` (both are about recursive operators on data, which the prover cannot do induction over).

## 6. Findings

- `schedule_reconcile`: README.md:17 asks that `Reconcile` look up the receipt of a write and not write again blindly. The
  schedule tools' `Reconcile` (scheduletools/adapter.go:180) sends the mutation again. `RetriesChangeOnce` shows that it is
  never applied twice, because the revision or the client ID is used up by the first success; but when the first command had not
  arrived, it is the reconciliation that performs it. And an update, a pause or a resumption that did succeed, but whose answer was lost, has used up the revision it
  names: reconciling it ends in a conflict (scheduletools/adapter.go:300, 728-729), which the caller must not take for "not performed". `ReconciledMeansReplayed` therefore speaks of creations
  and deletions only.
- `remote_catalog_names`: `sanitizeSchemaValue` (mcptools/adapter.go:246) drops every key that is named like an annotation, at every depth. Under `properties` keys are
  names of arguments, so an argument that a remote tool calls `title`, `description`, `default`, `examples`, ... loses its schema: the catalog that is shown does not have it, and a call
  whose `title` does not match the published schema is sent, though `TestMCPCallRejectsRemoteSchemaMismatchBeforeWrite` (adapter_test.go:209) has such calls rejected before the write.
  Where the schema allows no additional properties, a valid call that names it is refused instead. `CatalogFitsRemote` holds while no argument has such a name.

A limit that no run of the list shows: a schedule update merges into the plan it has read and sends it with the revision its caller named; the two are not compared
(scheduletools/adapter.go:353, 400). If a caller names the revision that a change still under way will bring about, the update reads the plan before that change, is
accepted after it, and puts back what the change had replaced. With callers that name only revisions they have been shown this does not happen, which `schedule`
checks and `ScheduleProofs` proves; `schedule.cfg` with `Anticipate = TRUE` shows a loss (`UntouchedFieldsKept`).

## 7. Not modelled, and what is assumed

Not modelled:

- The release of a schedule result to its caller (scheduletools/adapter.go:565-616): one question to the scheduler, whose answer is compared with the saved
  result; there is nothing between two questions that could change. Listing and getting plans change nothing either.
- `ConversationToolResultReadAvailable` of the write engine (write_result_read.go:123-131): one question about the subject.
- The conversions of arguments and of provider payloads in the mail, calendar and web families, and of MCP receipts: they keep no state, and what they are about is
  third-party data. Where they may refuse, the models have a refused content or the step `Fail`.
- The list search of the record tools and the data of reports, beyond what decides about their release.
- The spelling of decimals and of white space in expressions; wording of errors, headers and messages; the definitions' schemas.
- `module/`, which forwards, and the architecture test, which looks at imports.

Assumed of what is outside: the Integration ledger replays a request and refuses another one under its ID; the record repository keeps revisions and receipts
for ever; the scheduler behaves as the stub of its tests; a business source says of each question what is so at that moment; digests have no
collisions; math/big is exact, `time` does what it documents, and no zone moves its clocks by more than a day at once. Each assumption is a definition marked external in `PROJECT.json`.
