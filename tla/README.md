# Yearning: TLA+ models of the order workflows

Yearning is a web service (Go, MySQL) through which developers submit SQL to
production databases. An auditor chain approves a change, an external engine
("Juno", reached by `net/rpc`) runs it; separately, a user asks for leave to query
a source, its principal agrees, and a websocket runs the queries. Administrators
change templates, permission groups, sources, rules and accounts meanwhile. This
directory holds TLA+ models of those parts, TLC configurations that check them on
small instances, and TLAPS proofs of the properties that matter most for every
instance.
Paths are relative to the repository root (the Go code is in `src/`).

## 1. The system: components, state, operations, interaction

| Component | State | Operations | Talks to |
|---|---|---|---|
| SQL order posting (`handler/personal/post.go`, `util.go`) | rows of `core_sql_orders`, `core_workflow_details` | `sqlOrderPost`, `autoTask` | permission groups, templates, engine |
| SQL order audit (`handler/order/audit`, `lib/calls/rpc.go`) | status, `current_step`, `assigned` of an order; details; comments | `AuditOrderState` (agree, reject, undo), `DelayKill`, `ScheduledChange` | templates, engine |
| Withdrawal, bulk deletion (`handler/fetch`, `handler/manage/settings`) | the same rows | `FetchUndo`, `SuperDelOrder` | - |
| Juno engine (not in the repository) | its jobs; writes statuses 5, 3, 1, 4 | `Engine.Exec`, `Engine.StopDelay`, `Engine.Check`, `Engine.Query` | order rows |
| Query orders (`handler/personal/query.go`, `handler/order/query`) | `core_query_orders` | `ReferQueryOrder`, `QueryHandlerSets`, `UndoQueryOrder`, `FetchQueryStatus`, `QueryDeleteEmptyRecord` | settings |
| Query websocket | one goroutine per connection with `msg.Ref`; one per record to write; `core_query_records` | `SocketQueryResults` | query orders, sources |
| Cron (`service/cron.go`) | the list it has read | `cronTabMaskQuery` | query orders |
| Settings (`handler/manage/settings`, `model/global.go`) | one row and its copy in memory | `SuperSaveSetting`, load at start | query orders |
| Templates (`handler/manage/flow`) | `core_workflow_tpls`; `flow_id` of a source | `TplPostSourceTemplate`, `DeleteSourceTemplateInfo`; `SuperEditSource` gives a source another one | orders in flight |
| Permission groups (`lib/permission`, `handler/manage/group`, `lib/factory/wrapper.go`) | `core_role_groups`, `core_graineds` | policy and group edits, `SuperClearUserRule`, `Equal` | sources, accounts |
| Data sources (`handler/manage/db`) | `core_data_sources` | create, edit, delete | groups, templates, rules |
| Accounts, login (`handler/manage/user`, `handler/login`, `lib/factory/jwtAuth.go`) | `core_accounts`; tokens | register, edit, delete, password, LDAP and OIDC login | groups, templates, orders |
| SQL checks (`src/engine`) and audit rules (`handler/manage/roles`) | `core_rules`, the global rule | `Check`, `MergeAlterTables`; rules saved, deleted, given to sources | the page that writes an order |
| Notifications (`lib/pusher`) | goroutines that send | `NewMessagePusher(...).Order().OrderBuild(...).Push()` and the like | order handlers |
| Schema and start-up (`service/migrate.go`, `service/yearning.go`, `cmd/cmd.go`) | the schema and its first rows | `install`, `run`, `migrate` | settings |
| Views, AI chat, auto-task administration, routing, encryption | nothing that several steps change | - | - |

Every HTTP request is a goroutine. The handlers read and write MySQL statement by
statement without transactions and keep nothing in memory but the settings
(`model.GloOther`), so **the database is the shared memory and each statement is
the atomic step**. What makes this hard:

* a handler reads a row, decides, and writes later (`ExecuteOrder`, `FetchUndo`,
  `DupCheck`, the cron job): another request may act in between;
* the browser keeps a page for as long as it likes and sends its content back: the
  stage of an approval is the `Flag` of the request, not the row's `current_step`;
* an RPC to the engine may have taken effect although its answer is lost;
* the process may be restarted between two statements of a multi-statement handler;
* several handlers answer "done" without looking at what the statement did;
* clean-ups read many rows, change the copies and write them back, some in goroutines
  that outlive the answer, next to edits of the same rows;
* a token says for eight hours what was true at the login;
* messages about an order are read back and sent beside the handler, and nobody waits.

What makes each part correct: `ExecuteOrder` hands the engine only orders that somebody
whom the check of the last stage lets through has approved there (which, because of the
substring test, need not be an auditor), and at *every* stage as long as requests carry
stages their pages have shown; `autoTask` hands orders over without any approval, and what
that does to the order's pages and trail is bounded; the auditors an order lists are those
its stage accepts;
an order that is being run is not taken away by its author; a query runs and is
recorded under an order of its sender that somebody granted; expired approvals
end; accepted approvals, reasons of rejections and records of queries are not lost;
an order is executed under the template it was posted with, or its source or template
was touched; nobody has a permission that no administrator gave, and a clean-up
reaches what it found; a deleted user is locked out in the end; a server runs on the
schema it needs; a statement that the checker passes is the one that runs, and names a
WHERE if its rule asks for one (if it does not, an UPDATE does when its table is a plain
word and the text is on one line); an auditor of the stage an order is at has been told.
The hazards are listed at their lines in `PROJECT.json`.

## 2. Modules

| Module | Content |
|---|---|
| `OrderAudit` | posting, `autoTask`, audit, withdrawal, deletion, engine, restart |
| `OrderLifecycle` | abstract specification of execution that `OrderAudit` implements |
| `OrderAuditProofs` | types, approvals, auditors; withdrawal never removes a running order; `OrderAudit` implements `OrderLifecycle` |
| `ReviewFlow` | the template of `OrderAudit` in motion: edits, deletion, sources, accounts |
| `QueryOrder` | query orders, websocket, records, cron, settings, restart |
| `QueryAccess` | abstract specification of access that `QueryOrder` implements |
| `QuerySources` | `QueryOrder` with a history of how connections were opened, and its fairness |
| `Permission` | groups, memberships, sources and the clean-ups that write copies back |
| `Accounts` | accounts, logins, tokens and the names on orders |
| `SqlChecker` | the built-in checker, audit rules, the merge of ALTER statements |
| `Notifications` | who is told what about an order |
| `Installation` | `install`, `run`, `migrate`: schema and first rows |
| `QueryOrderProofs` | queries run under orders of their sender that were granted; `QueryOrder` implements `QueryAccess` |
| `ReviewFlowProofs` | what holds of an order while its template moves |
| `PermissionProofs` | nobody has a permission that was not given, and what the clean-ups do |
| `AccountsProofs` | duplicates, groups, passwords and what tokens say |
| `NotificationsProofs` | stages are announced, announced withdrawals come true |
| `InstallationProofs` | a server's schema, the missing administrator, saved AI settings |
| `SqlCheckerProofs` | which statements that pass name a WHERE, which texts are not cut; the merge loses nothing within a table |
| `MC...` | constants, bounds and symmetry of each of them for TLC |

The modules share the database but not their variables: each takes as constant, or
leaves open, what another one moves (`OrderAudit` has a fixed template, `ReviewFlow`
moves it and takes an approval in fewer steps; whether an auto task takes an order is
open in `OrderAudit` and `ReviewFlow` and excluded in `Notifications`).

### OrderAudit

| Variable | In the code |
|---|---|
| `row[w]` | the row of `core_sql_orders` with that work id: `status`, `step` (`current_step`), `assigned` (the auditors of the comma-joined list); "unposted", "withdrawn" and "deleted" stand for no row |
| `trail[w]` | the rows of `core_workflow_details`, as a set of (action, account) |
| `reasons` | work ids with a row in `core_order_comments` |
| `juno[w]` | jobs of the engine that wait (`queued`) or run (`running`), and how many it has accepted from `ExecuteOrder` (`by_hand`) and from `autoTask` (`by_robot`) |
| `job[h]` | the next statement of a request goroutine and its local variables |
| `shown[w]` | history: every value `current_step` has had, any of which an open page may hold |
| `approved[w]` | history: what `isNotIdempotent` let through: the stage, the account, and whether a page had shown this stage |

One action is one statement: `LoadOrder` is the SELECT and guard of `ExecuteOrder`,
`CallEngine` its RPC, `ExecuteDetail` its INSERT; `AdvanceStep` and `AgreeDetail` are
the two statements of `MultiAuditOrder`; `RejectStatus`, `RejectDetail` and
`RejectReason` the three of `RejectOrder`. `isNotIdempotent` is as in the code: it
compares the request with the template only, by `strings.Contains`, hence
`NameWithin`, and the `Flag` of a request is any number. `KillStatus` changes nothing, because the UPDATE of `delayKill` names
a column the table lacks. Writes are by work id and hit no row when the order is
gone (`SetStatus`, `SetStep`). An RPC has four outcomes (`CallExec`): accepted;
accepted with the answer lost; refused; and a nil client, on which the code goes on
as after success. The template is constant, and its first audit stage is 1, as
`wrapperPostOrderInfo` sets it.

### OrderLifecycle

What the workflow promises about execution. An order is new, open (status 2 or 5) or
closed. A job needs a permit; a goroutine gets one by posting the order or by seeing
it open, and uses it at most once; only an engine that has a job for an order opens
it again. Closing an order does not revoke permits: the code looks and calls in two
steps, so this is the strongest statement that is true, and it leaves room for two
jobs for one order (see Findings). `OrderAudit` instantiates it with the mapping
`phase`, `permits`, `handed`.

### QueryOrder

| Variable | In the code |
|---|---|
| `orders`, `last` | rows of `core_query_orders` by primary key; `age` is the time since `approval_time` in minutes, capped just above `ExQueryTime` |
| `records` | `core_query_records`, without texts and schemas |
| `config`, `audit` | the stored setting `Query` and `model.GloOther.Query` |
| `task[h]`, `cron` | request goroutines between two statements; the rest of the cron job's list |
| `socket[k]` | a connection's goroutine: `pc`, its user and source, the number of its message and the order that let the query through |
| `recording` | goroutines that still have a record to write |
| `granted`, `lost` | history: orders that were agreed to, or created while the audit was off; messages whose record a restart prevented |

`SocketQueryResults` is `Connect`, then for every message `Receive`, `Check`, and
`EndAll` or `Run`; `WriteRecord` is the goroutine started after the query, for which
neither the next message, nor `Disconnect`, nor a reconnection waits. (It reads the schema
from the connection's shared `msg.Ref`; no property speaks of schemas.) `Restart` may
happen at any time and any number of times. `Agree`,
`Reject` and `Stop` act on orders in any status, because the guard of
`QueryHandlerSets` is a `Find`, which never reports that no row was found.
`SuperSaveSetting` is `SaveEnd`, `SaveConfig`, `SaveMemory`.

`QuerySources` adds the history `audited[k]`: whether the audit was on when the
connection was opened, the only moment at which its source is compared.

### QueryAccess

What the query orders promise about access. An order is in force or not. A message is
admitted only at an instant at which an order of its sender is in force, under the newest
such order. Only filing and an agreement bring an order into force; taking it out does not
stop messages it has admitted, because the code looks and runs in two steps. An admitted
message runs and is recorded at most once, under that order; only a restart keeps one that
ran from being recorded, and records are erased only with orders that are out of force.
`QueryOrder` instantiates it with `filed`, `leave` (approved and not expired), `waiting`,
`admitted`, `unwritten` and `recorded`.

### ReviewFlow

| Variable | In the code |
|---|---|
| `tpl`, `flow` | rows of `core_workflow_tpls` by key, `flow_id` of a source |
| `order[w]` | row and number of trail entries; history: the template it was posted under, the stages agreed to, the steps its pages have shown, whether a request carried another (`offpage`), whether the trail has an entry that is not the first of its stage (`extra`), whether its source or template moved (`disturbed`), and who handed it over (`handed`, `robot`) |
| `accounts` | names in `core_accounts` |
| `job[h]` | a goroutine between two statements, with what it has read |

`EditLook`, `EditWrite` are `TplPostSourceTemplate` before and after its look for
orders in review; `DeleteTemplate`, `DetachSources` the two statements of the
deletion; `AssignFlow` gives a source any template that ever was, since the page may be
old. `PostFlow`, `PostTpl`, `Insert` are those of posting; `InsertShort` is a post
under a template of fewer than two steps, which is inserted with an empty work id. Either
may go on with `Robot`, which is `autoTask`: it hands the order to the engine without any
approval and may sign the trail and move `current_step` to the end of the template.
`AgreeFlow`, `AgreeTpl`, `Advance`, `Execute` are an approval, of whatever stage the
request names; `Execute` takes orders in review and delayed ones. A stage may have no
auditors: `TplPostSourceTemplate` saves what it is sent.

### Permission

| Variable | In the code |
|---|---|
| `groups[g]`, `grained[u]`, `sources[s]` | rows of `core_role_groups`, `core_graineds` (a sequence: `ArrayRemove` goes by index), `is_query` of `core_data_sources` |
| `job[h]` | a clean-up: the rows it has read (`copy`, `seen`) and those still to write |
| `given`, `joined`, `cleared` | history: what administrators have saved, which groups they have deleted |

`ClearLook`, `ClearDelete`, `ClearWrite` are `SuperClearUserRule` and its goroutines,
`DeleteLook`, `DeleteCommit`, `DeleteFail` the transaction of `SuperDeleteSource`,
`EditSource` (the UPDATE, also of a source that is gone), `EditLook` (the SELECT of the
groups) and `EditWrite` the statements of `SuperEditSource`. `ConcurrentMapWrite` is the abort
that unlocked writes of three goroutines to one Go map may end in. `ArrayRemove` and
`MultiArrayRemove` do what the code does, not what they are named for.

### Accounts

| Variable | In the code |
|---|---|
| `rows[u]`, `grained[u]` | the rows of `core_accounts` (and how many of `core_graineds`) with that name; the index on the name is not unique |
| `tokens` | what unexpired tokens claim, and the hours they have left |
| `orders[u]` | the real names its orders show |
| `job[h]` | a creation, deletion or login between two statements |
| `secret`, `torn`, `fresh` | history: the last password set, pairs of statements that were cut in two, data nobody has changed since |

### SqlChecker

A text is a sequence of `Tokens`, which are words of letters and digits (the `\w+` of the
expressions), separators and marks: the three kinds of quotes, a quote with a backslash
before it, a backslash that stands elsewhere, the dot, and so on. A table is a word, or several tokens when
its name is qualified or quoted. The regular
expressions and `strings.Contains` of `builtin_checker.go` are read over these (`Holds`,
`Starts`, `After`), so that a word is found as a whole only, never inside another one. The statements of a text, the records of the checker and the actions of
an ALTER are functions of the place in the text at which each starts: `Cuts` are the
semicolons at which `splitSQL` cuts, `Piece` what is between two of them, and `Quotation`
the quotation that is open after each place, which the code does not look at and a database
does. `Check` is the checker under a rule, `CheckDataSourceRule` the choice of the
rule, `tableGroups` the loop that collects the actions of each table in a map, and
`mergeAlterStatements` the set of results that the random order of this map allows. The state is the text on the page, the rules and the rule of the source.

### Notifications

| Variable | In the code |
|---|---|
| `order` | the row as far as messages show it |
| `handler[h]` | a handler: its request, the row it has read back, what it writes after the push |
| `outbox`, `delivered` | goroutines that still send, messages that arrived |

`Read` is `Order`/`Query`, `Push` starts the goroutines, `Send` and `Lose` are their ends.
`WithdrawDelete` and `UndoWrite` come after the push, as in the code. `Agree` is of any
stage before the last, whatever stage the row is at.

### Installation

`process[p]` is a command and its next statement (`Program`); `tables`, `columns`,
`taskBase`, `seeds`, `ai`, `ldap` are what the statements change. Old schemas are initial
states. `Refused` is a statement MySQL does not take (errors are dropped), `Stop` a
process that ends between two statements.

### What is assumed of code outside the repository

The engine writes only the statuses 5, 3, 1 and 4, only to orders whose jobs it
holds, and writes 3 when it starts a job: that is how the handlers and the pages use
these values. Nothing is assumed of when or whether it does so. gorm refuses an
UPDATE without a condition (the "cancel" button of query orders sends one, and so
changes nothing), and `Last` returns the row with the greatest key. `Find` scans into
the array of a slice that has room for the result, which is why a message that shares
this array with its template is sent to one auditor (`pusher.go:98`, `118`, `125`).
gabs' `ArrayRemove` refuses an index past the end. A webhook refuses a body that is not
JSON.

## 3. What TLC checks

| Run | Properties | Result | Distinct states |
|---|---|---|---|
| `order_audit` | `TypeOK`, `HandOversApproved`, `ApprovalsAccounted`, `AssignedMatchesStep`, `WithdrawSparesRunningOrder`, `ImplementsLifecycle` | hold | 829,363 |
| `order_live` | `RejectionGetsItsReason`, `ApprovalTakesEffect` | hold | 144,372 |
| `query` | `TypeOK`, `RunsUnderGrantedOrder`, `SourceWasGranted`, `ImplementsAccess` | hold | 691,516 |
| `query_live` | `ExpiredIsEnded`, `RunIsRecorded` | hold | 159,720 |
| `flow` | `TypeOK`, `ApprovedAsPosted`, `ReviewShowsItsStage`, `StepsPageFailsOnlyOnExtraEntries`, `EditMeetsOnlyLatePosts`, `StrandedOrderWaits`, `DeletedAuditorWasJustSaved` | hold | 516,185 |
| `permission` | `TypeOK`, `PermissionsWereGiven`, `DeletionReachesGroups`, `ComesBackOnlyFromACopy`, `ClearReachesUsers` | hold | 293,828 |
| `accounts` | `TypeOK`, `DuplicatesAreConcurrent`, `AccountHasGroups`, `PasswordReachesDuplicates`, `FreshDataIsTrue`, `DeletedUserIsLockedOut` | hold | 525,179 |
| `checks` | `UpdateNamesWhere`, `PassedIsNotCut`, `MergeKeepsActions` | hold | 152,768 |
| `notify` | `StageIsAnnounced`, `UndoneIsNotInReview` | hold | 3,116,722 |
| `install` | `ServesUpToDate`, `UnmanagedStays`, `SavedAIIsKept` | hold | 911,782 |
| `order_double_exec` | `HandedOverOnce`, after `i18n/us.go:92` | violated | |
| `checks_delete` | `DeleteNamesWhere`, after `builtin_checker.go:184` | violated | |

Several of these say how far a weakness of the code reaches, because the stronger
statement is false: a permission that was withdrawn *can* come back
(`ComesBackOnlyFromACopy` says from where), an account *can* exist twice
(`DuplicatesAreConcurrent` bounds it), a template *can* change under an order
(`EditMeetsOnlyLatePosts` says when), a query *can* run under an order for another source
(`SourceWasGranted` says which sources are within reach).

Every property of a passing run has a mutant of the code, next to the definition it
changes, under which the same run fails.

**Bounds.** `order_audit`: one order, a template of two audit stages (the smallest in
which a stage can be skipped or repeated), three accounts of which one audits both
stages and one has a name inside another's, two goroutines at a time, four requests
in all and one restart. Orders do not interact, so one order suffices; four requests
are a post and three more, which is one more than an approval of each stage needs, so
that a stale approval, an approval of a stage no page has shown, a reject, a withdrawal or
a kill can meet a complete chain. An
engine is present (`RpcAddr`); runs without one only have fewer behaviours of the
engine, and the proofs cover them. `query`: two users, one source (an order that
was filed with the audit off names none, so that it meets connections to a source that it
does not name; two sources are beyond the time limit), two orders, one message, one connection,
one request goroutine beside the connection, the cron job and the record goroutines,
approvals that live a minute, any number of restarts. The liveness runs use smaller values of
the same constants; `query_live` has one user. The theorems cover more users, sources, goroutines
and connections, and with them what two requests at a time can do (two filings, two saves of the
settings).

`flow`: one order and one source (orders meet only in the template, and a template edit
looks at each of them alike), two templates, so that a source can change its own,
stage lists of two audit stages, of one without auditors, and of none; two accounts, two
goroutines, four requests (a post, two approvals and one change), one restart.
`permission`: one user with a list of one group, and one that names two groups and the first of
them twice, which `Policy` does not prevent; one source; two clean-ups at a time,
which meet each other and the edits; six requests, one restart. `accounts`: one name the
directory knows, two real names and passwords, two goroutines, four requests, tokens of
one hour, one restart. `checks`: texts of up to three of twenty-five phrases (statements, with plain,
qualified and quoted names, and pieces: a condition, a lone quotation mark of each kind, a
backslash, escaped quotes, a line break, a semicolon), a strict
and a permissive rule, one row of rules besides the global one. `notify`: a template of three
stages, so that a middle stage can be repeated or left out; four users of whom one, the auditor of the last stage, has no address;
three requests after the post, one failed send, one restart. `install`: two processes,
three commands, one stop; five of the sixteen tables, those that get rows and the one
whose column moves.

`MaxRequests`, `MaxRestarts` (not in `QueryOrder`), `MaxOrders`, `MaxQueries`, `MaxPhrases`, `MaxRules`,
`MaxLost`, `MaxCommands` and `MaxStops` bound what is otherwise unbounded. Deadlock is not
checked: with the bounds used up, or with nobody sending a request, the service may rest.

**Fairness.** `FairSpec` assumes that a goroutine that can go on does (the Go scheduler
runs it and MySQL answers), that a websocket goroutine answers a message it received,
that record goroutines run, and that `cron/v3` starts the job every minute; in `QueryOrder`,
where restarts are not counted, also that the process is not restarted again and again for ever
(`<>[][~Restart]_vars`). In
`Permission` the clean-up goroutines run, in `Accounts` requests that were begun go on and
hours pass (`Hour`, which is what expiry means). It assumes nothing of users, browsers, the engine, other clocks or restarts. Properties that a restart
may defeat, because the handler has no transaction, say so (`restarts > 0`; for the record of a
query, `lost`).

**Symmetry.** Goroutines (and users and sources in `query`) are interchangeable where
they are declared symmetric (`order_audit`, `query`, `notify`; goroutines and keys of templates
in `flow`); runs with liveness use none.

## 4. What is proved

Every safety property of the passing runs is a theorem, for every value of the constants.

For `OrderAudit`, with every template (stages without auditors as well), set of accounts and orders, number of goroutines,
requests and restarts, with or without an engine. The proofs assume `OrderAssumption`
only: a template has at least one audit stage, which lists accounts; a name is part of
itself; the bounds are numbers.

* `OrderAuditProofs`: `Inv` = `TypeOK` /\ `ApprovalsAccounted` /\
  `HandOversApproved` /\ `AssignedMatchesStep` is inductive (`Invariance`), hence
  `TypeCorrect`, `HandedAfterApproval`, `AuditorsOfTheStage`, `ApprovalsBehind`.
  `HandOversApproved` speaks of the approvals that `isNotIdempotent` lets through, so of anyone
  whose name is part of an auditor's, and of every stage only while no request carried a stage
  that no page had shown (`OffPage`), because nothing in the code compares the `Flag` with the
  row. It is not inductive alone: what a page shows has to stand for approvals.
  `ApprovalsAccounted` says that for every page (`shown`) and for every goroutine past the
  check; `autoTask` gives nobody such a page, only because the step it writes, the template's
  length, is no stage at all. What `autoTask` hands over itself needs no approval and is
  counted apart (`by_robot`).
* `Implementation` in the same module, `Spec => ImplementsLifecycle`. Each action is
  shown to be a step of `OrderLifecycle` or to leave `phase`, `permits` and `handed`
  alone; `EngineJobsWereGiven` (the engine holds no job it was not handed) is needed for
  the one step that opens a closed order, the engine's "delayed".
* `OrderAuditProofs` also: `WithdrawIsSafe`, `Spec => WithdrawSparesRunningOrder`, from
  `ReviewIsIdle`: an order in review has no running job, since the engine writes
  "executing" when it starts one and nothing leads back to review. That needs, for the
  moment of posting, that nothing refers to a work id that was never posted.

For `Permission`, with every set of users, groups and sources, lists that administrators
tick, and number of clean-ups, requests and restarts (`PermissionAssumption`: the lists are
lists of groups and sources, the bounds are numbers):

* `PermissionProofs`: `TypeCorrect`, `NothingFromNowhere` (`PermissionsWereGiven`),
  `GainsAreAccounted` (`ComesBackOnlyFromACopy`) and `DeletionIsComplete`
  (`DeletionReachesGroups`). Types are inductive only together with `LeftIsCopied`: an edit
  of a source writes a group back from its copy, which is a list only because it writes the
  groups that had a row when it read them. `PermissionsWereGiven` needs `Provenance`: not
  only the rows, but everything a clean-up still holds comes from an administrator. What a
  clean-up takes out of a list rests on `ArrayRemoveType`, about the loop of `ArrayRemove`
  with its shifting indices: it is a recursive function, and that it exists and what it
  returns follows from the least number that would refute it (`LeastNumber`).

For `QueryOrder`, with every set of users and sources, any number of connections,
goroutines, orders and restarts and any life of an approval (`QueryAssumption`: bounds are
numbers, and None is no user or source):

* `QueryOrderProofs`: `InvInductive`, and from it `QueryTypes`, `OnlyGrantsApprove`
  (`ApprovedIsGranted`) and `QueriesRunUnderGrants` (`RunsUnderGrantedOrder`). A connection
  compares its order once, and the order may be ended, rejected or deleted before the query
  runs; what stays true is that it was granted, so the invariant speaks of `granted` and
  not of the status. `Received` and `RecordingsOpen` say which order a message under way and a
  record still to write go back to.
* `SourcesWereGranted` (`SourceWasGranted`) needs, of every connection that was opened with the
  audit on, that it goes back to a granted order for its source (`Warranted`): a granted order
  keeps its user and its source even when its row is gone.
* `QueriesImplementAccess`: `Spec => ImplementsAccess`, each action a step of `QueryAccess` or one
  that leaves `leave`, `filed` and the messages alone. It needs three invariants beside the types. A row
  has a user as soon as it exists (`Owners`); a goroutine that files has a user, and one that
  deletes records has deleted their orders (`TasksKnow`); and the messages in all the places where
  they can be have different numbers, so that moving one moves no other (`MessagesApart`, with a
  theorem of its own, `MessagesStayApart`).

For `ReviewFlow`, with every set of templates, sources, accounts and orders
(`FlowAssumption`: stage lists are lists of sets of accounts; the ids that stand for "none"
are no ids; bounds are numbers):

* `ReviewFlowProofs`: `CoreHolds` is the inductive invariant. `JobFits` relates what a request
  has read to the order: it is a stage of the template the order was posted under, or the
  order is `disturbed`. `OrdersFit` relates the row, the trail and the approvals; `PostsDiffer`
  is needed because two posts insert in any order. From it `FlowTypes`, `HandedAsPosted`
  (`ApprovedAsPosted`, about what `ExecuteOrder` hands over, with the same reservation about
  stages that no page had shown), `StageIsShown` (`ReviewShowsItsStage`: the stage and its
  auditors, who may be none, or the template's end once `autoTask` has been there) and
  `StrandedWaits` (`StrandedOrderWaits`).
* `StepsPageHolds` (`StepsPageFailsOnlyOnExtraEntries`) also counts: unless the trail has an entry
  that is not the first of its stage (a stage agreed to again, another button, `autoTask`), it has
  one entry for the post and one for each stage agreed to, and the stages are finitely many, all
  below the length of the template.
* `EditsMeetLatePosts` and `DeletedAuditorSaved` are about a look and a write in two
  statements. Each has an invariant of its own (`LateInReview`, `LateNames`): whatever the
  look would find now that it did not find then was posted or saved in between.

For `Accounts`, with every set of users and secrets, and any number of orders, requests and
restarts (`AccountsAssumption`; the request goroutines are finitely many, which
`DuplicatesAreConcurrent` needs because it counts them):

* `AccountsProofs`: `TypeCorrect`, `DuplicatesBounded`, `GroupsFollow`, `PasswordsHold`,
  `FreshIsTrue`. `DuplicatesAreConcurrent` is inductive as `RowsBounded`: the rows of a name and
  the goroutines that are about to insert one together are at most the goroutines.
  `FreshDataIsTrue` needs the logins that have read a row and not yet made their token; an edit by
  an administrator makes the orders true again only when there is an account and the new name is
  not empty (`OrdersRenamed`). `AccountHasGroups` is about accounts without groups; of groups without
  an account, which a stop between the two DELETEs leaves behind, it says nothing.

For `Notifications`, with every template, every set of accounts with and without address, any
number of handlers, requests, lost sends and restarts (`NotificationsAssumption`: there is a
stage, and stages list accounts):

* `NotificationsProofs`: `WithdrawalsComeTrue` (`UndoneIsNotInReview`), since a message goes out
  in the same step in which its handler becomes due to write (`UndoToldComesTrue`), and
  `StagesAnnounced` (`StageIsAnnounced`). The latter rests on `StageIsTold`: at any moment the
  stage has been told, or a handler has still to read the row, or has read it as it is. The
  handler that moved the order last is such a handler, so no older one matters.

For `Installation`, with every list of tables that begins with `core_accounts` and any number of
processes, commands and stops (`InstallationAssumption`, and `NoneAssumption`: None is none of the
names the programs use):

* `InstallationProofs`: the programs are concatenations of lists of statements, and
  `Positions` says what a statement tells about where it stands. `Fit` (types, and every process
  is at a statement of its command) gives `TypeCorrect`; `Progressed` (what the statements
  before a server's position have done still holds) gives `ServersAreUpToDate`;
  `NobodyIsAdded` is `UnmanagedStays`; `Overtaken` (whoever is about to write AI settings that
  somebody saved had looked before the save, and the configuration has a row) gives
  `SavedIsKept`.

For `SqlChecker`, with every set of tokens, phrases and rules and texts of any length
(`RulesAssumption`: rules are sets of switches; `TextAssumption`: the semicolon is a token, the empty
string is none, phrases are texts):

* `SqlCheckerProofs`: `RulesKeepTheirIds` (`TypeOK`), since a deleted rule leaves its id unused, and
  three theorems about every text:
* `UpdatesNameWhere` (`UpdateNamesWhere`): under a rule with `DMLWhere`, whatever passes and starts
  with UPDATE or DELETE has "where " in it (`ChangeIsChecked`); under any other rule only an UPDATE
  of a table that is named by a plain word, on one line, of which the regular expression finds all
  the parts (`RegexFindsUpdate`). An UPDATE of a qualified, quoted or aliased table is not caught;
* `PassingTextsAreNotCut` (`PassedIsNotCut`): with one kind of quotes, and no backslash but before a
  quote, a place is inside a quotation exactly when the number of unescaped quotes before it is odd
  (`OneKindOfQuotes`). If every piece has an even number, so has what precedes every cut
  (`CutsAreEven`), and no cut is inside a quotation;
* `MergeLosesNothing` (`MergeKeepsActions`): after each turn of the loop the list of every table has
  the actions that were found for it so far, in the order of the text (`TurnKeepsLists`,
  `GroupsInTextOrder`); the tables with a list are the altered ones (`ListedTables`) and finitely
  many, and the result has each of them once (`ListsAll`); a statement on one line is read whole
  (`AlterOnOneLine`). Nothing is said of the order across tables, which is that of a Go map.

`Quotation` is a recursive function over a text of unknown length. That it exists and satisfies its
equations is proved (`FiniteRecursion`), and so is each induction (`UpTo`), from the least number
that would refute it (`LeastNumber`): the induction theorems of the library take an operator as
parameter, which the provers cannot instantiate.

Only model-checked: the liveness properties (`RejectionGetsItsReason`, `ApprovalTakesEffect`,
`ExpiredIsEnded`, `RunIsRecorded`, `ClearReachesUsers`, `DeletedUserIsLockedOut`), since
fairness and ENABLED are out of the prover's reach.

## 5. Findings

Two runs end in a violation of what a text of the program says.

1. `order_double_exec`: two approvals of the last stage of an order in review hand it to the
   engine twice (`audit/impl.go:60`, `72`), against `i18n/us.go:92`, "Operation does not
   comply with idempotence".
2. `checks_delete`: a DELETE of a whole table passes the checker unless the rule has
   `DMLWhere` (`builtin_checker.go:186`), against the comment at line 184. The pattern ends in
   `(?:where|$)`, but every statement ends with the semicolon that `splitSQL` adds, so
   the pattern only ever matches statements with a WHERE.

Seen while translating, and modelled as the code has it, without a run of their own:

* An approval of a stage the order has already left is accepted and moves the order back
  (`audit/impl.go:113`, `151`), and so is one of a stage it has not reached, because the `Flag` of
  the request is not compared with the row; a name that is part of an auditor's name passes the
  check of the auditors (`audit/impl.go:153`).
* An order is executed although it was rejected, withdrawn or deleted after `ExecuteOrder` had
  read it (`audit/impl.go:60`), and a late reject overwrites the statuses of the engine
  (`audit/impl.go:127`).
* A withdrawal that deleted nothing is answered "Order has been undone!" (`fetch.go:306`,
  `us.go:52`); a killed order is not marked as failed (`audit/impl.go:145`, `us.go:91`).
* A query record may name the schema of the next query, or by a data race a mixture of the two,
  which the model leaves out (`personal/query.go:260`), and a
  connection to one source can go on under an order for another (`personal/query.go:222`).
* A source that is made read-only still takes writes: `SuperEditSource` looks for its name
  among the ids of the groups (`db/impl.go:90`).
* A template that is edited, deleted or replaced moves orders in review along
  (`flow.go:41`, `64`, `db/impl.go:72`); a post under a template of fewer than two steps
  is inserted without a work id and answered as submitted (`post.go:83`).
* A rule can be deleted under a source that has it; `CheckDataSourceRule` then answers nil,
  which `ExecuteOrder` and `autoTask` dereference (`audit/impl.go:76`).
* The expression for UPDATE knows plain words only (`builtin_checker.go:185`), so that without
  `DMLWhere` an UPDATE of a whole table passes when its name is qualified or quoted; engine/README.md:37
  speaks of protection. `isQuotesBalanced` takes the quote after two backslashes for an escaped one
  (`builtin_checker.go:262`), so that halves of a quotation may pass.
* An edit of an account to an empty name empties the account's (a map) and not its orders' (a struct,
  whose zero fields gorm skips): `user/impl.go:44`. An edit of an account that is gone still renames
  the orders.
* A user's list that names a group twice may keep it after the group's deletion (`wrapper.go:21`).
* `mergeAlterStatements` puts the tables in the random order of a map (`juno_engine.go:141`; the test,
  `engine_test.go:83`, expects that of the text), keeps only the first line of an ALTER
  (`juno_engine.go:120`), and
  `FetchMergeDDL` calls it with arguments the built-in Juno does not decode
  (`fetch.go:317`); `DDLEnableDropTable` and `DDLEnableDropDatabase` have no effect, since
  `checkDangerousOperations` refuses always (`builtin_checker.go:172`).
* Only the first auditor of a stage gets a mail (`pusher.go:118`); with another language
  than Chinese the webhook names no auditors (`ding.go:110`); a quotation mark in an order's
  text breaks the JSON of the webhook.
* `autoTask` does not look at the status of a task (`personal/util.go:22`), and is also called for
  the order that was inserted without a work id (`post.go:69`); its entry in the trail makes the
  steps page fail once all stages are agreed to (`fetch.go:138`).
* A start on an old schema drops the column `base`, although it means to rename it: AutoMigrate
  has made `data_base` before (`migrate.go:305`). `migration/migrate.go` is in package
  `migration`, so that its `main` never runs.

## 6. Not modelled, and the plan

Left out, with the reason:

* auto-task administration and the other settings: single statements on plain data;
* read-only views: no state, except that what they show is the input of stale pages
  (`shown` in `OrderAudit` and `ReviewFlow`), and the steps page, which is in `ReviewFlow`;
* the AI assistant and `fingerprint.go`, which serves it: calls to an external model;
* the route table, static files, cryptography (`lib/enc`): wiring, or out of reach;
* result sets, the masking of fields and schema browsing: data;
* the engine's inside: another program, of which only the statuses are known here.

Within the modelled handlers, logging, the wording of replies and messages, and who may
press a button where no statement depends on it are left out.

The plan is carried out. What could be added next is an abstract specification of review
that `ReviewFlow` implements, as `OrderLifecycle` and `QueryAccess` are for their modules, and a
composition of `ReviewFlow` with `Permission`, whose shared state is the sources.
