# Verification of the sjbis daemon

sjbis is a daemon (Rust, axum, PostgreSQL) to which agents post questions
("asks"); a human answers them on a dashboard or signs a grant on a phone, and
agents block on `GET /wait/{id}` until then. The same daemon keeps triage
queues: catalogs of files on which a human records verdicts that a consumer
exports. Three plugins turn mail and chat messages into asks. This directory
holds TLA+ modules that model the parts of the system where several actors
meet, the TLC configurations that check them on small instances, and TLAPS
proofs about them for every instance.

Paths below are relative to the repository (`handlers.rs` is
`src/src/handlers.rs`, and so on; the plugins are under `src/plugins`).

## 1. Inventory of the system

| Component | State it keeps | Operations | Hard behaviour |
|---|---|---|---|
| Ask intake (`handlers.rs:60-300`) | rows of `notifications` | `POST /ask`: idempotency lookup, router, ttl and once checks, rules, INSERT | lookup and INSERT are separate; a failed lookup counts as nothing found; rules change between the queries |
| Ask lifecycle (`handlers.rs`, `db.rs`) | rows of `notifications` | answer, cancel, dismiss, snooze | every handler reads a row, decides, and then updates by id alone; a client that leaves drops the handler at any `.await` |
| Blocking waits (`handlers.rs:786-893`) | the in-memory `waiters` map: ask id -> oneshot sender | register, receive, time out | answered between first read and registration; second wait evicts the first; a timeout removes by ask id; restart empties the map |
| Signed grants (`grants.rs`, `grant_handlers.rs`, `db.rs:507-700`) | rows of `grants` | grant, revoke, enroll, claim | storing a grant and answering its ask must be atomic; one claimer and the first revoker win |
| Rules engine (`rules.rs`) | rows of `rules` | evaluate | the order of the list, equal priorities, expiry, the priority negated in 32 bits |
| Rule compiler and `create_rule` (`rules.rs:150-560`, `handlers.rs:520-760`) | rows of `rules` | compile, create (several INSERTs), list, delete | which pattern parses first; a rule set half written |
| AI router (`router.rs`) | none | classify an ask, compile a rule | external call that may fail |
| Triage import and reconcile (`triage/import.rs`) | none (pure) | discover, validate, reconcile, attach | copies, renames, edits and deletions over several refreshes |
| Triage store (`triage/store.rs`) | `triage_queues`, `triage_items`, `triage_revisions` | create, decide, refresh, attach, close, reopen, list revisions | transactions serialised by the row of the queue; event ids are drawn before a commit makes them visible |
| Triage HTTP API (`triage/http.rs`) | none | the above, export | an export is three queries without a lock |
| Event stream (`sse.rs`) | broadcast channel of 128 | broadcast, subscribe | slow subscribers lose events |
| Push (`push_handlers.rs`, `webpush.rs`, `db.rs`) | device rows, outcome columns | register, unregister, push created / closed / test | a detached task per push reads the devices once; pushes reorder; a late "gone" clears a new subscription |
| Response delivery (`handlers.rs`) | none | webhook or file, once | detached task, no retry |
| CLI client (`main.rs`) | a time budget | `sjbis ask --blocking` and `sjbis wait` repeat `GET /wait` | retry of a wait that failed or was evicted, within 15 minutes, across restarts |
| Daemon process (`main.rs:640-740`, `daemon.rs`) | pidfile, port | start, start --background, stop | nobody locks the pidfile; a start writes it whatever becomes of its child |
| Plugins: gog, iMessage, Signal | `DedupCache`, `last_check` in memory | poll, classify, ask, reply, mark | overlapping polls, clocks read after a query, nothing survives a stop |
| Entities (`entities.rs`) | a file | expand a group | constants of the model |
| Upgrade, dashboards, iOS app | files, view state | | outside the daemon's own logic |

Interactions. Handlers share the `notifications` rows through single SQL
statements and the `waiters` map through a lock. `POST /ask` calls the router
and the rules, then inserts. `answer`, `dismiss` and `POST /grants` take a
sender out of the map and send; `cancel` does not. `GET /wait` reads the row,
puts its sender in the map, and on a timeout removes it and marks the row. The
client repeats a wait that broke off. A new and a closed ask each spawn a push
task that walks the devices. Plugins run `sjbis ask --blocking` as a child
process. Triage handlers share only the database and lock the queue's row
first.

What makes each component correct:

- *intake*: repeating a call with its idempotency key makes no second card; an
  approval is stored with a ttl whatever the rules and the router say.
- *rules*: one rule has the last word, and which one is a function of the rows;
  a `POST /rules` that was answered has stored all its rules, the mute before
  its exceptions; one that is broken off leaves a part, which nothing undoes.
- *asks and waits*: a wait that can still be woken has its sender in the map
  and nobody else's; it is woken by whoever closes the ask; it returns in any
  case; what it returns is in the tables; a timeout leaves no open card.
- *client*: it ends, and for a reason the tables or its clock have shown.
- *grants*: an approval ask is decided once, by the one grant stored with it;
  a once grant is consumed once.
- *reconcile*: each source of an import ends up in exactly one place, no file
  is the current capture of two items, repeating an import changes nothing,
  a verdict's snapshot is never replaced.
- *triage store*: the transactions behave as if one at a time; no reciprocal
  merges; a closed queue is frozen.
- *export*: a persisted cursor never passes a revision that was not processed;
  every revision arrives.
- *push*: the banner of a closed ask is replaced; only the push service's word
  makes the daemon forget a subscription.
- *process*: `daemon stop` finds the daemon that serves.
- *plugins*: a task asks about a message, or answers it, once in a run; what
  may lose a message, or have it answered in another run too, is known.

`PROJECT.json` lists each hazard with its source line and the properties that
would catch it, and says in a note where a property only limits what the hazard
can do and the code remains exposed to it.

## 2. Modules

```
ApprovalLedger   <-- implemented by --  AskLifecycle      AskLifecycle_proofs
GrantLedger      <-- implemented by --  GrantStore        GrantStore_proofs
RuleEngine       (pure operators: evaluate)
  RuleCompiler   (pure operators: a line of English to rows)
    AskIntake    (POST /ask, POST and DELETE /rules)      AskIntake_proofs
BlockingClient   (clients, waits, a daemon that restarts) BlockingClient_proofs
TriageReconcile  (pure operators)                         TriageReconcile_proofs
  TriageCatalog  (one queue, whole operations)            TriageCatalog_proofs
  TriageStore    (transactions; implements TriageCatalog) TriageStore_proofs
    TriageExport (consumer beside them;                   (in the same module)
                  implements RevisionLog)
QuestionFilter   (pure operators: is it a question)
  GogPlugin  IMessagePlugin  SignalPlugin
PushDelivery     DaemonProcess
  Edges          (those five side by side)                Edges_proofs
MC*              values of CONSTANTS and symmetry for TLC
```

### AskIntake, RuleEngine, RuleCompiler

`RuleEngine` translates `evaluate`: the rules sorted stably by the negated
priority (negated in `Width` bits, as an i32 wraps at its least value), each
applied to the ask as the ones before left it (`Applied`, a recursive function
over the order, so that it can be reasoned about). `RuleCompiler` translates
`compile` with its eight patterns in the order of the code, the expansion of
groups, and the three offline plans of `create_rule`. A text is a sequence of
lower-case words, so that patterns, separators and fillers are found word by
word; matches inside a word are the detail left out.

`AskIntake` is the state machine around them. One action per query:

| Variable | Code |
|---|---|
| `rules` | the table; an id is the creating request and the number of the row |
| `crpc`, `creation` | a `POST /rules`: its plan, the INSERTs done |
| `apc`, `ask`, `verdict` | a `POST /ask`: where it is, the ask as the handler holds it, the verdict |
| `card`, `reply` | the row it inserted, the id it was answered with |
| `now` | the clock, for expiries and the 24 h of the lookup |
| `deleted`, `earlier`, `looked` | history that properties read |

`Listings` are the lists that `ORDER BY created_at DESC` may return (ties in any
order). `AskStops` and `CreateStops` are failed queries and clients that leave.
The router is external: it may suggest any renderer and urgency of the small
set, or fail. Auto-answered asks are answered without a row.

### AskLifecycle

One action per step that other handlers can run between: each SQL statement,
each acquisition of the `waiters` lock, each poll of a receiver.

| Variable | Code |
|---|---|
| `kind`, `stored`, `answer` | columns `question_type`, `status` (as written, so `timedout`), `answer` |
| `grantAsk` | `notification_id` of a stored grant |
| `waiters` | the map; `Dead` is a sender whose receiver is gone |
| `hpc`, `job` | progress and request of a mutating handler |
| `wpc`, `wask`, `mail` | progress, ask and receiver (later the response) of a wait |
| `committed`, `early`, `orphaned`, `unrecorded` | history that properties read |

`ParsedStatus` is what `row_to_notification` makes of the column: it knows
`timed_out` while `update_status` writes `timedout`, so a timed-out row reads
as open. The model keeps both views, and several findings come from them.
`AskInsert` chooses the verdict of the rules (open, muted, or auto-answered,
which leaves no row): what `AskIntake` computes in detail, and its theorem
`AsksAppearAsInserted` is that it comes to no more. `HandlerDies`,
`WaitDrop` and `WaitQueryFails` are dropped futures and failed queries;
`Restart` is a crash of the daemon at any point. Time is abstract: a started
timer may fire in any later state. Signatures, question texts and expiry are
taken as checked.

`ApprovalLedger` is the abstract promise: a grant is stored once, for one ask,
and an approval ask is decided at most once, in a step that stores its grant.
`StoreLate` is in it because the code does it (see findings). The decision is
the answer column together with its grant. It is never taken back or replaced;
the status beside it may be: a cancel or a timeout that read the row earlier
still overwrites `answered`.

### BlockingClient

The client's side of a wait. `Ask` and `Wait` are `cmd_ask` and `cmd_wait`;
`Refused` and `Retry` are the loop of `wait_for_answer`, with the time since the
first wait (`spent`) against `WAIT_RETRY_BUDGET`. `Check`, `Register`,
`RemoveEntry`, `Reread` and `Mark` are `GET /wait`, one action between any two
of its awaits that matter, with `waiter` as the ask's entry of the map.
`DaemonComes` and `DaemonGoes` are starts and crashes: the row survives, the
map, the requests under way and every open connection do not. `Tick` moves the
deadline, the daemon's hold of each wait (`left`, at most `MaxWait`) and
`spent` together.

The rest of the daemon is what `AskLifecycle` shows of it, coarser: `Admit` is
the first half of `answer`, `dismiss` and `cancel`, which decide on a copy of
the row, `Close` their UPDATE, which overwrites whatever became of the row
since, `Grant` the transaction of `POST /grants`, `Wake` the lock, removal and
send that follow. `checked` and `waking` keep the kinds of the requests that
are that far, not each request, so any number of them may be under way. Which
kind of ask it is stays open: both a plain answer and a grant may come. `Mark`
writes by id alone too, so it can overwrite an answer; a marked row reads as
open and may be closed once more. `shown` is history: what the tables held.

### GrantStore

The `grants` table under concurrent requests. `rows` is committed data; a row
keeps its envelope, `revoked_by`, `claimed_by` and, as history, the number
`at` of its commit. A handler walks through the statements of its request:
`Post`, `Lock` (`SELECT ... FOR UPDATE` of a revoke's target), `Insert` or
`Collide` (`ON CONFLICT DO NOTHING`, which waits while another transaction has
an uncommitted row of that id), `Mark` (`COALESCE`), `Commit`; a claim through
`CheckClaim` (read and decide on the copy), `TakeClaim` (one UPDATE, which
waits for the row lock and sees the newest version), `ReloadClaim` (a second
read for the reply). `Drop` abandons a handler at any step, also between the
UPDATE of a claim and its reply, and `Commit` may succeed without the client
hearing of it; requests are repeated at will. Two envelopes may share an id,
which is 30 bits of a hash. Whether an ask accepts a grant is left open
(`AskRefuses`): `AskLifecycle` decides that. `claim_grant` looks neither at
`revoked_by` nor at `expires_at`, and the model does not either: a verifier
does.

`GrantLedger` is the promise in atomic steps: `Enter` a record (and mark its
target if nobody did) and `Consume` a once grant.

### TriageReconcile, TriageCatalog

`TriageReconcile` translates `validate_and_sort_observations`, `reconcile`,
`attachment_action` and the order in which the store applies a plan, over ids,
paths and content hashes. `Refreshed` is the resulting catalog and `Accepted`
says whether the store takes the plan: it attaches items one at a time and
refuses a path that an item further down has yet to leave. `TriageCatalog` is
one queue whose operations are single steps. `Documented` restates the
freshness table of README.md:601 independently of the code.

### TriageStore, TriageExport

`TriageStore` takes the operations apart into lock, read and write, INSERT
(which draws an event id that a rollback does not give back) and commit.
`status`, `catalog` and `revisions` are committed data; `draft` and `plan` are
what a transaction has computed; `lock` is the row lock of `SELECT ... FOR
UPDATE`. A rollback is possible after every step. Its refinement `Catalog`
maps the committed catalog to that of `TriageCatalog`.

`TriageExport` adds a consumer: it reads the catalog, then a page of revisions
after its cursor, acts on the page, persists `nextCursor`, and may crash or be
refused in between. The consumer is external to the repository and follows
README.md:570-572. `RevisionLog` is the abstract promise: revisions numbered
1, 2, ... per item are appended and never changed, and a growing prefix is
processed.

### PushDelivery

`devices` and `sub` are the rows of `push_subscriptions` (0: no subscription
is left in the row), `live` and `made` the browser's own. Each ask has two
tasks, `Asking(a)` and `Closing(a)`, and the test push is a third kind: a task
lists the devices once (`ListDevices`), then sends (`PushSend`) and records the
outcome by device id (`RecordOutcome`) one device after the other. The push
service is external: it holds what it accepted, keeps one message per topic
(the ask), and delivers, expires or loses it; the service worker shows a
banner or replaces the one with the same tag. `banner`, `accepted`, `dropped`
and `overlapped` let properties speak of what a phone shows.

### DaemonProcess

`proc` is the state of each process, `pidfile` the pid in the file,
`launching` the children of `start --background` whose pid is not written yet,
`stopping` a `daemon stop` between reading the file, the signal and removing
the file. Only one process can listen on the port. `muddled` records that a
start met another start, a running daemon or a stop, or that the pidfile could
not be written.

### QuestionFilter, GogPlugin, IMessagePlugin, SignalPlugin

`QuestionFilter` holds the three heuristics that decide when the classifier is
not there. A text is its byte length, its counts of letters and emoji, and a
set of the features the code looks for; a byte slice that ends inside a
character is the outcome `panic`, which ends a gog task for the rest of the
run.

The plugins are polling tasks: fetch a batch, take the next message (cache,
clock, heuristic or classifier), ask the human, send the reply, mark it as
read. A stop may come between any two steps and loses the batch, the cache and
`last_check`. The services and the people who write are external actions.

*gog* polls the profiles of its command line or the clients that gog's
configuration names for its accounts; neither list is made unique, so a profile
named twice has two tasks of a kind, each with its own cache. Gmail marks what
it answered; a thread may turn unread again (`TurnsUnread`), and `ReplyFails`
covers a send that failed after it had sent. A task does not ask again, in the
same run, about a thread it has answered, whatever new message is in it; a
message of Chat, which nothing marks, may be answered in every run.

*iMessage*: the two pollers see the same messages under different names, each
with its own cache, so both may ask about one. The cursor is the clock read
after the query (`Query`, then `ReadClock`). A row has the date of its message,
which may be older or newer than its insertion (`Skews`); one without a text is
not selected and one that cannot be converted is skipped.

*Signal*: `receive` empties the queue of the account. A line that is not a
`SignalEnvelope` is skipped, what a failed receive took is discarded
(`ReceiveFails`), and the command `test` takes what is there beside a run
(`TestReceives`). A message bears the time of its sender's clock (`SigSkews`),
which is what `last_check` is compared with.

### Edges

The three plugins, the phones and the processes share no state with one
another; `Edges` sets them side by side and a behaviour is one of one of them,
chosen by `program` at the start, so that one run of TLC checks all five
without multiplying their states.

## 3. Runs

| Run | Question | Bounds | Distinct states |
|---|---|---|---|
| `ask_intake` | idempotency keys, approvals reach the store, answered rule sets are stored, who has the last word | 2 requests out of 3 asks (two share a key), 1 rule creation out of 6 lines, `Width` 8, `Window` 1, `MaxTime` 1 | 593 k |
| `ask_safety` | safety of asks, waits and grants; refinement of `ApprovalLedger` | 1 ask of either kind, 2 waits, 2 handlers, 2 answers, 2 grants | 368 k |
| `ask_liveness` | every wait returns | 1 ask, 2 waits, 1 handler, 1 answer, 1 grant | 71 k |
| `blocking_client` | a client ends, and for a reason | 2 clients, `MaxWait` 1, `Budget` 2, deadline none or 2 | 555 k |
| `grant_store` | one claim and the first revoke win, replies are honest; refinement of `GrantLedger` | 3 handlers, 2 claimers, 4 ids, 5 envelopes (one id twice) | 637 k |
| `triage_catalog` | freshness table, nothing lost, refresh settles, one item per path | 3 ids, 2 paths, 2 contents | 4 k catalogs, each with every next import |
| `triage_store` | transactions, merges, freezing; refinement of `TriageCatalog` | 2 ids, 2 paths, 2 contents, 2 handlers, 4 imports, 3 events | 444 k |
| `triage_export` | cursor contract, delivery; refinement of `RevisionLog` | 2 ids, 1 path, 1 content, 2 handlers, 2 events, pages of 1 | 76 k |
| `edges` | plugins, push, processes | 2 mails, 1 chat, 3 profile lists (one with a repetition), `PageSize` 1, `MaxRuns` 2, `MaxTurns` 1; 3 iMessages, `Skews` {-1, 0}, `Recent` 2, `MaxIMTime` 3; 3 envelopes (one unreadable), `SigSkews` {-1, 1}, `MaxDeliveries` 2, `MaxSigTime` 2; 1 phone, 1 ask, `MaxSubs` 2; 3 pids | 2.4 M |
| `ask_answered_times_out`, `rules_priority`, `client_deadline` | statements of the documentation that the code does not keep | as above or smaller | counterexamples |

Why the bounds are enough to be interesting. Asks do not interact in
`AskLifecycle` (every statement and map operation names one id), so one ask
suffices; two waits give eviction and removal by ask id, two handlers all
check-then-update races, two grants the lock rule. Two requests with one key
are what idempotency is about, and one tick reaches both the end of the window
and the expiry of a rule. The lines of `ask_intake` compile to a mute with
exceptions, an allow list, a dismissal, an urgency filter with the least
priority, a change of urgency and one that only the AI can read, so that rules
overrule and feed one another. A deadline of 2 is at first beyond the ceiling
of 1 and later within it, and a budget of 2 lets a client be interrupted more
than once. In
`grant_store` three handlers let two revokes of one grant, or two claims, race
with a third request, and the chain of a grant, its revoke and a revoke of
that revoke with a colliding id exercises every refusal. Three ids over two
contents give copies, ambiguous moves, swaps and chains of renames. Three
events let an item be decided, the decision withdrawn and made again while the
other item is decided too. A page of one makes the consumer stop between every
two revisions. In `edges` two starts show what a stop loses, a profile named
twice two tasks at one mail, and a thread that turns unread once a second run
that answers it; two iMessages of one contact with one text show what the cache
takes for the same, and a date one tick early one that is never selected. Dates
off by one either way put an envelope before `last_check` or beyond a restart;
a second subscription shows a late "gone", and a third process a start beside a
daemon and a stop.

Bounds on counters: `MaxEvents` (event ids), `MaxTime`, `MaxIMTime`,
`MaxSigTime` (clocks), `MaxRuns` (starts of gog), `MaxTurns` (how often a
thread turns unread again), `MaxDeliveries` (copies of an envelope), `MaxSubs`
(subscriptions). `Budget` and `MaxWait` are constants of the program. `Feeds`,
`RuleLines`, `Asks`, `RouterFilters`, `Suggestions`, `ProfileLists`, `Skews`
and `SigSkews` bound the inputs TLC tries; the proofs take any such sets.
Symmetry (of waits, handlers, answers and grants in `ask_safety`, of requests
in `ask_intake`, of handlers and claimers in `grant_store`, of handlers in
`triage_store`) is used only where no liveness is checked; `None`, `Dead` and
`Keep` are model values.

Deadlock is checked, except in `ask_intake`, `rules_priority`, `edges`,
`blocking_client` and `client_deadline`: there requests are made once, clients
end, clocks are bounded and pids are used up, so a state in which all is done
has no successor.

Every property of a passing run is broken by a mutant listed in
`PROJECT.json`: an operator with the shape of a plausible bug, defined in the
module just before the operator it replaces, with a comment "Mutant of ...".

### Fairness

- `FairSpec` of `AskLifecycle`: weak fairness of each wait's own steps. tokio
  polls every ready task and fires every timer, and `WaitArm` starts one in
  all cases (`handlers.rs:841-853` caps it at 600 s). Clients, handlers and
  restarts have no fairness: a wait must return although nobody answers.
- `ClientSpec`: time passes, each client takes its steps, and a daemon that is
  up serves the requests it has (all weak). Nothing is assumed of daemons, which
  may stay away for ever or restart for ever, nor of humans. `ClientEnds` holds
  because the budget and the ceiling are both finite.
- `FairExportSpec`: an assumption on the consumer, not on the daemon. It polls
  again and again, and neither crashes nor is refused for ever at the same
  point (strong fairness of reading a page, processing and persisting). No
  handler is fair, so one may stop while it holds the lock.

## 4. Proofs

All theorems hold for every value of the constants under the named assumptions:

- that sentinels (`None`, `NoPid`, `Dead`, `Keep`) are distinct from values and
  that bounds, clocks and budgets are naturals, a page limit and a ceiling
  positive ones;
- that the set of grant ids (`StoreAssumption`), that of iMessages
  (`IMAssumption`) and that of mails and messages of Chat (`GogAssumption`) are
  finite: commit numbers and batches count them;
- that a run of gog is given a sequence of profiles that is not empty, with any
  repetitions (`GogAssumption`), and that clocks are off by integers
  (`IMAssumption`, `SignalAssumption`);
- that ids, paths and hashes of the triage modules are naturals (for their
  order) and imports are well formed;
- that an ask arrives with the fields of a request body (`AsksAssumption`) and
  the priority of a posted rule is an integer or absent (`RuleLinesAssumption`).

| Module | Theorems |
|---|---|
| `AskLifecycle_proofs` | `Invariance` (`Inv`), `TypeCorrect`, `WaitersMapAgrees`, `ApprovalLock`, `RepliesBacked`, `NoLostWakeup`, `TimeoutCloses`, `LedgerRefinement` |
| `AskIntake_proofs` | `KeysAreIdempotent` (`OneCardPerKey`), `ApprovalsReachTheStore` (`ApprovalIsStored`), `AnsweredRulesStay` (`AnsweredRulesAreStored`), `EvaluationOrderSorts`, `EvaluateDecides`, `LowestPriorityHasTheLastWord` (`LowestPriorityDecides`), `AsksAppearAsInserted` |
| `BlockingClient_proofs` | `WaitsEndForAReason` (`EndsForAReason`) |
| `GrantStore_proofs` | `GrantInvariant` (`Inv`), `GrantTypeCorrect`, `FirstRevokeIsKept`, `ClaimedAtMostOnce`, `RepliesAreHonest`, `ClaimersActOnTheirOwn`, `LedgerRefinement` |
| `TriageCatalog_proofs` (on `TriageReconcile_proofs`) | `CatalogInvariant`, `CurrentPathsDistinct`, `RefreshMatchesReadme`, `EverySourceHasAPlace` (`NoSourceLost`), `RefreshIsIdempotent` (`RefreshSettles`) |
| `TriageStore_proofs` | `StoreInvariant` (`Inv`), `NoReciprocals`, `SnapshotsStay`, `StoreTypeCorrect`, `ClosedQueueIsFrozen`, `CatalogRefinement`; of the export `ExportInvariant` (`ExportInv`), `CursorIsSafe`, `ExportTypeCorrect`, `LogRefinement` |
| `Edges_proofs` | `DaemonIsInItsPidfile` (`PidfileNamesDaemon`), `TasksHoldOldRows`, `OnlyTheGoneAreForgotten` (`ForgottenOnlyWhenGone`), `ClosedAsksStopAsking` (`BannerIsReplaced`), `IMessagesAreLostForAReason` (`LostForAReason`), `IMessageAsksAreDue` (`AsksAreDue`), `MailIsAnsweredInOneRun` (`AnsweredInOneRun`), `TakenIsJudged` (`TakenIsJudgedOnce`) |

*AskLifecycle.* `OneGrantPerApproval` is not inductive: a grant is admitted
when the row reads as open, which includes timed-out rows. `ApprovalRows` adds
that an approval ask nobody closed has neither grant nor answer and that its
answer is always a stored grant. `RepliesAreBacked` needs `JobsConsistent`:
what a handler is about to send was committed before. `RegisteredWaiterIsServed`
and `TimeoutClosesCard` need `SlotOwnerIsBlocked` and `WaitsConsistent`, that
is, that the map and the program counters agree after evictions, removals by
ask id, drops and restarts. The ledger refinement uses `Inv` to show that
`GrantPost` finds either no decision (`Decide`) or no literally open row
(`StoreLate`), and that no other step touches a decision.

*AskIntake.* `Intake` says what is known of a request at each of its steps: the
cards that were there before it still are and had its key when it arrived, and
if it goes on past the lookup they were a day old or the lookup failed. An
approval keeps its kind and gets a ttl in `Prepare`, and `evaluate` gives it no
automatic answer (`NoAutoApproval`), so that the only way to a reply is
`StoreCard`. `AsksAppearAsInserted` goes through the same steps: only
`AutoAnswer` and `StoreCard` make an ask known, one at a time, and nothing
changes a card that is there. It ties the two models of `POST /ask` together,
with `InsertedAs` for the status that `AskLifecycle` gives an ask.

*AskIntake, the rules.* `AnsweredRulesAreStored` is inductive together with
what a creation holds (`Creating`): its plan pairs every row after the first
with the first (`RowsPlanned`, which `OfflinePlanIs` shows of both plans with
exceptions, whatever the line and the groups), and the mute it has inserted is
the first row of the plan, or deleted. `KeepsItsRules` says that the rows
inserted so far, and all of them once the request is answered, are in the table
as they were written, or deleted.
`LowestPriorityDecides` needs no more of the table than
that its priorities are integers; the rest is about `evaluate`. Its order is a
permutation (`EvaluationOrderSorts`): `Before` is a strict total order, so the
number of rules before a rule is a different one for each, and an injection
between finite sets of one size is onto. The fold is defined and satisfies its
recursion for a list of any length (`AppliedIs`), by induction over its length;
a rule that leaves the urgency alone sees the ask as it came in (`ApplyIs`), so
the last of those that bear on it has the last word (`LastWord`, by induction
over the order), and it is the one of the lowest priority (`DeciderIs`). The
induction itself (`AllNumbers`) is by a least counterexample, since a theorem
with an operator parameter cannot be used.

*BlockingClient.* `EndsForAReason` needs `HeldToTheEnd`: what is left of a
hold and what was held add up to the ceiling, or the deadline falls within what
is left, so that a wait whose time is over reached one of the two; and
`ToldIsShown`, that what a handler is about to tell a wait was written before,
as was what a closed row says. That the row still says it is not true: a late
UPDATE or the mark of another wait may have overwritten it.

*GrantStore.* `FirstRevokeWins` needs what a revoke relies on between its
statements: its target exists and no other transaction holds it (`OneHolder`),
its id is still free (`PosterFacts`), so the `revoked_by` it computed is still
right at its commit; and a revoke is only ever stored after its target, so a
new row has no revokes (`RowsInOrder`). `ClaimerFacts` says that a claim past
its UPDATE finds its own name at the second read, since a name is never
replaced. Steps that write no row are treated together (`Quiet`); `Commit` is
`Enter` and a successful `TakeClaim` is `Consume` of the ledger. The
assumption is that `Ids` is finite, which the commit numbers need.

*Triage catalog.* `OneItemPerPath` is inductive only together with
`CatalogOK`; the lemmas say, for each way an item can end up current after a
refresh (matched by id, moved by hash, added), why its path differs from the
others. `RefreshMatchesReadme` is the equality of `Refreshed` with the
documented table. `EverySourceHasAPlace` follows a source through the plan: it
is matched by its id, is where a lost item moved to, is one of several copies
an item waits for, is the changed source of its id, or is added, and each case
excludes the others (`SourceKept`). `RefreshIsIdempotent` shows that what a
refresh leaves gives the next refresh with the same import nothing to move, add
or refuse (`NothingNewToMatch`, `StaleAgain`, `RefreshTwice`).

*Triage store.* The invariant says that what a transaction has read stays true
while it holds the lock: `OneWriter` (whoever is not idle is the holder),
`DraftsHold` and `PlansHold` (the draft and the plan are still what the
committed data justify). `NoReciprocalMerge` follows at a commit because
`CanMerge`, evaluated earlier, still holds; `RevisionsNumbered` ties the order
of revision numbers to that of event ids, so that the latest decision is the
one with the greatest event. Refinement: a commit of a plan is a `Refresh` or
`Attach` of the very catalog it replaces, by `PlansHold`; the first import of
an empty queue is `Create`.

*Export.* An inserted event lies above all committed ones (`DraftsHold`), so
commits never land below a cursor or inside a page. A page has no gaps because
fewer than `Limit` events precede a smaller event too (a cardinality argument);
its greatest event exists because a bounded set of naturals has one. The
refinement of `RevisionLog` adds `RevisionsCounted`: the number of a revision,
computed by the code as the maximum plus one, is the count of the item's
revisions up to it, also for a draft that is not committed yet.

*Edges.* The step of one program leaves the variables of the others alone, so
each invariant is proved of its own module and carried over. Pidfile: as long
as nothing overlaps, at most one daemon runs, its pid is in the file or about
to be written, and a stop that read the file kills that daemon before it
removes it. Push: an entry in a task's list is at most as new as the row and
the browser (`RowsInv`), so an outcome is never about a subscription that was
not made yet; `BannerInv` says that once the closing push is accepted and not
lost, it is pending or has been shown, and no asking push is left to follow it,
unless the two tasks overlapped. iMessage: what is dated after the start and up
to `last_check`, and between a query and the reading of the clock everything,
is fetched, judged or lost for one of the reasons (`Accounted`, `InHand`), and
what a poller asked about is in its cache, each under a key of its own
(`AskedOnce`). gog: what a task replied to is in its cache and not what it is
working on (`TaskInv`), so it does not reply again in that run; and a run that
has not answered a mail may do so, because the mail is unread or in a batch,
only if there is room for one more run (`MailInv`, `Room`): a mail that this
run did answer is unread only if a mark failed or is still to come, or it
turned unread since. Signal: what is dated up to `last_check` has left the
queue or was late for it (`OldIsTakenOrLate`), so what a poll drops as too old
is accounted for (`JudgedOrLost`); a batch is dated after the start
(`BatchFollows`), and what the run asked about is in its cache
(`SigAskedOnce`), so that a second delivery is not asked about again.

Every safety and every action property of the passing runs is stated by one of
these theorems. Only model-checked: liveness (`WaitReturns`, `ClientEnds`,
`EveryRevisionIsExported`), which needs ENABLED and is out of the prover's
reach, and what the patterns of `RuleCompiler` make of a given line, which is
finite search in given words: the theorems hold whatever they return.

## 5. Findings

With a run that shows them:

1. A timeout can overwrite an answer: `wait` re-reads the row, then updates by
   id alone (`handlers.rs:871`), although the comment at 868 excludes it
   (`ask_answered_times_out`).
2. `evaluate` gives the last word to the rule of lowest priority, where its
   comments say the highest (`rules.rs:18`): "mute all except" silences the
   exceptions too (`rules_priority`).
3. A wait is held for at most 600 s, deadline or not, and then reported as
   "no answer before deadline" (`handlers.rs:847`, `client_deadline`).

Each of the following has a definition that TLC refutes when it is made the
only property of a copy of the component's cfg:

4. `AnswerIsNotReplaced` (`AskLifecycle`): two concurrent answers both return
   200 and the second replaces the first (`handlers.rs:322`, README.md:807).
5. `StoredGrantAnswers` (`AskLifecycle`): a grant for a timed-out ask is stored
   and reported as answering, but its UPDATE matches no row (`db.rs:565`,
   README.md:898): `timedout` is written, `timed_out` is read.
6. `ReplyCarriesItsGrant` (`AskLifecycle`): `GET /wait` may pair the decision of
   one grant with the envelope of another (`grant_handlers.rs:240`,
   README.md:902).
7. `MovesAreAccepted` (`TriageCatalog`): a refresh in which two files swap
   paths, or a chain of renames, is refused as a whole (`triage/store.rs:291`,
   README.md:603).
8. `ExportIsSelfContained` (`TriageExport`): an export may list a decision on an
   item that its catalog lacks (`triage/http.rs:302`, README.md:570).
9. `StaysReachable` (`PushDelivery`): a push to a dead subscription drops the
   one the phone registered meanwhile (`push_handlers.rs:289`, README.md:383).

Read off the code while modelling, with the model doing the same:

10. `send_push_notifications` slices the question at byte 100 and panics inside
    a character, after the card was stored (`handlers.rs:1002`).
11. So do two slices of the gog heuristic, which ends the poller task of that
    profile (`plugins/gog/src/question_filter.rs:82`, 107).
12. The iMessage cache never forgets, where its README promises a window of
    five minutes (`plugins/imessage/src/main.rs:91`).
13. An iMessage stored between the query and the clock read after it is never
    fetched (`plugins/imessage/src/main.rs:312`). A row that cannot be converted
    is skipped (`db_poller.rs:70`), and one that is inserted with a date before
    `last_check` is never selected; `LostForAReason` says that, between a query
    and the judgement, a running plugin loses none for another reason but 12.
14. A second `daemon start --background` overwrites the pidfile with the pid of
    a child that cannot bind (`main.rs:693`).
15. A reply of `GET /wait` whose body is cut off is not retried (`main.rs:465`).
16. "mute everyone but ..." compiles to a mute of an agent named "everyone"
    (`rules.rs:373`).

What the properties of the passing runs allow, because the code does it: a
cancel that overwrites the status of an answered ask; two concurrent requests
with one idempotency key that both make a card; a `POST /rules` that is broken
off and leaves a mute without its exceptions, and exceptions whose mute is
deleted; two iMessage pollers that ask about one message; two tasks of a Google
profile named twice that answer one mail; and what findings 4, 6, 8, 9 and 14
describe.

Smaller observations: `cancel` leaves parked waits to time out; an
auto-answered ask is never inserted, so a wait on it sits until the ceiling;
lists of open asks and of history both omit timed-out rows; an item moved by
hash counts as moved again in every later refresh, since its declared id is
never renamed; attaching an ambiguous item is undone by the next refresh that
sees the same copies.

## 6. What is not modelled, and why

- Cryptography of grants, VAPID and push payloads (verification is taken as
  done), APNs (one send per device, its error logged), signer lists.
- Discovery of files, frontmatter, JSON lists and globs of `triage/import.rs`;
  queue names and the UNIQUE index on them; several queues (they share no row).
- `snooze`: it writes `snooze_until` only, which no modelled handler reads. Its
  overflow of the clock is a single expression.
- The event stream (a library channel; no state depends on it) and the delivery
  of responses (tried once, logged, nothing waits for it).
- The prompts and replies of the AI router beyond what they may suggest;
  `guess_renderer`, which nothing calls.
- Choices the plugins infer for a question, the test commands of gog and
  iMessage (Signal's is modelled: it drains the queue), the parsing of what the
  services return; matches of the rule compiler inside a word.
- Dashboards, the iOS app, self-upgrade, logging: other programs or pure I/O.

## 7. Plan

Done, in this order: asks, waits and grants with their ledger; reconcile and
the catalog; the store; the export; the grants table; rules and intake; the
client; push, processes and plugins; the proofs of section 4. Left:

1. `BlockingClient` and `AskLifecycle` composed: a refinement of the client's
   daemon by the steps of the handlers.
2. APNs registrations beside Web Push, and the event stream with its capacity
   if a dashboard comes to depend on what it delivers.
