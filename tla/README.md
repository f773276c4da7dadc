# OpenWA in TLA+

OpenWA is a WhatsApp API gateway: a NestJS process that drives one headless
WhatsApp Web client per session, stores messages, sends batches, and forwards
events to webhooks, sockets and plugins. This directory specifies the parts of it
that are hard to test, checks them with TLC and proves the central properties with
TLAPS. Paths below are relative to the repository's `src/`.

To repeat the work, in this directory:

    tlc -workers 2 -config MCSessionSerial.cfg MCSession
    tlapm BulkBatchProofs.tla

`PROJECT.json` lists the runs, the theorems, and for every definition the source
lines it translates.

## 1. The system

Everything runs in one Node.js process. Code is not interrupted between two
`await`s; at every `await` any other request, timer or callback may run. State lives
in three places: maps in memory, which a restart loses; rows in SQLite or Postgres
through TypeORM; and the browsers of the WhatsApp clients, which die with the process.

| component | state | operations | talks to |
|---|---|---|---|
| **Session service** `modules/session` | row `sessions.status`; maps `engines`, `reconnectStates` (attempts, timer), `stoppingSessions`, `lastErrors` | create, start, stop, delete, reconnect timer and attempt, callbacks of the engine, startup and shutdown | engine (calls and callbacks), hooks, webhooks, event gateway, message rows |
| **Engine adapter** `engine/adapters` | `client`, `status`, QR code, caches | initialize, disconnect, destroy, send..., events of the client | whatsapp-web.js, session callbacks |
| **Messages** `modules/message`, callbacks in `session.service.ts` | one row per session and message: status, `waMessageId`, type, reactions | pending/sent/failed saves of a send; store a received message, receipts, revocations, reactions; cleanup, backfill | engine, hooks |
| **Bulk batches** `bulk-message.service.ts` | row: status, progress, currentIndex; map `processingBatches` | create, process, cancel, startup scan | engine, hooks |
| **Webhooks** `modules/webhook`, `modules/queue` | rows; BullMQ jobs when Redis is configured | create, update, delete, dispatch, direct delivery with retries, queue worker | hooks, HTTP receivers |
| **API keys** `modules/auth` | key rows; map `pendingUsage` | create, validate, update, revoke, delete, seed | every request, event gateway |
| **Event gateway** `modules/events` | sockets, rooms | connect, subscribe (revalidates the key), unsubscribe, disconnect, emit | auth |
| **Hooks and plugins** `core` | hook lists, plugin status, registry | register, unregister, execute, load, enable, disable, unload | all of the above |
| **Direct broadcast** `dashboard` | queue in localStorage; state and abort flag of the page; runs | start, resume, cancel, clear, automate, leave or reload the page | the gateway's send, session status |
| **Validated numbers** | rows, unique per number | upsert, check | engine |
| **Infrastructure** `modules/infra`, `docker` | configuration files, export and import of tables | export, import, restart | database, Docker |
| **Shutdown, health** | drain flag, timers | drain, teardown | session service |
| contacts, groups, channels, templates, cache, storage, other pages, SDKs | none of their own, or single rows | pass-through | |

### What makes them hard

* **Awaits.** `stop`, `delete`, `start` and `executeReconnect` each read the maps,
  await something slow (a browser that closes, a hook of a plugin), and then write
  the maps by key. `processBatch` and `cancelBatch` keep entities across awaits;
  `onMessageReaction` reads and saves a whole row, and so do the validation, the update
  and the revocation of a key. A subscription awaits the validation of its key. An
  execution of hooks walks an array that others sort, splice and replace.
* **Writes nobody awaits.** Status updates and receipts are fire-and-forget.
* **Events of the client** are repeated, late, out of order, and come from adapters
  that have been replaced; a QR code is drawn in an await that may outlive its client.
* **Restarts** lose the maps and keep the rows. In the browser a reload loses the runs
  and keeps the queue, and leaving a page loses neither.
* **Failures** half-way: the engine has sent and the save fails, the receiver has
  accepted and the bookkeeping fails, `destroy()` throws.

`hazards` in `PROJECT.json` lists each of these at its line, with the properties
that watch over it.

### What correctness means

* *Sessions:* one browser per profile; none that the service cannot reach; a stop is
  final; one timer at a time; an outage is retried until the budget is used up; the
  row agrees with what runs.
* *Messages:* delivery states only advance, are backed by receipts of the row's own
  account, and a send does not stay pending.
* *Batches:* nothing is sent twice, cancels and stopOnError hold, progress adds up.
* *Webhooks:* attempts are bounded by `retryCount`, each delivery has one outcome, one
  bad receiver does not cost another its events, queued jobs survive.
* *Keys:* no use is counted that was not accepted; a retired key stays retired; a socket
  joins only rooms its key allows now.
* *Plugins:* a disabled plugin has no hook left; an execution skips no handler; nothing
  is registered twice.
* *Direct broadcast:* nobody gets a message twice, whatever is cancelled, resumed or
  reloaded; what the queue says of a contact is true; a run ends.

## 2. Modules

| module | about | proofs |
|---|---|---|
| `SessionLifecycle` (+ `MCSession`, 4 cfgs) | one session, its engines, requests, reconnect attempts and pending status updates | `SessionLifecycleProofs`, `SessionSerialProofs` |
| `MessageRecord` (+ `MCMessage`, 2 cfgs) | the copies of one message in the rows of the accounts in a chat | `MessageRecordProofs` |
| `BulkBatch` (+ `MCBulk`, 2 cfgs) | one batch, its run and concurrent cancels | `BulkBatchProofs` |
| `Broadcast` | what a batch promises: the abstract specification that `BulkBatch` implements | `BulkBatchProofs` |
| `WebhookDelivery` (+ `MCWebhook`) | events on their way to webhooks, direct or queued | `WebhookDeliveryProofs` |
| `PluginHooks` (+ `MCPlugins`) | the handlers of one event, the plugins that register them, executions | `PluginHooksProofs` |
| `ApiKeys` | keys, their validation, the requests that change them | `EventGatewayProofs` |
| `EventGateway` (+ `MCAccess`) | sockets and subscriptions; extends `ApiKeys` | `EventGatewayProofs` |
| `BroadcastQueue` (+ `MCBroadcast`) | the dashboard's queue of direct messages and its runs | `BroadcastQueueProofs` |

In all of them a step is the code between two awaits. An await that can only reject
or resolve is one label of a program counter; a save takes effect at the first step
after it. Definitions marked *Mutant* next to an operator are plausible mistakes in
that code. They are part of no specification: each is used, in place of its neighbour,
to see that a property can fail.

### SessionLifecycle

`row` is the column `status` ("absent" after the delete). `registered`, `stopping`
and `budget` are the entries of the three maps for this session. Engines and
ReconnectState objects are ids, reused once nothing refers to them; `client[e]` says
that the adapter has an open client, i.e. a browser runs on the session's profile;
`status[e]` is the adapter's. `pc` and `eng` are the program counter and the engine
of each request and reconnect attempt; `writes` holds the `UPDATE`s issued and not
applied, in their order: the default database has one connection and runs them first
in, first out. The awaits are named in `Awaits`.

* `Start`, `StartHookDone`: `start` up to and after the hook `session:starting`, then
  `InitializeEngine`, `OpenClient`, `ClientOpened`/`ClientFails` up to the end of
  `engine.initialize()`, which a reconnect attempt shares with a start.
* `Stop`, `StopClosed`, `StopSaved`; `Delete`, `DeleteClosed`, `DeleteFails`,
  `DeleteHookDone`.
* `TimerFires`, `OldEngineClosed`, `UndoClosed`, `ReconnectFails`: `executeReconnect`.
* `Qr` and `QrDrawn`/`QrFails`, `Authenticated`, `Ready`, `Disconnected`, `AuthFailure`:
  events of an adapter, also of one that is not registered any more, because the
  callbacks do not look. The handler of `qr` awaits the image of the code: `drawing` are
  the adapters that do. What comes after the await asks neither for the client nor for
  the status, so a code may be reported for a client that was closed, or replaced,
  meanwhile; `belated`, a history variable, says that the last report was of this kind.
  An adapter draws one code at a time, since the next one comes some 20 s later.
* `ApplyWrite`, `Restart` (`onModuleInit` resets the active rows).

`authenticating` is written as "qr_ready" is: both come from `onStateChanged` of an
engine that is not ready, and nothing tells them apart. Creating a session is the
initial state; auto-start after a restart is a `Start`. A new adapter is DISCONNECTED, as
its constructor leaves it.

### MessageRecord

One message, with a row for every account of the gateway in the chat. `known` says
that the row has its `waMessageId`, without which no callback finds it. `updates` are
issued and unapplied `UPDATE` statements, run in any order; `handler` is a reaction
callback with the entity it has read. `receipt` and `reacted` record what the client
reported. `SaveSend` does what TypeORM's `save` does with an entity: it writes the
columns that differ from the row, and inserts the row again if it is gone. Any of the
saves may be rejected. When the one that marks the row as failed is (`SaveFailedFails`),
the send ends "unsaved" and its row stays pending, as it does when a restart cuts the
send short ("lost"): `CutShort` names the two.

Two bounds of the model are properties of the code's inputs: receipts advance but
earlier ones may come again, and a receipt comes for a message that was taken.

### BulkBatch

`batch` is the entity `processBatch` keeps, `cancel[c]` the one each `cancelBatch`
has read and saves, `flag` the entry of `processingBatches`. `SavesAfter` is the
code's `i % 10 === 0 || i === last`. `SendMessage` is a message handed to the engine at once,
or the typing simulated before a text message (on unless SIMULATE_TYPING is false): an await
of up to some eight seconds between the check of the flag, in `Loop`, and the hand-over, in
`Typed`. `DatabaseFails` is any query of `processBatch`
that throws; `Restart` includes the scan of `onApplicationBootstrap`. `handed` and
`found` are history: how often a message was given to the engine, and
whether cancels came before or after `processBatch` read the row. One that comes before is
undone by the code, which then marks the batch active; the properties say where they
exclude it. Nothing looks at the flag after the typing, so one message may go out after
a cancel: that is what `Broadcast` calls begun, and `CancelStops` allows no other.

### WebhookDelivery

A delivery is a pair of an event and a webhook. `dispatch` handles its webhooks one after
another with the entities it read (`limit`); `at` is the stage of each delivery. In direct
mode `posting`, `recording` and `backoff` are awaits of the dispatch itself; with a queue
they are the worker's, one job at a time. BullMQ is external and modelled from its use: an
add that is rejected has left no job, a job fails at most `attempts` times, is kept over
restarts, and after a crash of its worker runs again once. `Failed` covers every reason the
code treats alike: an unsafe address, a timeout, an answer that is not 2xx, and
`lastTriggeredAt` that cannot be saved after the receiver has accepted.

### PluginHooks

`hooks` is the array of one event, sorted by priority. Ids are left out: they carry the
millisecond and so repeat, and `Unregister` takes out any registration, which covers the
first one with the id of another. `pluginHooks` is the set of plugins that `unregisterPlugin`
finds. `Without` is its filter, element by element, so that it can be proved about. An
execution holds the array that it started on: `register` and `unregister` change it under
the walk, `unregisterPlugin` replaces it, and from then on the walk goes over the old
one (`live`, `seen`). Enable, disable and unload are cut at the plugin's own callbacks,
which may throw. `onLoad` and `onEnable` follow one another and are one await: in it a
request registers the hooks of its plugin, one per step (`RegisterHook`), and `done`
counts them. `due`, `cut` and `untidy` are
history: the handlers an execution still owes, whether `unregister` has taken one out
under it, and the plugins that were enabled by two requests at once or after an
error. For those the code does register handlers twice, so `RegisteredOnce` sets them aside.

### ApiKeys and EventGateway

A validation is a query (`find`), a decision on the row it has read (`read`), and, when the
minute's window is over, the save of that whole entity (`save`), which TypeORM turns into
an insert when the row is gone. Update and revoke save an entity in the same way. Expiry and
addresses are a refusal that may come at any validation; the end of the window is a
choice, except that the first use is always due. `EventGateway` extends this with
sockets: a message may arrive before `handleConnection` has stored the key, a
subscription awaits the validation, and a socket may go at any await. `granted` is history:
what the row has allowed since the subscription arrived. `contested` names the keys that
were retired while a copy of their row was in use: the code brings those back to life
(section 4). A socket has one subscription under way at a time, and `MaxUses` bounds the
accepted validations; no other limit is in a guard.

### BroadcastQueue

`stored` is the queue in localStorage, `shown`, `busy` and `abort` the state of the page.
A run is the loop of `runBroadcastQueue` with what it awaits: the request, the wait for the
session, the pause. Leaving the page (`Navigate`) cuts a run off from the page's state
but does not stop it; a reload (`Reload`) does, and the gateway may still take the
request in flight. The contents of the vault, fetched by other pages, are any set at the
moment a handler reads them, and the order of the contacts is left out. `got` counts what each
number has received, `excused` the numbers that are asked for again, or whose answer was
lost, or that a forgotten run still holds: the reasons for which the code does send twice.

## 3. Runs

| run | bounds | shows |
|---|---|---|
| `session_serial` | 2 engines, 2 ReconnectStates, 1 request, 1 attempt, 2 reconnects, no event while a write is pending; stop and delete arrive between attempts | with requests that do not meet an attempt, all promises hold: `OneBrowser`, `NoOrphan`, `OneTimer`, `NoClobber` and, with fairness, `Recovers` |
| `session_race` | 2 engines, 2 ReconnectStates, 2 requests, 1 attempt, 1 reconnect; any two of the three at a time (`Overlap`) | what the row promises holds in every interleaving: `NoGhost` |
| `session_stop` | 3 engines, 2 writes pending, requests at any time | **violated**: `StopWins` |
| `session_failure` | 3 engines, 2 writes pending, requests between attempts | **violated**: `NoStaleFailure` |
| `message` | 2 accounts, 2 people, 1 reaction at a time, 2 updates pending | `NeverAhead`, `NoLimbo`, `ReactionsKept`, `OnlyReactionsGoBack` |
| `message_forward` | the same | **violated**: `Forward` |
| `bulk` | 3 messages, each with or without typing, 2 cancels, any crashes | `AtMostOnce`, `CancelStops`, `StopsOnError`, `CompletedMeansAll`, `Accounting`, `Driven`, `Ends`, and `Broadcasts`: it refines `Broadcast` |
| `bulk_cancel` | the same | **violated**: `CancelHolds` |
| `webhook` | 1 event, 2 webhooks, `retryCount` 0 or 2, queue on and off, one webhook edited or deleted | `AttemptsBounded`, `OneOutcome`, `NoSilentEnd`, `EveryHookServed`, `QueueSurvives` |
| `plugins` | 2 plugins, one with two hooks, 3 requests, 1 execution, any registration unregistered | `DisabledIsSilent`, `NoneSkipped`, `RegisteredOnce` |
| `access` | 1 key, 1 session, 1 client, 1 socket, 1 administrator, 3 accepted validations | `NeverOvercounts`, `RetiredForGood`, `JoinsAreGranted` |
| `broadcast` | 2 numbers, 2 runs at a time, 2 attempts | `SentOnce`, `HonestMarks` and, with fairness, `Ends` |

**Why the bounds suffice.** Two engines are a registered one and one that was replaced,
whose code is still being drawn; the third of the two violations is the one that an attempt
creates beside them. Two ReconnectStates are the current one and a lost one whose timer is
armed. `MaxWrites` keeps events back while updates are pending, but not the code being drawn
nor the requests, so a stale update still stands behind a newer one. `Overlap` lets any two
of two requests and an attempt meet, with two updates behind them. Three messages have one
index after which progress is saved by the tenth rule (0), one after which it is not (1) and
the last one. `retryCount` 0 is the value where the two counting schemes (from 1 and from 0)
might part, 2 has a retry. Two webhooks show what one does to the next. Three requests let
an unload or a disable meet two overlapping enables, and one execution has an array to lose
at any point. A client, a socket and an administrator are three holders of one row, which is
what it takes to save a copy over a newer one, twice; keys do not interact. Two runs are the
one the page has forgotten and the one it starts; two numbers are one that is done and one
that is next; two attempts have one retry. `MaxWrites` and `MaxUpdates` hold back new
events, never a step already begun; `MaxUses` likewise refuses no answer, and `Runs` leaves
a run for the page that is opened.

**Symmetry** is used in the runs of the session that check safety only, over
engines, ReconnectStates, requests and attempts; no definition tells their members apart.

**Deadlock** is checked in every run but two: in `plugins` all requests may be over, and
in `access` the socket may be closed with the bound on uses reached.

**Fairness.** Weak fairness says that promises settle, timers elapse and the database
answers: `InitStep`, `StopStep`, `DeleteStep`, `TimerFires`, `ReconnectStep`, `QrSettles`,
`ApplyWrite`; `ProcessStep` and the saves of cancels; dispatch and delivery steps. None
is assumed of users, of events of a client, or of a restart. In the session this is an
assumption on whatsapp-web.js: its `initialize` and `destroy` settle. A job
in the queue has strong fairness, since the worker is free only between two jobs.
Each run of the
broadcast is weakly fair on its own (`Loop`): a request is answered or fails, the wait for
the session ends after ten minutes, and every pause is a timer; the choice among
answers is not fair, so `Ends` needs the bound on attempts.
`Recovers` is conditional on the client not repeating `disconnected` for ever:
each repetition restores the whole budget (session.service.ts:617-621), so without that
condition nothing limits the attempts.

## 4. Findings

Each violation run contradicts a sentence of the repository; `PROJECT.json` quotes it.

* `session_stop`. `executeReconnect` reads the stop mark after its await and destroys
  "any engine it just created". It finds that engine in the map. A `stop` resumed
  after the attempt has registered its engine removes the map's entry by key, so the
  check finds nothing and a browser keeps running that the service cannot reach.
* `session_failure`. A reconnect destroys an engine whose `initialize()` still runs.
  The rejected `initialize()` reports FAILED for the session, later than the new
  engine's ready: a recovered session shows a stale failure.
* `message_forward`. Receipts are guarded by the statuses they may advance, but a
  reaction saves the entity it has read: a receipt applied in between is undone, and
  a revoked message gets its type back. `OnlyReactionsGoBack` shows (and is proved)
  that nothing else does.
* `bulk_cancel`. `processBatch` saves its own entity after a cancel, with the status
  processing. The cancel stops the sending (`CancelStops`, proved), but for the message
  whose typing is simulated; the row goes back to processing and the final save leaves
  it there.
* Without a run: a QR code drawn while its client is closed is reported afterwards, and the
  row of a stopped session says `qr_ready`; a message already counted as cancelled goes out
  when the cancel came while its typing was simulated; the status FAILED of `stopOnError` is
  replaced by COMPLETED when something was sent before; plugin settings and status are not
  persisted, since no entry is ever put into the registry.
* Keys: two due requests save the same count, so one is lost (`NeverOvercounts` is what
  holds); a save of an entity read before revives a revoked key or inserts a deleted
  one; a subscription that arrives before the connection is validated disconnects a valid
  socket.
* Import: its statements name columns that the tables of messages and batches do
  not have. Every insert fails, the deletes are committed, and success is reported. Saving
  one of the sections redis and queue switches the other off.
* Direct broadcast: resuming is not "with the same numbers" but with the vault's, and
  with none before the vault is fetched; a contact under retry at a cancel counts as failed
  and is not resumed; the automation revives a cancelled run; after leaving the page,
  Resume sends beside the old run. A number that could not be saved is lost with the
  next fetch, in spite of the comment.

## 5. Theorems

TLC checks the instances above; these hold for every value of the constants, under
the assumptions named in each module (`SessionAssumption`, `MessageAssumption`,
`BatchAssumption`, `WebhookAssumption`, `KeyAssumption`, `AllAssumption`,
`QueueAssumption`, `PluginAssumption`), which say only that the ids are distinct from the
"nothing" values, the bounds are natural numbers, edits make rows, and a handler of a
plugin stands for one place in its code that registers it. Every inductive invariant below was
checked by TLC on the instances of section 3 before it was proved.

* **SessionLifecycleProofs.** `Typed`: `TypeOK`, for any numbers of engines, budgets, requests
  and attempts. The type invariant is not inductive alone: `HoldsEngine` adds that a
  process that awaits an engine holds one. `RowHasBrowser`: `NoGhost`, in
  every interleaving. The row lags behind, so the invariant (`GhostInv`) speaks of
  `Shown`, what it will be when all updates are applied: that is active only while a
  browser is open or about to be, because whoever closes one issues "disconnected"
  afterwards, or when it is the "qr_ready" of a code reported belatedly.
* **SessionSerialProofs.** `BrowserAlone` (`OneBrowser`), `BrowserReachable` (`NoOrphan`),
  `TimerAlone` (`OneTimer`), assuming `Serial`: requests do not overlap, nor do attempts,
  and stop and delete come between attempts, as in `session_serial`. The invariant says who
  may work on what: only the registered engine is open, whoever closes an engine has the
  registered one, a session that is being stopped or has no engine has neither a budget nor
  an attempt, and a timer belongs to the budget in the map. `StopWinsAlone` proves
  `StopWins` under the same assumption: what `session_stop` finds needs the overlap.
  `NeverClobbers` (`NoClobber`) rests on `ClobberInv`: while the registered engine shows its
  code or is ready, `Shown` is not "initializing". A new adapter is DISCONNECTED, so a code of
  the engine before, reported between the INITIALIZING of the service and that of the new
  adapter, does not matter here: what a code writes is never "initializing".
* **MessageRecordProofs.** `Typed`, `ReceiptsFirst` (`NeverAhead`), `SendSettles`
  (`NoLimbo`: a row is pending only while its send is under way, or when that was cut
  short), `ForwardButReactions` (`OnlyReactionsGoBack`). The inductive invariant needs three
  more facts. Until a send is over nothing but the send touches its row, for the row has no
  id to be found by (`SendOwnsRow`). Every entity that a reaction holds (`Entities`) and
  every pending statement (`Updates`) is backed by receipts as the rows are (`Rows`).
  `LoneReactionsKept` (`ReactionsKept`) assumes `OneAtATime`, as the run's bound does: no
  two reactions of one account's client overlap. `Kept` says of every row, and of every
  entity held by a callback, that it carries all reactions handled so far, and of a row
  about to be written without any that nobody could have reacted to it.
* **BulkBatchProofs.** `BatchTyped`, `NothingSentTwice` (`AtMostOnce`), `CancelledIsQuiet`
  (`CancelStops`), and `Implements` (`Broadcasts`), for any number of messages and cancels.
  The refinement maps `handed` to itself, `begun` to the await of the simulated typing, and
  `closed` to `Closed`: the run has left its loop, or a cancel has come. Typing begins only
  while the flag is active (`TypingBegins`) and ends with the hand-over or with the process
  (`TypingEnds`). `HandedInv` says that at each
  await exactly the messages before `currentIndex` were sent, once; `CancelInv` that the
  batch is marked active once, before every cancel that counts.
  `ProgressAccounts` (`Accounting`), `ProcessingIsDriven` (`Driven`),
  `CompletedIsComplete` (`CompletedMeansAll`): the row is overwritten by
  entities that were read long before, so what is said of it is shown of every copy.
  None counts more than was handed over (`HonestInv`), and each adds up to the batch as
  long as no cancel came before processBatch had read the row (`BalancedInv`).
  `ErrorsStop` (`StopsOnError`): a run that is in its loop holds no failure of a batch that
  stops on errors, not even one inherited from the row or a cancel's copy (`ErrorInv`).
* **WebhookDeliveryProofs.** `Typed`, `BoundedAttempts` (`AttemptsBounded`), `OutcomeOnce`
  (`OneOutcome`), `OutcomeReported` (`NoSilentEnd`), for any events, webhooks, retry
  counts and restarts. The stage of a delivery says whether an attempt has begun that
  has neither failed nor crashed its worker (`AttemptsInv`), and whether an outcome was
  reported that no crash has yet repeated (`OutcomeInv`). `DispatchInv` says that a delivery that is
  still to be taken has done nothing, so the limit read by dispatch comes in time.
  `JobsAreKept` is the safety half of `QueueSurvives`, as an action property (`Onward`): no
  step, not even a restart, takes a queued job anywhere but on to its outcome, and none takes
  up a delivery that has ended.
* **EventGatewayProofs.** `AccessTypes` (`TypeOK`), `UsageNeverOvercounts`
  (`NeverOvercounts`), `RetiredStayRetired` (`RetiredForGood`), `JoinsGranted`
  (`JoinsAreGranted`), for any sets of keys, sessions, callers and administrators. Each says
  of the rows what must be said of every copy as well: the invariants add that a copy that
  is still to be saved overcounts as little as the row does, and that outside `contested` no
  copy of a retired key is active. `JoinsGranted` rests on the fact that the copy a
  subscription holds allows only what was noted in `granted`. Steps that touch neither row
  nor copies are handled once, as quiet steps.
* **BroadcastQueueProofs.** `QueueTypes` (`TypeOK`), `NobodyTwice` (`SentOnce`),
  `MarksStayHonest` (`HonestMarks`), for any numbers, runs and attempts. The two are
  proved together, since a contact that is pending, honestly, is what may be sent to. They need a
  third part, `NoRival`: a number that a run still has pending and that is not excused is
  in no other run, not settled on the page, and on no page but the run's own.
* **PluginHooksProofs.** `PluginsTyped` (`TypeOK`), `DisabledSilent` (`DisabledIsSilent`),
  `WalkIsComplete` (`NoneSkipped`), `HandlersOnce` (`RegisteredOnce`), `HooksInOrder` (the
  array stays sorted), for any plugins, offers, requests and executions and an array of any
  length. The first half is about sequences: what inserting after the equals, taking one out
  and filtering do to elements and their order. The filter is a recursive function; as
  nothing can be proved here by induction over an operator, its facts are proved from a
  least counterexample (`Least`), which natural numbers have. Of the invariant, `Tracked`
  and `NoneAtRest` say that whoever has a hook has an entry and is not at rest; `DueAhead`
  that what an execution owes lies ahead of its index, in the live array or the one it kept.
  It holds because what is inserted before the index only moves the rest on, and needs the
  history variable `cut`: `unregister` moves it back. For `HandlersOnce`, `CountedOnly` says
  that the one request that is enabling a plugin has registered no more than it has counted.

Each safety property that a passing run checks is stated by a theorem, but for the
safety half of `QueueSurvives`, which `JobsAreKept` states in a form of its own. Only
model-checked: liveness (`Recovers`, the two `Ends`, `EveryHookServed`,
`QueueSurvives`), which under fairness and with ENABLED is beyond the prover; and the
violations of section 4, which are counterexamples. The hypotheses of the theorems that have
any (`Serial`, `OneAtATime`) are those under which the passing runs check the same
property; `StopWins` is stated in no passing run and proved under `Serial` alone.

## 6. Not modelled, and assumptions

* TypeORM's `save` of an entity is a comparison with the current row followed by the
  changes; the two are one step, as SQLite runs one statement of a connection after
  another and nothing else is awaited in between. With Postgres and a pool the
  `writes` of a session could also be reordered; the session runs assume the default.
* Two `start` requests that overlap in the hook occur in `session_race` only. They open two
  browsers on one profile, so `OneBrowser` and `NoOrphan` are checked in `session_serial`,
  with one request at a time.
* Graceful shutdown (`onModuleDestroy`), the lid cache, `logout` (never called).
* The kinds of message content, template variables and the lengths of delays. The typing
  simulated by `sendText` is left out: it comes before the hand-over, cannot fail, and nothing
  is decided in it; the one of a batch is modelled.
* The cleanup's deletion of finished batches; the backfill of message types.
* Signatures and headers of webhooks; the address checks, a pure function.
* Single-row reads and writes (templates, settings, audit, statistics), pass-through
  calls to the engine, file and cache input and output, the SDKs, and of the dashboard
  everything but the direct broadcast. A second tab with the same localStorage.
* The configuration of plugins and their registry file; discovery of plugins.
* Names, roles, addresses and expiry of keys; `generateBootstrapApiKey`.
* Validated numbers, import and export, shutdown: too little interleaves in them for a
  module of their own; what was found in them is in section 4 and under `hazards`.

## 7. Plan

Done, in this order: `SessionLifecycle`, the core, because every other part depends on
which engine is registered; `MessageRecord`; `BulkBatch` with `Broadcast`;
`WebhookDelivery`; `PluginHooks`; `ApiKeys` with `EventGateway`; `BroadcastQueue`.

What is left:

1. Removal of finished batches by the history cleanup, as an action of `BulkBatch`, and the
   graceful shutdown, as an action of `SessionLifecycle`.
2. A delivery as *attempts, then one outcome*, with `WebhookDelivery` as its refinement,
   model-checked and then proved from `AttemptsInv` and `OutcomeInv`.
