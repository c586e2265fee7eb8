# A verification project for sanmao

TLA+ modules, TLC models and TLAPS proofs for `sanmao-api`, the gateway of this
repository, with its web console and its desktop program. The gateway sells access to
language, image, video and music models: it holds quota before it calls a provider, settles
or refunds afterwards, polls slow tasks in the background, and takes payments from four
gateways. The correctness of the server is mostly a question of **money**: every unit taken
is either the price of something or given back, once, although requests, polling masters,
webhooks, administrators and maintenance tasks move the same rows without talking to each
other. The correctness of the console is mostly a question of **whose answer it is**: its
pages ask the server for many things at once, go on while they wait, and keep what comes
back in state that outlives the dialog, the record or the click it was asked for. The
models are about these two.

Paths below are relative to `src/sanmao-api/` unless they start with `src/`; those of the
console, from section 2 on, to `src/sanmao-api/web/src/`.

1. [The system](#1-the-system)
2. [The modules and the code](#2-the-modules-and-the-code)
3. [The runs](#3-the-runs)
4. [What is proved](#4-what-is-proved)
5. [Where the code and its documentation disagree](#5-where-the-code-and-its-documentation-disagree)
6. [Assumptions, and what is not modelled](#6-assumptions-and-what-is-not-modelled)
7. [The plan](#7-the-plan)

---

## 1. The system

`src/` holds four projects. `sanmao-api` is a Go server (a fork of new-api) with a web
console and a desktop shell; `sanmao-llm` is a set of Python research scripts;
`sanmao-dashboard` is a static Angular page; `sanmao-skill` is vendored documentation.
Only `sanmao-api` is modelled: its Go part (`model/`, `service/`, `controller/`, `relay/`),
its console (`web/src/`, React) and its desktop program (`electron/`).

A deployment is one or more **web processes** in front of one SQL database, optionally
with Redis; those whose `NODE_TYPE` is not `slave` are **masters** and run the background
loops too. Nothing elects a single master. Every process keeps caches of its own. The console
runs in the users' browsers: its pages are mounted one at a time and talk to the server only.
The desktop program starts a server of its own and shows the console in a window.

### Components

| Component | State | Operations | Talks to | What is hard | What makes it correct |
|---|---|---|---|---|---|
| **Asynchronous task billing** `service/task_polling.go`, `service/task_billing.go`, `model/task.go`, `relay/relay_task.go`, `controller/relay.go` | rows of `tasks` (status, progress, quota, private billing context); each master's list of a round | submit, sweep timed-out rows, poll video and Suno tasks, bulk failure, realtime fetch, refund, re-price | provider, wallet, subscriptions, token, channel cache | several masters, minute-old copies written back, a full page of stuck tasks, crashes between the status and the refund | refunded or re-priced at most once; a finished row stays; the books balance; every task ends |
| **Request billing session** `service/billing_session.go`, `billing.go`, `funding_source.go`, `quota.go`, `violation_fee.go` | `BillingSession` in memory, `users.quota`, `tokens.remain_quota` | choose a funding source, hold, roll back, settle, refund (a goroutine), charge websocket events, violation fee | subscriptions, wallet, token | partial failure of two-sided moves, retries, fall-back to the second source, trusted users who hold nothing | a request costs its price or nothing; both sides agree |
| **Subscription quota ledger** `model/subscription.go`, `service/subscription_reset_task.go` | `user_subscriptions.amount_used`, `subscription_pre_consume_records` | pre-consume, post-consume delta, refund by record, periodic reset | billing session, task billing, reset task | read-modify-save of whole rows; resets between a hold and its settlement | a plan's quota is a limit in each period |
| **Subscription life cycle** `model/subscription.go`, `controller/subscription.go` | `user_subscriptions` (status, end time, remembered group), `users.group` | buy, bind, cancel, delete, expire in batches | payment orders, user cache | four transactions read and write the same rows and the group | purchase limits hold; nobody loses, or keeps, a paid group |
| **Order lock** `controller/topup.go` | `orderLocks` (`sync.Map`), `createLock`, reference counts | `LockOrder`, `UnlockOrder` | all webhook handlers | the mutex is created and deleted while others arrive | mutual exclusion per trade number, no leak |
| **Payment orders** `controller/topup*.go`, `controller/subscription_payment_*.go`, `model/topup.go` | `top_ups`, `subscription_orders` | place, notify, expire, fail, complete by hand | gateways, order lock, wallet, subscription life cycle | repeated notifications, acknowledgement before the work, a manual completion beside a webhook | credited at most once, and whoever pays is credited |
| Quota cache and batch updater `model/utils.go`, `model/user_cache.go`, `model/token_cache.go`, `common/redis.go` | Redis hashes; deltas in memory | fill, increment, flush | everything that moves quota | asynchronous fills race increments; a stop loses a batch | the cache converges to the row; no delta is lost or applied twice |
| Channel pool `model/channel.go`, `model/channel_cache.go`, `model/ability.go` | channel status, multi-key status lists, in-memory copy | disable, enable, rebuild | relay, channel tests | rebuild and update in opposite orders; lost updates of two keys | a disabled channel or key is not chosen |
| Channel selection and retry `service/channel_select.go`, `middleware/distributor.go`, `controller/relay.go` | priority and group per attempt | pick, retry | channel pool | cross-group retries | every eligible channel before giving up, bounded attempts |
| Stream relay `relay/helper/stream_scanner.go` | stop channel, wait group, write mutex | scan, handle, ping, stop | client, provider | three goroutines stop each other with timeouts | ends; nothing is written after the handler returned |
| Realtime websocket relay `relay/channel/openai/relay-openai.go` | usage counters shared by two readers | read client, read target, bill | billing session | usage is read by the main goroutine while readers write | every event is billed once |
| Rate limits `middleware/rate-limit.go`, `common/limiter` | Redis lists, in-memory queues | check, record | every request | check and record are two commands | the window's limit holds |
| Redemption, check-in `model/redemption.go`, `model/checkin.go` | codes, check-in records | redeem, check in | wallet | the missing row lock | credited once |
| Midjourney polling `controller/midjourney.go` | `midjourneys` | as task polling | wallet | as task polling | refunded at most once |
| Options, pricing | option map | reload | everything | propagation delay | configuration data |
| The rest of the server: accounts and login, statistics and logs, notifications, disk cache, Codex credentials, provider adaptors | | | | | no shared protocol; see section 6 |
| **Desktop program** `electron/main.js` | child process, probes, windows, dialogs, last lines of its output | start, probe, crash, activate, quit | the server, its port | a probe that times out is repeated twice; the process dies while one waits for it | no server is left behind; start and quit end; a taken port is named |
| **Playground** `web/src/hooks/playground/` | the conversation, its copies in timers and localStorage, open streams | send, stop, repeat, edit, import, reload | relay (SSE) | answers are written to the last message, whichever it is by then | only the last is in the making; what ended stays and is stored |
| **Console: settings** `web/src/pages/Setting/`, `components/settings/` | options as given, as edited, as compared with | load, edit, save with many PUTs, refresh | options of the server | partial failure; refreshes caused by other forms; another administrator | "saved" is true; only edits are sent |
| **Console: editors of structured options** (parameter override, chats, affinity rules, key-value pairs, prices, price synchronisation, dashboard lists, OAuth providers) | one value in several forms: rows, text, old format | edit, switch form, save | options, channels | the forms are not derived from one another | what was saved comes back; a switch loses nothing |
| **Console: tables, dialogs, panels** (`hooks/*`, `components/table/`) | rows, page, selection; the record a dialog is open for | load, search, page, switch, delete, edit, save | tables of the server | answers overtake one another, and dialogs are closed over their requests | a table shows the page it names; what is saved is the record's own |
| **Console: channels** (form, table, keys, tests, model names, upstream updates) | as above, with state that survives the dialog | as above | channel tables, providers through the server | a key, a model list or a confirmation left over from another channel | a channel gets what was entered for it |
| **Console: account** (sign-in, verification, second factor, mail and tokens, preferences, top-up, subscriptions) | session in the cookie and its copies; typed codes; prices asked for | as named | accounts, gateways | two answers about one thing; shared flags; rollbacks | the page says what the account has; a price confirmed is the server's |
| **Console: what is shown** (usage log prices, model square, dashboard) | rows and ratios | compute, filter, chart | logs, pricing | each price is computed along several paths | they agree with the charge and with each other |

### How they interact

```
 client ──> Relay / RelayTask ──hold, settle, refund──> BillingSession ──> wallet | subscription + token
                   │ task row                                ▲                  ▲          ▲
                   ▼                                         │            resets, expiry    │ credit
               tasks table <── sweep, poll (each master) ────┘ refund /   (reset task)     │
                   ▲                  │                        re-price                    │
 GET task ── realtime fetch           └──> provider                             gateways ──> webhooks
                                                                                (LockOrder) ──> orders
```

The console's requests reach the handlers above; `helpers/api.js` lets GETs of one address
that are under way share one answer, which is where a page's newest question may get an answer
older than what was just saved.

The database is the only thing the actors of the server share: single `UPDATE … SET x = x + n`
statements for wallet and token, compare-and-swap on `status` for task rows, whole-row
`Save` inside transactions for subscriptions, orders and Suno tasks. Which of these four
ways a piece of code uses decides what can go wrong with it; `PROJECT.json` lists the
hazards at their lines.

---

## 2. The modules and the code

| Module | Role | Extends |
|---|---|---|
| `TaskBilling` | asynchronous tasks, from the request to the refund | |
| `TaskPromise` | abstract specification of one task's money | |
| `TaskBillingProofs` | typing; billed at most once; the books and the promise; Suno refunds | `TaskBilling` |
| `BillingSession` | relay requests, subscriptions' counters, websockets | |
| `BillingSessionProofs` | typing, never too much back, price paid, the quota of a period, ended subscriptions stay ended | `BillingSession` |
| `OrderLock` | reference-counted mutexes | |
| `PaymentOrders` | webhooks composed with the lock | `OrderLock` |
| `PaymentProofs` | the lock excludes; an order is credited at most once | `PaymentOrders` |
| `SubscriptionLife`, `SubscriptionLifeProofs` | subscriptions, expiry and the user group; purchases bounded, group kept | |
| `DesktopShell`, `DesktopShellProofs` | the desktop program; no server left behind, the port named | |
| `Playground`, `PlaygroundProofs` | the conversation of the playground; only the last answer in the making, ended answers stay and are stored | |
| `Console` | the console: one of the pages below at a time; forms tell the truth, lists show what there is | `ConsolePages`; the other pages, by `INSTANCE … WITH` |
| `ConsolePages` | the pages that are proved about, each with its lemmas | these pages, by `INSTANCE … WITH` |
| `UsageLogs`, `ModelSquare`, `Dashboard` | what is computed and shown | |
| `SettingsForms`, `SettingsLists`, `TwinEditors`, `PricingEditor`, `RatioSync`, `OAuthProviders`, `ParamOverride` | what an administrator edits | |
| `ConsoleTables`, `EditDialogs`, `RecordPanels` | tables, dialogs and panels of all kinds of records | |
| `ChannelForm`, `ChannelTable`, `KeyTable`, `ModelTests`, `ModelPickers`, `UpstreamUpdates` | channels | |
| `SignIn`, `SecureCheck`, `AccountPage`, `TwoFactor`, `Preferences`, `TopUp`, `PlanPurchase` | accounts | |
| `MCTaskBilling` | instances for TLC: sets and functions that a `.cfg` cannot write, and the symmetry. In the other modules they stand at the end | `TaskBilling` |

One action is one statement that other processes can observe: a committed SQL statement
or transaction, a mutex operation, an answer of a provider. What a handler does between two
of those is one step. Where a transaction reads first and writes later it is two actions, one
that takes the snapshot and one that commits, so that an interleaving in between is
possible unless a constant says that the database excludes it.

Operators with an odd word at the end (`WonAlways`, `ReportedByStatus`, `LoadedWithoutRow`, `FreshOnlyUsed`, `DropAlways` …)
and standing before the definition they resemble are *mutations*: plausible mistakes in the
code. No specification uses them. Each one, put in the place of the definition that
follows it, makes TLC report the property it is listed with in `PROJECT.json`, which shows
that the property depends on that line of the code.

### TaskBilling

Money is a ledger: `fund[t]` and `tok[t]` are what the funding source (wallet or
subscription) and the token have paid for task `t` so far, net of what came back.

| State | Code |
|---|---|
| `submit`, `pre`, `quote` | progress of `RelayTask`, `preConsumedQuota`, `TaskSubmitResult.Quota` |
| `row` | the row of `tasks`: status, whether progress is `100%`, quota |
| `view` | the rows a master listed at the start of the sweep or poll half of a round and has yet to handle. They are copies; the row may have moved on |
| `answer`, `job` | the provider's answer in hand; the refund or re-pricing in progress, and for Suno the row to be saved afterwards |
| `fetch` | what `tryRealtimeFetch` is about to write |
| `upstream`, `gone`, `aged` | the provider, deleted channels, tasks behind the timeout cutoff |
| `bills`, `unsettled`, `tainted` | history for the properties only |

The request is `PreConsume`, `Accept` (a retry on another group may re-price), `Settle`,
`Insert`, or `GiveUp` and `Release`. A master alternates `BeginSweep` (`SweepOne` per row)
and `BeginPoll` (`Ask`/`AskFails`, then `ApplyVideo` or `ApplySuno`; `BulkFail` for a
channel that is gone). `JobFunding` and `JobToken` are the two writes of
`RefundTaskQuota`/`RecalculateTaskQuota`; `SaveSuno` is the unguarded `Save` that follows
Suno's refund. `CrashRequest`, `CrashMaster` and the `Fault` alternatives are the failures.

Two things are as careless as in the code. `Reported` stores the progress a provider names, whatever the status beside it:
a row with an unfinished status and `100%` (`LeftBehind`) is on no list any more. The adaptors of Gemini and Vertex, which
`tryRealtimeFetch` asks, name `100%` with a final status only, so `WithStatus` does for them. And `Release`, the goroutine of a request that was given up, has
one attempt with a wallet but three with a subscription (`Attempts`), each of which may have paid before it failed (`Given`), so that up to
three holds come back; `RefundedAgain` is the exception this makes in `BooksKept`, and bounds it.

`TaskPromise` is what all this should amount to for one task: a price that does not move, an
outcome decided once, and at most one booking of either minus the price or the difference
to the final price, which a failure may lose but never repeat. `KeepsPromise` maps
`TaskBilling` to it (`outcome` from the row, `paid` from the ledger, `due` from the open jobs).

`CasTasks` are the tasks whose rows are moved by `UpdateWithStatus` on a running status only:
not Suno, not fetched in real time, not on a deletable channel. The promise is about them; the
others have their own, weaker properties or findings.

### BillingSession

All requests of one user with one token, one wallet and several subscriptions. `ses` is
the `BillingSession`; `pc` follows `NewBillingSession` (`try`), `preConsume`
(`check`, `take`, `fund`, and `undo` when the second half fails), the provider (`running`),
`Settle` or `PostConsumeQuota` (`settle`, `charge`, `… token`); `back` follows the goroutine of
`Refund`. A wallet or token move is one action. A subscription move is two: `BeginHold`,
`BeginPay`, `BeginRefund`, `BeginReset` read the rows (`tx`), and the `Commit…` saves the whole
row it had read. `RowLocks` says whether `SELECT … FOR UPDATE` makes such
transactions wait for each other. Holds, deltas, refunds and resets are
`PreConsumeUserSubscription`, `PostConsumeUserSubscriptionDelta`,
`RefundSubscriptionPreConsume` and `ResetDueSubscriptions` of `model/subscription.go`.
`CommitRefund` and `MarkRefunded` are separate because the code commits them separately.

`price` is what a request should cost, `bill` what its session has booked. They differ where a subscription refuses a settlement that would take
it over its total: the error is logged, the bill stays at the hold, and the request is charged too little. `PaysItsPrice` compares what was paid with the *price*,
and `Undercharged` is the only exception it knows. A websocket charges each `Event`; whatever ends its loop, usage that is
held still is charged once more (`LastUsage`, at most two), also usage that was refused before, and `Conclude` writes the log.

### OrderLock and PaymentOrders

`OrderLock` has the steps of `LockOrder` (`EnterCreate`, `Find` or `Store`, `Count`, `Acquire`)
and `UnlockOrder` (`LoadAgain`, `Unlock`, `EnterLeave`, `Drop`). A mutex object is an identity
`i` that can be allocated again once nobody can reach it.

`PaymentOrders` extends it: a handler is `Call` (together with the choice of the work), the
lock's steps, then `Read`, `Commit` (or `SaveStatus` and `AddQuota` for epay, which
uses two statements), `Finish` with the deferred unlock. The gateway repeats `Notified`
until `acked`, and may go on. `AdminComplete` takes the same lock; `ReadFailed` and
`SaveFailed` (Waffo) do not. `Fault` is a database error or a handler that stops half-way.

Placing an order is one step where the row is stored when the link to pay is there (`LinkFirst`), and two where the row comes first (`Place`, then
`Linked` or `Refused`): a notification, or an administrator, may meet the row in between, and Waffo's handler then saves `failed` over whatever it has become.
A report of Waffo that is not a success is possible at any time and marks a pending order failed; `GivenUp` names the orders to which that happened.

### SubscriptionLife

The rows of one user's subscriptions and his group. A job (`AskCreate`, `AskEnd`,
`ListDue`) opens a transaction (`Begin`), which reads rows and group, and commits:
`CommitCreate` counts the purchase limit, remembers the group and moves the user up;
`CommitEnd` cancels or deletes and moves him down unless another upgrade runs;
`CommitExpire` is one user's turn in `ExpireDueSubscriptions`. `Serial` says whether those
transactions wait for each other. The job's `now` is older than the transaction, as it is in the code. `EndRound` is another user's
transaction that fails before this user's turn and ends the round with it.

`PurchasesBounded` is about the purchase limit with and without `Serial`: what is held of a plan exceeds its limit by at most one less than the purchases that
can be open at once. With `Serial` that is the limit itself; without it, the excess of one overlap must not let a later one add to it, which
a count of only the active rows, or one that is taken before the transaction, would allow.

### DesktopShell

An action is one callback of Node with the microtasks it releases. `server` is the child process
(with what its port answers), `probing` the number of probes in flight, `errorLogs` the causes the last lines
of its output tell, `dialogs`, `windows` and `isQuitting` what `main.js` holds. The server may die at any time, the
port may belong to somebody else, and the user may activate, close and quit whenever a window,
the tray or a dialog lets him.

### Playground

`messages` is the conversation, `saves` the timers of zero milliseconds with the list each holds,
`stored` localStorage, `streams` the requests that can still deliver. What they deliver (`Chunk`, `Done`,
`BadChunk`, `StreamCut`, …) of any of them are applied to the last message, as `useApiRequest.jsx` does. `Hasty` says
whether a user can act before timers of 0 and 100 ms have run. The run has it FALSE; with TRUE, TLC finds
that a question sent between the click on *repeat* and its timer leaves two answers in the making.

A file may hold an answer in the making (`exportConfig` writes the messages as they are), and an import shows it as it is; a reload would repair it. `syncCustomBodyToMessage`
rebuilds the conversation from an edited request body, without the status of its answers. `Abandoned` says when nobody is left to end an answer: no request is open, and
one was cut, or the answer came from a file or from the list an edit had kept. `GenerationEnds` says that an answer in the making ends or is abandoned, also when another request has to end it.

### Console

`App.jsx` mounts one page at a time, and what a page's hooks keep is gone when the next is mounted. `Console`
has the variables `page` and `h1 … h12`; each page is an instance whose variables are the first of
these, by position, with names of its own inside its module. A step of the console is a step of the page
that is mounted. The instances that are proved about stand in `ConsolePages`, the others in `Console`, which extends it; the variables are the same. The pages share no state but the server's, and of that each module has the part
its page reads and writes, with the steps other users can take on it; so one run asks every page's
question without multiplying their states. A property of `Console` is a conjunction of the pages'.

In all pages a request is a member of a set (`jobs`, `gets`, `puts`), with what its handler's closure holds, from
the click to the answer. It may be answered in any order, refused, or lost; what the answer does is one
action, because JavaScript runs a continuation to its next `await` without interruption. Histories (`view`,
`calm`, `kept`, `count`) record whether two requests about one thing were under way together, or one failed:
the properties name these cases and hold in all others. That is not always because the code promises nothing there: in many of these cases it does go wrong, and a
property without the flag would be false. Section 5 lists them, and the hazards of `PROJECT.json` that a flag sets aside name no property, but the flag.

| Module | Page | State beside the server's | Steps |
|---|---|---|---|
| `UsageLogs` | `hooks/usage-logs`, `helpers/render.jsx`, against `service/text_quota.go`, `quota.go` and `relay/channel/ali/image.go` | one request's usage, the row written of it, both displays | `Charge` of each sort of request, `setLogsFormat`, the switch of the display |
| `ModelSquare` | `hooks/model-pricing`, `components/table/model-pricing`, against `relay/helper/price.go` | filter, group, display, paging, details with their timers | load, every filter, reset, view, page, open and close |
| `Dashboard` | `hooks/dashboard`, `helpers/channelAnalytics.js`, `components/dashboard` | inputs, what the charts were made of, selection, what is drawn | mount, refresh, search, window, choice, each answer |
| `SettingsForms` | `components/settings`, `pages/Setting`: the forms, as records | `inputs`, `row`, PUTs, GET | edit, submit, each answer, late answers, refreshes of the tab |
| `SettingsLists` | `pages/Setting/Dashboard`: four lists | the copy, `hasChanges`, selection, dialog | every button |
| `TwinEditors` | `SettingsChats`, `SettingsChannelAffinity`, `JSONEditor` | rows and text | edit either, switch, dialog, template, save, load |
| `PricingEditor`, `RatioSync` | `pages/Setting/Ratio` | prices, switches; differences, ticks | edit, batch, save; fetch, tick, confirm, save |
| `OAuthProviders` | `CustomOAuthSetting.jsx`, `controller/custom_oauth.go`, `oauth/registry.go` | table, registry, dialog, preset | open, preset, issuer, discovery, save, delete |
| `ParamOverride` | `ParamOverrideEditorModal.jsx` | list, old object, text | open, switch, every operation, save |
| `ConsoleTables` | `hooks/tokens`, `redemptions`, `users`, `models`, logs | rows, page, size, keyword, selection | load, search, turn, resize, switch, delete, batch |
| `EditDialogs` | eight dialogs of `components/table` | form, loading, timers | open, load, close, type, save |
| `RecordPanels` | seven panels of `components/table` and `topup` | rows, memoised columns, number of the request | open, turn, close, load, operate |
| `ChannelForm`, `ModelPickers` | `EditChannelModal.jsx`, `OllamaModelModal.jsx` | form and what survives it | open, modes, files, submit, confirm; fetch, choose, pull |
| `ChannelTable`, `ModelTests` | `hooks/channels/useChannelsData.jsx` | rows, filters, `requestCounter`; batches | load, search, switch; test, batch, stop |
| `KeyTable` | `MultiKeyManageModal.jsx`, `controller/channel.go` | rows by number | page, switch, delete, all at once |
| `UpstreamUpdates` | `hooks/channels`, `controller/channel_upstream_update.go` | pending, offered, ticked | detect, apply, ignore, for one and for all |
| `SignIn`, `SecureCheck` | `components/auth`, `helpers/api.js`, `useSecureVerification.jsx` | cookie and the three copies of it | every way in and out |
| `AccountPage`, `TwoFactor`, `Preferences` | `PersonalSetting.jsx` and its cards | what was typed, shared flags | every button |
| `TopUp`, `PlanPurchase` | `components/topup` | amount, price, dialog; plans, preference | amount, price, pay, redeem, transfer; order, choose |

`SettingsForms`, `ConsoleTables`, `EditDialogs` and `RecordPanels` describe many components that differ in a few
decisions (what is compared, what is reset, what is numbered, what reloads). Each component is a record of
those decisions, translated from its source, and the actions read the record. Of components with the same
record TLC takes one, and of a form's options one or two of each kind: nothing in the actions can
tell more apart.

---

## 3. The runs

| Run | Question | Instance | Distinct states |
|---|---|---|---|
| `desktop` | The program in both modes, with a free or a taken port: is no server left, is a taken port named, do start and quit end? | 2 attempts, 2 lines kept of 2, 2 timeouts, 2 windows, fair | 133,628 |
| `playground` | Two requests, streamed or not, against every operation: is only the last answer in the making, does what ended stay and survive a reload, does it end? | 2 requests, 4 messages, 1 edit, import or reload, fair | 210,519 |
| `console` | Every page: what does it promise about its own state? | below | 2,251,204 |
| `task_race` | Two masters with stale copies, crashes and database errors: is a task billed once, finally and in balance, as `TaskPromise` says? | 1 task paid from a subscription, 2 masters, prices 0 and 2, re-priced to 1, 2 faults, masters symmetric | 96,615 |
| `task_pages` | One row per page and a provider that may never answer: does every task end, is every failure refunded? | 2 tasks, 1 master, page size 1, 1 fault, fair | 72,034 |
| `task_kinds` | A Suno task and a task fetched in real time, a deletable channel: what is returned to the Suno task? | 2 tasks, 1 master, 1 reader, 2 fetches | 1,820,652 |
| `session_books` | A plain request and a websocket with different preferences, trust, fee, fall-back and a fault: does each cost its price, on both sides? | 2 requests, wallet 4, token 6, one subscription of 4, 2 events, 1 fault | 976,287 |
| `session_period` | Two subscriptions, one of them reset twice while requests are under way: is the quota a limit per period, does nothing revive, does everybody finish? | 2 requests, totals 2 and 4, prices 1 and 3, 2 resets, fair | 221,434 |
| `session_retry` | *violation:* is the refund idempotent? | 2 requests, 1 fault | – |
| `payments` | Two handlers, every kind of order, a fault: does the lock exclude, is an order credited once, and finally? Do the handlers use the lock as `OrderLock` specifies? | 2 goroutines, 1 trade, 2 mutex objects, 7 kinds, 1 fault, fair | 62,062 |
| `subs_overlap` | Two purchases at once without serial transactions: by how much can a limit be exceeded? | 2 requests, 2 plans with limits 1 and 2, 3 subscriptions | 1,215,310 |
| `subs_life` | Two buyers or administrators and the maintenance task, serial: does nobody lose a running upgrade, is everything due expired? | 2 requests, 1 task, 2 upgrading plans, 2 subscriptions, 1 fault, fair | 113,614 |

### Bounds

Every counter that could grow has a bound among the constants, tested in a guard:

* `MaxFaults` – database errors and crashes together. Two are needed in `task_race`: one
  master crashes between swap and refund, and the other, or the restarted one, fails too.
  Elsewhere one is enough because no handler reacts to the count of errors, except
  `refundWithRetry`, whose three attempts only `RetryForever`, its mutation, makes endless.
* `MaxFetches` – realtime fetches: two, so that a fetch can act on the result of another.
* `MaxResets` – reset times: two, so that a hold can be two periods old when it is settled.
* `MaxEvents` – websocket events: two, so that the second may find the balance too small. The calls after the loop are two by nature.
* `MaxSubs`, `MaxTime` – two subscriptions nest or overlap (three in `subs_overlap`, so that a limit of one is exceeded and tried again); one unit of time ends a short plan
  while a long one runs (`Duration` 1 and 2).
* `SweepLimit`, `QueryLimit` – page sizes: 1 with two tasks, so that a page is too small.

The bounds of the pages of `Console` are on what a user does, never on what the network does with it:

* `MaxClicks` = 3, `MaxTries`, `MaxOpens`, `MaxTyped`, `MaxSaves` = 2, `MaxSteps` = 3, `MaxEdits` = 4 – clicks, dialogs
  opened, edits, saves. Two of a kind are enough to be under way together, or for a dialog to meet what the one
  before has left; three where one of them has to prepare the other two. `MaxPuts` = 1 – submissions of the channel form on
  their way: a second one would send the same form again.
* `MaxRequests` = 4 – requests of the sign-in pages; `MaxOthers` = 1 – writes of another administrator.
* `MaxItems`, `MaxRows` = 3, `MaxRowEdits` = 3 – rows: a page of two is then followed by another.
* `MaxTokens`, `MaxOperations` = 2 – tokens of one sort in a request; operations of an override.

Quota is a small number (0 to 6). Nothing in the code but comparison, addition and the
clamp at zero looks at it, and the values are chosen to make every comparison go both ways:
an estimate below, at and above the price, a balance that covers one hold but not two.
Go's `int` quotas are 64 bits wide and far from overflow at any reachable value; overflow is left out.

Two of the conflicting actors are enough for the races listed: each of them is about a step of
one actor between two steps of another. The proofs of section 4 remove the bound for
the properties they cover.

### Deadlock and liveness

Deadlock is checked in every run but three: the desktop program really ends, and a page of the playground or of the
console stops when its user has done all the bounds let him do. `Rest` in `BillingSession` and `SubscriptionLife` is the state in
which every request has ended; it is a step that changes nothing and is enabled in no other state.

Fairness is what the runtime gives, never what providers, users or administrators may do:

* weak fairness of the steps of a handler, of a refund goroutine and of a master: a
  runnable goroutine runs, and the ticker of `TaskPollingLoop` and of the subscription task
  never stops; a crashed master is restarted (its loop starts from the beginning);
* `Age`: time passes;
* strong fairness of `EnterCreate`, `Acquire` and `EnterLeave`: `sync.Mutex` switches to
  starvation mode and hands itself to a goroutine that has waited for a millisecond;
* strong fairness of `Begin` in `SubscriptionLife`: a database queues the transactions that wait for a lock;
* `tryConnect`, the probes' answers or timeouts and the quit timer of the desktop program, and the end of a request and the
  timers of the playground: Node and the browser run what is due, and a connection ends at some time;
* `Notified` while not acknowledged: the four gateways repeat an unacknowledged notification.

`TasksEnd` (`EveryTaskEnds`, `FailureIsRefunded`) needs no answer of any provider: the sweep ends what is too old. It does need
`TimeoutEnabled`, the default, and leaves out what a provider has completed without finishing it (`LeftBehind`, see section 5). `BooksClose`, `PaidIsCredited` and `DueEnds` allow for faults, of which
there are finitely many; what a fault takes away for good is named (`tainted`, `lost`) and excluded. `GenerationEnds` excludes an answer that nobody is left to end (`Abandoned`). The console's pages promise nothing without an answer, so what "does not wait
for nothing" is stated as an invariant: a flag that holds a button has a request under way that will clear it.

---

## 4. What is proved

The proofs hold for every value of the constants that satisfies the named `ASSUME`s: any number of
tasks, masters, readers, goroutines, trades and mutex objects, requests, subscriptions and plans, any prices, any bound on faults. They assume no
fairness and no bound beyond those constants.

**`TaskBillingProofs`: `Typing`, `TypeCorrect`.** `TypeOK` alone is not inductive: the row
`WithStatus` makes of a listed copy is only a row if the copy was one, so what is listed, asked about, billed or fetched must exist
(`ViewsExist`, `AnswersListed`, `JobsExist`, `FetchesExist`), a row appears only when its request has ended (`RowsClosed`),
and an accepted task has a price and a provider status (`AcceptedSeen`). `TypeCorrect` is the invariant with these
conjuncts, `Typing` the part the runs check.

**Billed at most once: `OnceInvariant`, `AtMostOnce`, `FinishedForever`.** Why a compare-and-swap task is
billed at most once. `OnceInv` says: what a master has listed was running when it was listed, at the
price the row still has (`ViewsRunning`); a job belongs to a finished row and books exactly the
price back or the difference to the final price (`JobsFinal`); no two masters work on one task
(`OneWorker`); billing starts together with a final status (`BilledFinal`). The actions are first
reduced to the four shapes a step can have for such a task (`Frame`, `Lists`, `Birth`, `Win`), and the
invariant is proved against the shapes. A second winner would need a view with the final status,
which `ViewsRunning` excludes; this is the argument the code relies on without writing it down.

**The books and the promise: `BooksInvariant`, `BooksAreKept`, `PromiseKept`.** What the money of a task does. `LedgerBefore` follows it
through its request: until there is a row, wallet and token have paid the estimate, then the quoted price, or nothing again.
`LedgerAfter` follows it from the row on: unbilled it has paid the price of the row; the one job
`OnceInvariant` allows it moves first the wallet, then the token, by exactly the difference to the
final price, and a fault may end that job anywhere. A request that is given up is the one place where faults do more than lose money: `ReleaseLedger` bounds what the repeated
refund of a subscription can return by three holds, needs a fault for more than one, and gives the token no part in it. With these, `BooksKept` can be read off at the end. `PromiseKept` is the
refinement `Spec => KeepsPromise`: every step is looked at through the mapping of one task and is a step of
`TaskPromise` or a stutter. It needs `JobsFinal` (the amount of `Book`) and `BilledFinal` (nobody booked before), so
it rests on the same invariant. Both speak of tasks whose row is moved by compare-and-swap, as the properties do.

**Suno: `SunoInvariant`, `SunoRefunded`.** Suno rows are not moved by compare-and-swap: a master saves the whole copy it has listed, so none of
`OnceInv` applies to them, and two masters, or one that is interrupted between the refund and the save, can give a task back twice.
`SunoRefundsExactly` is therefore proved for one master that meets no fault (`OneHealthyMaster`) and for tasks on channels of their own, which are not
deleted, paid from a wallet (`SunoAlone`); `task_kinds`, where it is checked, is such an instance. `SunoInv` says, task by task, what has been moved at
each point of the request and of the master's loop: the copy the master holds is the row, unless the refund it is just
saving is the difference.

**`BillingSessionProofs`: `BillingInvariant`, `BillingTypes`, `NeverTooMuchBack`, `EveryPricePaid`, `AccountsTogether`, `EndedStayEnded`.** The
invariant has five parts besides typing.

* `Control`: how program counter, sources still to try, refund and consume record of a request fit together; among others, a
  subscription that holds something for a request has a *consumed* record of exactly that amount until it is given back.
* `Enough`: token and wallet still have all that may yet be returned. It needs no row lock, and `NeverTooMuchBack` follows from it
  for every database: whatever fails, crashes or is retried, a request never takes more out than was put in.
* `WithinTotal`: no counter is above its total, in whichever order holds, differences, refunds and resets commit.
* `OneTx`: no two transactions on subscriptions are open at once, and an open one has read what is there.
* `Booked`: at every point of its handler and its refund, a request without a fault and with its subscription in place has paid exactly what these have moved so far.

What a settled request has booked (`bill`) is its price unless it is `Short`: its subscription is used up. `RefusesBeyond` shows that a subscription that is still there refuses
nothing but to go over its total, and `ShortStays` that what was not charged then is not charged later. So `EveryPricePaid` is about the price, with this one exception.

The last two hold only where a transaction's `FOR UPDATE` makes others wait (`RowLocks`):
without it two transactions read one row and the later `Save` undoes the earlier. So
`EveryPricePaid`, `AccountsTogether` and `EndedStayEnded` have `RowLocks` as hypothesis, and the first three parts do not.

**The quota of a period: `PeriodInvariant`, `PeriodsWithinTotal`, `EveryPeriodKept`.** A counter that is reset while requests are under way has to be
compared with what the requests *of its period* have taken. `UsedCoversSpent`: the counter, plus what requests of earlier periods gave
back in this one (`stale`), is at least the sum of what those of the period have spent. The sum is a fold over the requests; the lemmas
`Sums` … `SumMoves` prove what a fold does when one summand changes, by strong induction over the subsets of `Requests`, which are
finite (`FiniteAssumption`). With `WithinTotal` follows `PeriodKept` where nothing has failed: `PeriodsWithinTotal` says it of every state
in which no request has met a fault (`tainted = {}`), `EveryPeriodKept` of every run without faults, which is what `session_period`
checks. `RowLocks` is needed because a lost update forgets a hold (section 5), and the absence of faults because a refund that is repeated takes from the counter
what others have spent (`session_retry`).

**`PaymentProofs`, the lock: `Invariant`, `Typing`, `Exclusion`, `OwnUnlock`, `EmptyMap`, `LockKeeps`.** The invariant has four parts
besides typing: `createLock` is held in exactly three places; whoever has been counted has the
mutex the map knows for his trade; the count of a mutex in the map is the *cardinality* of the set of its
users, and somebody uses it; whoever is inside holds the mutex. The cardinality is what lets `Drop`
conclude that the one who takes the count from 1 to 0 was the last. `LockKeeps` is the conjunction the run checks
(`LockKept`): exclusion, own unlock and the empty map.

**The handlers: `UsesTheLock`, `PayInvariant`, `PayTyping`, `AtMostOneCredit`, `SuccessMeansCredit`.** `UsesTheLock` shows that
every behaviour of `PaymentOrders` is a behaviour of `OrderLock`, step for step; so `Exclusion`
applies, and from it follows that what a handler has read of an order under the lock is still true
when it commits (`PayInvariant`). `AtMostOneCredit` is the end of that chain:

    PaySpec => OrderLock!Spec => []MutualExclusion => []PayInv => []CreditedOnce

**`SubscriptionLifeProofs`: `LifeInvariant`, `LifeTypes`, `PurchasesAreBounded`, `UpgradeIsKept`.** Typing already needs one fact that is not a type: `Last`, the
subscription whose group a user falls back to, is a `CHOOSE`, and there is something to choose only because a finite set of rows has one that
ends last. The rest is `Times` (no transaction and no job is ahead of the clock, so what it calls expired is expired) and `Reads`: with
`Serial` the only open transaction has read what is there, so the rows `AfterEnd` looked at are still true when it commits, from which `UpgradeIsKept` follows.

`PurchasesAreBounded` needs no `Serial`. `Bought` counts, plan by plan, the rows that are held together with the open transactions that have read too few of them to refuse:
this sum never exceeds the bound. A transaction that opens with room adds one to it while there is room; a commit turns a buyer into a row (`OneMoreBought`) and leaves the sum alone; whatever
ends, deletes or fails only lowers it (`FewerBought`, `NoMoreBought`). Counting is by cardinality over any finite set of requests.

**`DesktopShellProofs`: `ShellInvariant`, `ShellTypes`, `ServerEndsFirst`, `PortIsNamed`.** `Phases` orders what is known of the server: it was started
before it ran, its crash is explained after it closed, and one that could not bind has written the line that names the
port. For `PortIsNamed` that line must survive the limit on kept lines: it is the last one the server writes, and
the buffer drops from the front.

**`PlaygroundProofs`: `PlayInvariant`, `PlayTyping`, `OnlyTheLast`, `StreamedStored`, `EndedAnswersStay`.** A conversation is in several places at
once: shown, stored, in the queue of saves, in a dialog that remembers it. The invariant has three parts.

* `PlayTypes`: each of them is a list of messages, and only requests that were sent have written in one (`Sent`). The latter is what `StreamedStored` needs when
  a new request is sent: it cannot turn a stored answer into a streamed one.
* `Making`: only the last message is in the making, everywhere; while a timer is going to send a question nothing is (`resend`). It is proved for
  `~Hasty`: a user who sends a question within the hundred milliseconds before a repeated one goes out does get two answers into the making.
* `Saving`: the list that will be stored last holds every streamed answer that has ended. It holds for hasty users as well, since every
  step that ends a streamed answer queues the whole list it leaves behind.

What the network may do is reduced to one shape (`Writes`): the last message is replaced, only if it has not ended, and then saved, or not yet
ended, or the answer of a request without a stream. `EndedAnswersStay` is that shape read once more.

**`ConsolePages` and `Console`: `FormsAreTrue`, `ListsAreTrue`.** The console enters a page by the page's initial state and leaves it by no
step (the lemmas `…Init` and `…Next`), so what the steps of a page keep holds of the console while that page is mounted. `ConsolePages` has for each
page an invariant `…Inv` with three lemmas: the page starts in it (`…Starts`), its steps keep it (`…Steps`), it implies what the page promises
(`…Known`). Only then does `Console` look at all pages together. The invariants have one shape. Beside the types they say *who will put right
what is not yet true*: either what is shown is what the server has, or a request is on its way whose answer will make it so, and what
the request holds already is still what the server has.

* `FactorInv`, `PlansInv`, `PreferInv`: the shared flag is up exactly while a change runs; while the history is calm one request reads or changes a
  thing, what it was answered is what the account has, and what it would put back is what it had. The notifications, switches and
  language of `Preferences` are three such chains through one record of the account.
* `SyncInv`: ticks are offers of the rows listed, one per option and of a model one way to charge; while the question is open
  nothing new comes into conflict.
* `SettingsInv`: between saves the baseline is the server's, unless it may have changed unseen; what is sent when changed is as it was loaded unless this user edited it.
* `TestsInv`, `DashInv`: there is one batch, or one handler, and for each model that is not tested, or figure that is not what was searched for, it is known in which of its stages that handler will provide it.
* `SquareInv`: until the models are loaded nothing is filtered and the first page is shown; no filter names a vendor that is not listed.
* `ChannelsInv`, `TablesInv`, `KeysInv`: every answer that will still be shown is the page that is named, of what the server has, and whatever turns has something to
  wait for. Pages are cut from the ids in order; that a finite set of numbers has such an order is
  `PagesSorted`. For the keys one more fact is needed, that a row of a page is at the place in the channel it names (`KeysPaged`), because
  an operation names the place and not the key.

`ListsAreTrue` needs `MaxItems` to be a natural number (`PagesAssumption`), so that what a page is cut from is finite; the other pages need nothing of
their bounds.

**What the provers could not do at first.** A sequence filtered by `SelectSeq`, or sorted or folded by an operator of the community modules, has a recursive
definition behind it of which nothing can be concluded. `KeyTable`, `ChannelTable` and `ConsoleTables` therefore say *which places* of a
sequence remain, in order (`Sorted`, `Where`). Recursion over sets can be reasoned about: `SumMoves` (above) unfolds a fold over the subsets of
a finite set, by strong induction.

**Only model-checked.**

* Liveness and everything under fairness (`TasksEnd`, `BooksClose`, `PaidIsCredited`, `DueEnds`, `NeverHangs`, `GenerationEnds`): TLAPS does
  not reason about `ENABLED`.
* `RefundIsIdempotent`: what a comment says and the code does not do (section 5).
* `ConsoleTypeOK`, `PricesAgree`, `SavedComesBack`, `OwnRecord` and `NothingLost` of `Console`. Each is a conjunction over many pages, and is proved only
  when the last of them is: `PricesAgree` sums amounts over lists of lines, `SavedComesBack` and `NothingLost` read
  lists filtered by `SelectSeq` (`ParamOverride`) or folded (`TwinEditors`), and `OwnRecord` is about ten pages without an invariant yet.

---

## 5. Where the code and its documentation disagree

One run ends in a counterexample, to a sentence of the repository:

* **`session_retry`** – `model/subscription.go:1077`. The "idempotent" refund commits the amount in a transaction of its
  own before the record is marked; if the marking fails, the retry refunds again.

Seven more disagreements were found the same way and have no run of their own; the modules contain the steps that show them:

* The row lock of `PreConsumeUserSubscription` (`model/subscription.go:993`) is requested with `gorm:query_option`, which this
  version of GORM does not know, although a comment of `shouldTrust` (`service/billing_session.go:221`) relies on it. With `RowLocks = FALSE` two holds fit into the
  same quota: `PeriodWithinTotal` is violated without a fault.
* An answer that says `IN_PROGRESS` and `100%` (`service/task_polling.go:469`) leaves a row that both lists of unfinished tasks leave out
  (`model/task.go:294`, `:310`): it is never polled, timed out or refunded again. The comment of `sweepTimedOutTasks` (`:38`) says that it cleans up what has timed out,
  and in the next rounds what is left over. `LeftBehind` names these rows, and `EveryTaskEnds` does not hold without it.
* A comment of Waffo's handler (`controller/topup_waffo.go:343`) says that orders which failed for good are marked failed; the code does so for every status other than
  `PAY_SUCCESS`. When the payment succeeds afterwards, `RechargeWaffo` (`model/topup.go:403`) refuses it: paid, and never credited. `GivenUp` names these
  orders, and `PaidIsCredited` does not hold without it.
* The tasks of a channel that was deleted are failed in bulk and keep their quota (`service/task_polling.go:314`). The comment of
  `RefundTaskQuota` (`service/task_billing.go:143`) promises a refund of failed tasks, and that of `TaskBulkUpdateByID`
  (`model/task.go:420`) forbids this use. The properties of `TaskBilling` are about tasks whose channel stays, or say so.
* A websocket conversation never returns the estimate it held (`service/quota.go:157`), although a comment of its billing
  (`service/quota.go:206`) says that it may have to be returned. `PaysItsPrice` is about the other requests.
* A plan bought again before it ends leaves its owner in the upgraded group for good (`model/subscription.go:868`); the plan editor's
  help says that he goes back (`web/src/components/table/subscriptions/modals/AddEditSubscriptionModal.jsx:333`).
* Resetting the playground's settings without its messages says that these are kept (`web/src/components/playground/ConfigManager.jsx:137`), but
  the conversation is stored with the settings that are removed (`configStorage.js:119`).

Other observations, made while modelling, that no run claims:

* A failure that `tryRealtimeFetch` (`relay/relay_task.go:477`) writes first is final for the poller, so it is never refunded. `CasTasks` leaves these tasks out.
* When a settlement is refused (subscription full) the row records the new price all the same, and a later refund returns more than was taken (`controller/relay.go:658`). `unsettled` sets those tasks aside.
* A crash between Suno's refund and its `Save`, or a second master, refunds a Suno task twice (`service/task_polling.go:236`). `task_kinds` has one master and no fault for this reason.
* With `RowLocks = FALSE` a whole-row `Save` revives a subscription that was cancelled in between; `EndedStays` is checked with working locks.
* The violation fee and the refund run side by side; the fee may be charged first and meet a balance the refund would have raised (`controller/relay.go:176`).
* `sessionExpired` (`controller/topup_stripe.go:245`) logs that a top-up is not pending and saves it as expired nevertheless (`Expirable`).
* Waffo's failure path does not take `LockOrder` (`controller/topup_waffo.go:345`), and a refused link is saved as `failed` without looking at the row (`:242`); a completed order may end as `failed`, but is not credited twice.
* A settlement that a subscription refuses without any fault is logged only (`service/text_quota.go:330`): the request is charged its hold, less than its price (`Undercharged`).
* The refund of a rejected task from a subscription can pay twice or three times (`service/funding_source.go:122`), as `session_retry` shows for other requests (`RefundedAgain`).
* The usage of a websocket event whose charge failed half-way is held still and charged a second time after the loop (`relay/channel/openai/relay-openai.go:530`).
* With snapshots, two purchases at once exceed a limit by one (`model/subscription.go:449`); `subs_overlap` bounds what they can do.
* A playground file that was exported while an answer was in the making shows it so until the user stops it or loads the page anew (`web/src/hooks/playground/usePlaygroundState.js:188`).
* The usage log does not name the multipliers of a channel (`service/text_quota.go:250`, `:267`): of two images of ali it shows the price of one. `ShownIsCharged` says by which factor.
* Of an issuer under a path the dialog of OAuth providers shows the host alone (`web/src/components/settings/CustomOAuthSetting.jsx:226`); choosing a preset then generates endpoints of another issuer. `GeneratedFits` says which.
* `LockOrder` is a lock of one process. Two replicas that get the same notification are not excluded by it.
* `EpayNotify` acknowledges before it credits (`controller/topup.go:345`), so a fault there is final (`lost`).

Of the console:

* **Answers for another record.** A dialog closed over its load fills the next one with the old record
  (`components/table/tokens/modals/EditTokenModal.jsx:152`); panels whose columns were memoised reload another user's rows
  (`users/modals/UserSubscriptionsModal.jsx:326`, `topup/modals/TopupHistoryModal.jsx:237`); a key asked for channel A may be shown over channel B
  (`hooks/common/useSecureVerification.jsx:104`); a late discovery fills another provider's endpoints
  (`components/settings/CustomOAuthSetting.jsx:453`); the models fetched for one channel are offered to the next (`EditChannelModal.jsx:1094`); Vertex files and
  the batch mode survive the dialog (`:1338`).
* **Answers out of order.** Searches are not numbered, loads are only sometimes (`hooks/channels/useChannelsData.jsx:397`, `hooks/tokens/useTokensData.jsx:284`); a second
  batch of tests clears the stop flag of the first (`useChannelsData.jsx:1023`); the dashboard's windows and refreshes are not numbered, and a refresh draws once more from the
  click's window and selection when all its answers are there (`components/dashboard/index.jsx:113`); `preTopUp` confirms the price of the amount it saw (`components/topup/index.jsx:184`).
* **Part of a record.** Saving the notifications drops the sidebar, the language, the billing preference and the other kinds' details (`controller/user.go:1198`); the language
  is saved from the page's copy (`PreferencesSettings.jsx:86`); a detection of upstream models writes back all settings it read
  (`controller/channel_upstream_update.go:339`); the price editor writes eight whole options made of the models it lists (`useModelPricingEditorState.js:920`).
* **Nothing under way, and still waiting.** A refused switch of the system settings (`SystemSetting.jsx:266`), a lost mail request (`PersonalSetting.jsx:363`), a broken
  fetch of models (`EditChannelModal.jsx:1026`) or prices (`useModelPricingData.jsx`) leave the page behind its spinner.
* **"Saved", but not so.** A worker's or Telegram's secret that was never shown is stored as `<nil>` (`SystemSetting.jsx:578`, `:309`); `originInputs` is never renewed (`:322`); emptied
  fields of a provider are answered as updated and kept (`controller/custom_oauth.go:345`); deleting the disabled keys of a channel of which all are disabled enables them
  (`controller/channel.go:1626`); chats store a broken text (`model/option.go:197` stores before it parses).
* **Charts with fewer than seven points** show the last seven intervals instead of the data's (`helpers/dashboard.jsx:371`): with sparse hours, or with weeks, whose points are
  single days, earlier rows vanish from the bars while the total above them counts them; at the turn of a year the two name times differently and all bars are empty. `ChartsAddUp` states what is left.
  The average per minute uses inputs that were edited and not searched for (`useDashboardData.js:133`); a refused search closes its dialog over the old figures (`:431`).
* **Model square.** Reset and the mobile filter change the group of the filter but not that of the prices, and reset shows dollars on a site that has another currency (`helpers/utils.jsx:991`);
  the table's page size leaves the cards on an empty page (`PricingTable.jsx:126`); the timer that empties a closed detail may empty the next one (`useModelPricingData.jsx:313`).
* **OAuth sign-in** ignores a sign-out that failed (`helpers/api.js:253`), and the callback then binds the provider's account to the old user.

Hazards beyond those of `PROJECT.json`, at their lines. Modelled, as parts of the same properties:

* desktop: a timed-out probe is repeated twice (`electron/main.js:208`); `activate` makes a second window while the start waits (`:565`);
* playground: an answer without a stream goes to the last message if that is loading (`useApiRequest.jsx:240`); the question whether to regenerate puts an old conversation back (`useMessageEdit.jsx:84`);
* prices: a ratio of zero is handed on as one (`useUsageLogsData.jsx:506`); four functions write a row's summary and details (`UsageLogsColumnDefs.jsx:376`); a price derived at the first digit, a division by zero (`useModelPricingEditorState.js:709`); conflicts confirmed of one state of the ticks and sent of another (`UpstreamRatioSync.jsx:291`);
* editors: digits that were quoted become numbers (`ParamOverrideEditorModal.jsx:507`), a condition without a path is dropped (`:954`); a list is edited while its save is on its way (`SettingsFAQ.jsx:150`), a deleted row's key stays selected (`:189`);
* settings: a refresh joins an older GET (`helpers/api.js:64`); a form sends what it shows over what another administrator saved (`SettingsPaymentGateway.jsx:122`);
* tables: an operation's answer is applied to the rows of the click (`useTokensData.jsx:272`); the check for an empty page looks at those rows too (`DeleteUserModal.jsx:38`); `onClick={refresh}` hands on the event (`ChannelsFilters.jsx:56`);
* channels: whether a submission asks depends on refs of the channel loaded last (`EditChannelModal.jsx:1667`); its button is not blocked (`:2145`); a pull's clean-up ends the next one (`OllamaModelModal.jsx:421`);
* accounts: closing the purchase dialog while it pays frees the buttons (`SubscriptionPlansCard.jsx:101`); two quick choices of the preference roll back to the wrong one (`topup/index.jsx:398`);
* tasks: rows listed once a round (`service/task_polling.go:107`); half a refund (`service/task_billing.go:152`); a settlement refused after acceptance (`controller/relay.go:658`); every attempt fails (`:640`);
* sessions: a trusted user holds 0 (`service/billing_session.go:153`); a token update fails after the funding source moved (`:59`); a stop before the refund goroutine (`:101`);
* payments: `UnlockOrder` looks the mutex up again (`controller/topup.go:268`); subscriptions: upgrades nest (`model/subscription.go:477`).

Not modelled yet: `model/utils.go:73` (a stop, or a failed write, loses a batch of deltas), `model/user.go:775` (the cache is filled with a value older than later increments),
`model/channel_cache.go:88` and `model/channel.go:681` (rebuild against update, two keys disabled at once), `relay/helper/stream_scanner.go:104` (clean-up after five seconds),
`relay/channel/openai/relay-openai.go:518` (usage billed while readers write it), `middleware/rate-limit.go:32` (check and record are two commands), `model/redemption.go:133` (a code redeemed
twice at once), `relay/relay_task.go:477` and `controller/topup.go:245` (see above).

---

## 6. Assumptions, and what is not modelled

* **Database.** A statement is atomic; a transaction's reads are one snapshot and its writes one commit. `RowLocks` and
  `Serial` stand for what a database does beyond that: with SQLite (one writer) or a serialisable
  level they are true. The passing runs of `BillingSession`, and `subs_life`, assume it; `subs_overlap` shows the
  other case for purchases. Payment orders are modelled without any such help.
* **Redis and batch updates are off**, so that `users.quota` and `tokens.remain_quota` are single rows. Both belong to the planned `QuotaStore`.
* **Request ids are fresh**, so a pre-consume record is never found for another request. The weekly clean-up of records older than
  seven days is left out: no request lives that long.
* **Notifications are authentic.** Signature checks are not modelled.
* **One user** in `BillingSession` and `SubscriptionLife`: requests of different users touch disjoint rows. The batch of 300 users or rows never binds.
* **Prices are data** in the billing modules (`UsageLogs` and `ModelSquare` compute them). How ratios, tokens and pictures make a price is replaced by a choice from a small set, at the places where
  the code computes it.
* **Providers** answer anything they may at any time, or not at all, except that a finished task stays finished.

* **The user of the playground is slower than a timer** of 0 or 100 ms (`Hasty`), and its localStorage is not full.
* **One page at a time, one tab.** Two tabs of a browser share localStorage and the cookie; what the second does is another user's step.
* **A handler of the server is one step** in the console's modules, unless it asks a provider in between (upstream updates). Two administrators at once could, for
  example, leave an old slug in the registry of OAuth providers.
* **React** runs a continuation to its end, applies what it set, then runs the effects whose dependencies changed. Pages are not unmounted over their requests.
* **Texts, layouts, formats and currencies** are left out where no property is about them.

Not modelled, with the reason, component by component in `PROJECT.json`: the planned ones of section 7; and those without a
protocol worth a model – accounts and login (sequential handlers around library calls; the console's side of them is in `SignIn`), logs and statistics (write-only),
notifications (best effort), body storage (file input and output of one request), Codex credentials, provider adaptors
(translation of formats), channel affinity (a cache of preferences), options (configuration), the local proxy and the launcher script; of the
console, layout, texts, columns, the logs of tasks and drawings (which load and page as `ConsoleTables` has it), the wizard of the first start, the calendar of check-ins;
and the three projects beside `sanmao-api`.

---

## 7. The plan

Order: money first, then the console and the desktop program, then what chooses and limits requests, then streams.

| # | Module | Composes with | State | Properties |
|---|---|---|---|---|
| 1 | `TaskBilling`, `TaskPromise` | | done | at most once, balance, refinement, termination |
| 2 | `BillingSession` | | done | price, agreement, period limit |
| 3 | `OrderLock` → `PaymentOrders` | the lock's actions | done | exclusion, credited once |
| 4 | `SubscriptionLife` | | done | purchases bounded, group |
| 5 | `DesktopShell`, `Playground` | | done | termination, stored and finished answers |
| 6 | the pages of `Console` | one at a time | done | section 2 |
| 7 | `QuotaStore` (abstract: one counter) | refined by cache, batch updater and row; redemption and check-in as clients | next | no delta lost without a crash; the cache converges; a code is redeemed once |
| 8 | `ChannelPool` → `RelayRetry` | the pool's actions | planned | a disabled key is not chosen after the rebuild; retries are bounded and do not repeat a priority |
| 9 | `StreamScanner` | | planned | ends; no write after return; the usage seen is the usage written |
| 10 | `RealtimeSession` | `BillingSession`'s events | planned | each usage report is billed once |
| 11 | `RateLimit` | | planned | what concurrent requests can exceed a window by |
| 12 | Midjourney | a variant of `TaskBilling` | planned | at most once |

Theorems planned:

1. `OwnRecord`: the invariants of its pages (`SignIn`, `TopUp`, `AccountPage`, `EditDialogs`, `RecordPanels`, `ModelPickers`, `OAuthProviders`, `SecureCheck`, `ChannelForm`).
2. The refinement of the abstract counter by `QuotaStore` without crashes, once that module exists.
