# CrusaderBot in TLA+

A verification project for CrusaderBot, the Polymarket trading bot in
`src/projects/polymarket/crusaderbot/` (paths below are relative to it). It
models the parts of the bot that move money or shares, that decide whether it
trades at all, and that tell people what it did; checks small instances with
TLC; and proves the safety properties for every instance with TLAPS.

Contents: the system, the modules, the runs, the fairness, the disagreements
found, the proofs, what is only model-checked, what is not modelled, what else
was seen in the code, and the plan.

## The system

One Python process runs everything: FastAPI (web API and websocket of the front
end), the Telegram bot (updates one after the other with long polling,
concurrently with a webhook, `main.py:120`, `main.py:380`), APScheduler jobs
(`scheduler.py`, every job with `max_instances=1`) and a websocket client of the
CLOB. They share one PostgreSQL database and, beyond it, a few caches, locks and
`ctx.user_data`. The unit of atomicity is a SQL statement or a transaction;
between two of them, and around every call of the broker, of Telegram or of the
Polygon node, any other task can run, a call can fail, and the process can stop.
A restart keeps the tables and loses tasks, caches and undelivered frames.

| Component | Keeps | Operations | Talks to |
|---|---|---|---|
| Closing (`domain/execution/exit_watcher.py`, `domain/positions/registry.py`, `live.py`, `paper.py`) | positions, ledger, failure counters | watchers, close buttons, force close, expiry | CLOB, settlement |
| Redemption (`services/redeem`) | redeem_queue, markets, positions, ledger | detect, park, classify, queue, claim, settle, reap | Gamma, the chain |
| Trade entry (`services/signal_scan`, `services/trade_engine`, `domain/risk/gate.py`, `domain/execution/router.py`) | orders, idempotency_keys, positions | a candidate passes the open-position check, the gate, the router, the live or paper engine | kill switch, CLOB |
| Caps and bankroll breaker (`services/signal_scan`, `gate.py`) | the direction window, bankroll_state, baselines in memory | breaker, override, caps, top-up | trade entry |
| Kill switch (`domain/ops/kill_switch.py`, `domain/risk/kill_switch_exec.py`) | the flag in system_settings, a 30 s cache under a lock | pause, resume, lock, kill, reset; is_active | every gate |
| Order lifecycle (`domain/execution/lifecycle.py`, `integrations/clob/ws.py`) | orders, fills, positions, ledger | poll, retry, timeout; trade and update frames | CLOB |
| CLOB adapter (`integrations/clob`) | breaker state, token bucket | post and poll with retries | the exchange |
| Candle strategy (`domain/strategy`, `late_entry_v3`, `integrations/polymarket.py`) | cached books, one position | scan, age gates, exits | closing |
| Copy trading (`services/copy_trade`, `domain/copy_trade`, `jobs/heisenberg_realtime_sync.py`) | tasks, daily spending, idempotency rows, watermarks | monitor, fast track, edits of a task | trade entry |
| Scanner and feeds (`jobs/market_signal_scanner.py`, `services/signal_feed`) | publications, subscriptions, counters | publish, subscribe, enrol | Gamma, Heisenberg |
| Deposits (`scheduler.py`, `integrations/polygon.py`) | deposits, chain_cursor, ledger | scan, record, revert, confirm | Polygon |
| Withdrawals (`wallet/withdrawals.py`, `integrations/polygon_usdc.py`) | withdrawals, ledger, hot pool | request, approve, reject, transfer, refund | Polygon |
| Accounts (`users.py`, `webtrader/backend/auth.py`, `domain/activation/account_link.py`) | users, wallets, link codes | create, bootstrap, link, merge | bot, web |
| Activation (`domain/activation`, `bot/handlers/live_gate.py`, `activation.py`) | user_settings, one question per chat | confirm live mode, fall back to paper | bot, web |
| Wizards (`bot/handlers`) | drafts in `ctx.user_data`, user_settings, copy_trade_tasks | four conversations, typed numbers, task desk | web API |
| Monitoring and receipts (`monitoring/alerts.py`, `webtrader/backend/notification_prefs.py`, `services/trade_notifications`) | counters, cool-downs, topics of a window | page the operator, tell the user | Telegram |

What is hard here: two tasks acting on a row both have read (closers and
workers; poller and socket; two scan jobs; two watchers of one candle), a broker
or chain call whose answer is lost, a restart between two statements, a chain
that reorganises, a cached switch or book, one question slot for many
questions, and positions that no scan would ever look at again. `PROJECT.json`
lists 40 such hazards at their lines with the properties that cover them, and
says of the others why no property does.

What makes each component correct: a position is paid once, by one closer
(closing); a winner is paid in the end (redemption); a key is spent once and an
accepted buy is never forgotten (entry); the caps are passed by no more than
what was in flight, and a tripped breaker stops the tick (caps); a halt takes
hold and never blocks a job for good (switch); the stake is the position plus
the refund, and every order ends (lifecycle); the breaker is open exactly when
the failures say so (adapter); an entry is not later than the age gates allow
and an exit has a true reason (candle); a daily cap holds and no trade is owed
forever (copies); a transfer is credited once and in the end (deposits); a
refunded request is never paid (withdrawals); an identity stays where its owner
was told (accounts); live mode is confirmed (activation); what is saved was
shown (wizards); a problem is paged and an event is told (monitoring).

## Modules

| Module | Models | Correspondence |
|---|---|---|
| `StakeBook` | what the position ledger promises, with every actor left out | abstract specification: a stake is placed, held, settled once, with at most one credit |
| `RequestBook` | what a withdrawal promises its user: asked, approved, then given back or paid, for good | abstract specification |
| `PositionBook` | tables positions, ledger, markets | one operator per guarded UPDATE or transaction |
| `ExitWatcher` | `run_once` of the watchers, close buttons, `router.close` | `at[c]` is the statement closer `c` stands before, `on[c]` its row |
| `RedeemPipeline` | `redeem_router.py` and both workers | detector, hourly sweep, one instant worker per winner, each with the rows it has read |
| `Settlement` | the three above in one process, with entry and restarts | `CloserStep`, `PipelineStep`, `MarketStep`, `Crash` |
| `KillSwitch` | the flag, its cache and lock, the operator's commands | extended by `TradeEntry`, whose jobs are its readers |
| `TradeEntry` | a candidate from the open-position check to the position | `pc[j]` is the await job `j` stands at |
| `Bankroll`, `ScanJobs` | the breaker's rows and dictionaries; the two scan jobs with their caps | `pc[j]` and what a tick carries (`CarriedOK` in the proofs) |
| `OrderLifecycle` | one live order, its polls and frames | `poll` and `ws` hold what each task has read |
| `Broker` | circuit breaker, token bucket, the second sending | `call[c]` is a request, `circuit` the breaker object |
| `Deposits` | the deposit watcher on a chain of numbered blocks | one action per transaction of a tick |
| `Withdrawals` | requests, the operator, settlement tasks, the pool | one action per statement or chain call of a task |
| `Accounts` | the rows of users and wallets, link codes, merges | `task[w]` is a handler and its statements left |
| `CandleTrade` | one position of `late_entry_v3` from scan to exit | clock `left`, cached book `shelf`, candidate `pick`, watchers `hands` |
| `CopyTrade` | the monitor and the fast track over one leader | `pc[j]`, `todo[j]`: the await and the queue of a job |
| `Scanner`, `Feeds` | passes that publish; subscriptions and the lock of the cap | `hand`, `update[t]`: what a pass or an update holds |
| `Receipts` | on which surfaces a user is told of an open and a close | `report[r]` is a handler and the messages it still has to send |
| `Alerts` | what pages the operator and the user with a low balance | `task[t]` is a round between its reads and its send |
| `Activation`, `Wizards` | starts, stops and modes; the conversations composed with them | `run[a]` is a handler, a sequence of reads, questions and UPDATEs, one await before each |
| `MC*` | instances for TLC | scopes, see below |
| `*_proofs` | theorems | see below |

Definitions named `X_Something` before a definition `X` are mutated forms of
`X`, each a plausible bug of that code; they are part of no specification. Every
property of a passing run is violated when its mutant replaces the original.

Amounts are small numbers or counts of credits; prices appear where an exit or
a cap depends on them (in ticks), texts and logging nowhere. What Gamma, the
CLOB, Telegram and Polygon do is modelled from how the code calls them: any
answer the code distinguishes may come, and may be lost.

Where an MC module composes components that share no state (`MCMoney`,
`MCSignals`, `MCPositions`, `MCProgress`, `MCTradeEntry`), a constant set
`Scopes` names them and a behaviour runs one, chosen in the initial state, while
the others stay as they start. So a run is the sum of its components, never
their product, and fairness is stated within a scope. In `MCConsole` a scope is
a set of handlers of the one specification `Wizards`, again chosen once: what
interferes with what is in the same scope.

## Runs

Passing runs (each property has a mutant that violates it under the same cfg):

| Run | Instance and bounds | What it shows |
|---|---|---|
| `settlement_paper` | a winner on paper and a loser opened meanwhile, main watcher, instant and hourly worker, one failed statement | each closed position was paid once (`PaidOnce`); the market is flipped after its winners are queued and a done queue row has a settled position (`QueueIsHonest`) |
| `settlement_progress` | one paper winner with a force-close marker, hourly worker, one failure, one restart | it is settled in the end (`NothingStranded`), the marker is acted upon (`ForceCloseHonoured`) |
| `trade_entry` | entry: two jobs on one key, kill command, one failure, one restart; exit: a live winner opened meanwhile, a watcher, a close button, the hourly worker, one failure | `OneExposurePerKey`, `NoSilentBuy`; `ClaimExclusive`, `SoldOnce`, `ImplementsStakeBook` |
| `progress` | two jobs under pause and resume with one failure; a post and a poll through breaker and bucket; two checks, a stuck close, a poor user, one restart | `HaltTakesHold`, `AttemptEnds`; `ClosedIsCalm`, `Recovers`; `Paged` |
| `order_lifecycle` | an order of two units, two broker ids, two polls and two frames, one fault | `StakeAccounted`, `FilledIsMatched`, `NeverReopened`, `OrderEnds` |
| `money` | two transfers on three blocks, one reorganisation, fault and restart; two Telegram requests and, with long polling, one of the web for a pool of one unit, a fault and a restart; accounts in three plans: two people and the codes of one account, one person by every way with a fault, the emails of one person | `DepositsBooked`, `DepositCredited`; `ImplementsRequestBook`, `TelegramNeverOverdraws`, `ApprovedIsSettled`; `LinkIsKept`, `SeedLands` |
| `signals` | two jobs in five settings (direction window over three markets, two legs of one market with top-up, live caps, breaker with three balances, switches), one fault, one restart; one market and two feeds; two updates over three feeds with a cap of one; receipts of a position closed by two surfaces, of two markets, of a live position | `CapsHold`, `BreakerHolds`, `SwitchesTakeHold`; `PublishedWell`; `SubscriptionsHold`; `SomeSurfaceTells` |
| `positions` | copies: monitor and fast track over up to three trades in seven settings (cap; days and crashes; failures and filters; the track alone; the life of a task; switches; an ageing key); candles: four units of time, two presets, four books, one restart, two watchers | `SpendCap`, `Mirrored`, `StoppedTaskRests`; `EntryBounded`, `ExitHonest`, `CandleEnds` |
| `console` | one user on Telegram and on the web in seven scopes (modes; starts and stops; the preset wizard; the older wizard; typed numbers; new copy tasks; the task desk), one failed UPDATE | `LiveIsConfirmed`, `FallbackLands`, `SavedAsShown` |

Why the bounds are enough for their questions: every race listed under the
hazards needs two actors of the kind it is about, one object they meet on and at
most one failure between them, and each instance has those. A second object is
there where the code loops over objects (two positions of a market, two
transfers of a range, three markets of a direction window). Counters that only
grow (frames, polls, failures, restarts, blocks) are cut by a named constant in
the guard of the action that raises them. The theorems below remove these bounds
for all safety properties.

The type invariants (`TypeOK`, `...TypeOK`) are not in the configurations: they
are theorems (below). `CopyTypeOK` cannot be proved here, since the range of
`todo` rests on what `FlattenSeq`, `SetToSortSeq` and `SelectSeq` return, an
induction over data, and `WizardsTypeOK` has not been; both document the ranges.

## Fairness

| Specification | Fair | Because |
|---|---|---|
| `Settlement` | every watcher, worker, sweep, button in flight; `Delist`; `Age` of a queue row | APScheduler reschedules its jobs, asyncio goes on with a task, Gamma's list of open markets drops a market after its end |
| `OrderLifecycle` | the poll that is due; a connected socket delivers or is found broken | as above; the reconnection loop |
| `TradeEntry` | a job goes on or fails (strong: it competes for the lock); the operator's command; ageing of the cache | `asyncio.Lock` is first come, first served; every call has a timeout; the clock runs |
| `Broker` | the clock; a token is found (strong); calls end; orders are polled | httpx timeouts; the bucket refills |
| `Alerts` | probes, sends, cool-downs; repeated occurrences of a stuck close or low balance (strong) | the health route is polled, jobs run each interval |
| `Deposits`, `Withdrawals` | the watcher's step, new blocks; each settlement task and the mining of its transfer | the scheduler; the chain; tasks that a restart kills are not resumed, and `ApprovedIsSettled` says so |
| `ScanJobs`, `CopyTrade` | each job goes on | the scheduler |
| `CandleTrade` | time passes; the main watcher lists, looks and closes | the scheduler's interval of the exit watcher; the fast watcher promises nothing |
| `Wizards` | `AutoFallback` | the scheduler runs it every minute |

Nothing is assumed of a user, an operator, the exchange, Telegram or the chain
beyond what the table names; a liveness property that depends on one of them
says so in its premise (`Paged`: the link to Telegram stays up; `Recovers`: the
exchange stays up). `Wizards` and `TelegramNeverOverdraws` assume long polling,
under which updates are handled one at a time; `LinkIsKept` covers the webhook
with the condition stated in it.

## Disagreements with the documents

| Run | What the code says | What it does |
|---|---|---|
| `deposits_uncredited` | `migrations/047_deposit_confirmation_state.sql:21`: a pending row of the new code has `confirmed_at = NULL` | a reverted transfer that is seen again is reset to pending with `confirmed_at` set; the migration reruns at startup, confirms the row, and nobody credits it |
| `resend` | `domain/execution/live.py:255`: `ClobAuthError` is definitively pre-submit | the adapter sends again after a lost answer; the refusal of the second sending becomes a `ClobAuthError`, the row `failed`, and the router falls back to paper while the live order stands |
| `profit` | `domain/positions/registry.py:138`: the current price is that of the position's side | `exit_watcher._return_pct` inverts it for NO positions, so a falling NO token takes profit (listed as known in `reports/forge/r12-live-readiness.md:151`) |

## Proofs

Every theorem below holds for every value of the constants that satisfies the
named `ASSUME`s of the modules, and from nothing else; TLC evaluates those
assumptions in every run whose module extends them. Eight modules hold the 42
theorems that `PROJECT.json` lists, and the lemmas they rest on. All of them
follow one pattern: an inductive invariant, a conjunction of named parts; one
lemma per action (or per part an action can disturb); one theorem that combines
them. Where the steps of a handler are data (a sequence of statements still to
be run), `Finite(t)`, "`t` is a sequence over some set", stands for its type,
and the induction runs over the transitions, never over the sequence.

| Module | Inductive invariant | Theorems |
|---|---|---|
| `Settlement_proofs` | `IInv`, then `SoldInv`, `QueueInv` | `TypeCorrect`, `BookImplemented`, `NoDoublePayout`, `ExclusiveClaim`, `OneSell`, `QueueTellsTruth`, `RedeemedClosed` |
| `OrderLifecycle_proofs` | `IInv` | `OrderTyped`, `StakeConserved`, `FilledIsTrue`, `EndIsFinal` |
| `TradeEntry_proofs` | `EntryInv` | `EntryTyped`, `KeySpentOnce`, `BuysAreAccounted` |
| `Broker_proofs` | `BrokerInv`, `AlertsInv` | `BrokerTyped`, `BreakerIsCalm`, `AlertsTyped` |
| `Money_proofs` | `DepositsInv`, `WithdrawalsInv`, `AccountsInv` | `DepositsTyped`, `DepositsAreBooked`, `WithdrawalsTyped`, `RequestsImplementBook`, `NoPayAndRefund`, `TelegramIsCovered`, `AccountsTyped`, `LinkStays`, `SeedReaches` |
| `Positions_proofs` | `CandleInv`, `SpendInv` | `CandleTyped`, `EntryIsBounded`, `ExitIsHonest`, `CapOfTheDay` |
| `Signals_proofs` | `ScannerInv`, `FeedsInv`, `ReceiptsInv`, `CountInv`, `BreakerScanInv` | `ScannerTyped`, `PublishedOnceAndSynced`, `FeedsTyped`, `FeedsAreCapped`, `ReceiptsTyped`, `OwnerIsTold`, `ScanTyped`, `CapsAreKept`, `BreakerStops` |
| `Console_proofs` | `ConsoleInv` | `ConsoleInvariant`, `LiveConfirmed`, `ShownIsSaved` |

### The arguments

**Settlement.** The statements of every closer and worker are steps on one row
(`RowStep`), so a property of the book is proved once per kind of row step and
not once per actor. `IInv` needs more than types: `PaidOnce` (the ledger holds
one credit per closed position), `ClaimsHeld` (a claimed row has one closer that
stands behind the claim), and `ReadsCurrent`, what a task read as closed is
still closed. The last one is the reason the workers may act on rows they read
several statements ago. `BookImplemented` is the refinement to `StakeBook`:
initial states map to initial states, each row step to one of its steps or a
stutter. `OneSell` adds `SoldInv`: until a call has failed, a row whose shares
were sold is claimed or closed. `QueueTellsTruth` has the hypothesis
`PaperBook`, that no position is live and no winner is opened late (losers may
be); run `settlement_paper` satisfies it. Both are needed: a live
close in flight lets the worker mark a queue row done over an open position
(`redeem_router.py:349`), and a winner inserted behind the classification's
snapshot is never queued.

**OrderLifecycle.** Six parts: the broker's own book is consistent, the row's
states and amounts agree, what a poll read is not ahead of the broker, frames on
the network are credible (no frame reports more than the broker matched), and
the same of the socket's and REST task's locals. `StakeConserved` then follows
because every terminal transition of the row refunds what was not matched in the
transaction that ends it; `FilledIsTrue` because a filled row was written from a
credible frame or poll.

**TradeEntry.** `OneHolder` (of two jobs on one key at most one is past the
INSERT of the order), `RowTells` (what the state of the order row says of the
buys and of the position), `HolderTells` (what the job behind the row still
knows of it, though the operator may have cancelled it meanwhile). A refused
call whose buy stood after all is a `hidden` key, and `RowTells` excepts those.
`KeySpentOnce` proves `OneExposurePerKey` and `BuysAreAccounted` `NoSilentBuy`.

**Broker.** `AttemptsLeft` bounds the sendings of a call; `ClosedIsCalm` is
inductive with it. Alerts: `AlertsTyped` needs `PagesAreKeyed`: a page under way
carries the key it was dispatched under and something it is about.

**Money.** Deposits: `LedgerMatchesDeposits` (a credit per confirmed row) is
inductive by itself; `CursorCoversRecorded` needs `ChainKnown` and `ScanCovers`
(while a scan is under way and every log could be recorded, a transfer in its
range has a row or its log is still to be processed). Withdrawals: every row has at most one task behind it,
`AllConsistent` (status, refund, transfer and task agree), `BotAlone` (with long
polling the bot handles one confirmation at a time) and `StillCovered` (a
confirmation that passed the balance check is still covered as long as no
request was made on the web, whose debits do not wait for the bot).
`RequestsImplementBook` is the second refinement: `AllConsistent` tells in which
phase of `RequestBook` a request is, and each action of a task, the operator or
the chain is one move of that phase, together with its unit of the balance, or none. Accounts: `Apart` and `OneTelegram`
(a Telegram id belongs to one usable row), `OneUsable`, `AllFit` (the statements
a handler has left fit the rows it has read) give `LinkIsKept` and `SeedLands`.
`LinkIsKept` holds when updates are serial or no account holds two usable codes:
with a webhook, two codes of one account and a redemption held up in between,
the unguarded UPDATE of `account_link.py:213` tombstones a row that has been
linked since.

**Positions.** `CandleInv` follows a candidate from the market's clock through
the record, the scan's reads and the watcher's hands. `EntryIsBounded` assumes
`TobStale # 0`: the value 0 disables the gate (`config.py:567`, default 2000).
`SpendInv` counts, by sums over the jobs, the amounts between the check of the
cap and its record: what was copied is at most what is recorded, about to be
recorded, or lost by a fault or a restart; and what was copied or let through is
at most the cap, one more, and what was lost. `CapOfTheDay` is `SpendCap`.

**Signals.** Scanner: `HandTells` and `HeisenbergReads`, what a pass holds
between its reads and its INSERT is of a synced market that has no publication
yet. Feeds: `LockTells` (only the task about to insert holds the advisory lock)
and `RoomIsLeft` (while it does, there is room for its row). Receipts:
`TopicTells`: as long as an owner is owed a message, whatever keeps a report
silent (an entry of the cache, a row closed already) comes with another report
that is still going to speak.
ScanJobs: `CountInv` splits the caps into a count per direction and one of open
positions, each with the candidates in flight that have passed it; `BreakerScanInv` says that
the row and the dictionary of one mode carry the same baseline, and that what a
tick cleared the breaker with was above it.

**Console.** A handler in flight is a sequence of reads, questions and UPDATEs.
`ConsoleInv` is about these programs: what is left of a handler never writes
live mode (`Harmless`), or is the end of one whose owner has confirmed
(`Cleared`); what a save holds is what its review showed (`Saving`,
`Reviewed`). Each way of starting a handler gives a program of one of the two
kinds, and each step leaves its tail in the same kind.

### Only model-checked

The liveness properties (`NothingStranded`, `ForceCloseHonoured`, `OrderEnds`,
`HaltTakesHold`, `AttemptEnds`, `Recovers`, `Paged`, `DepositCredited`,
`ApprovedIsSettled`, `SwitchesTakeHold`, `Mirrored`, `StoppedTaskRests`,
`CandleEnds`, `FallbackLands`) rest on fairness and so on ENABLED, which the
provers cannot reason about; TLC checks them on the instances above. Every
safety property a passing run checks is stated by a theorem.

## Not modelled

| Part | Why |
|---|---|
| Wallets and custody, fees, referrals, reports | cryptography and I/O, single-statement bookkeeping, read-only |
| Web front ends, MT5 and TradingView folders | they hold no state of the trading bot |
| Closing | partial sells, the profit that is written, the resolution horizon |
| Live orders | rows without a broker id, the disabled USE_REAL_CLOB and ENABLE_LIVE_TRADING branches, the reconnection backoff, rounding of prices and shares |
| Trade entry | the gate's checks that read only constants or market data are one refusal (the caps and the breaker are in `ScanJobs`); the kill switch's history and its messages; two operators at once |
| Scan jobs | sizes, the Kelly fraction, the sums of the drawdown, the resume of the queue (its phase is not reached) |
| Candles | sizing, volume and liquidity gates, the horizon guard, the library strategies (none is registered) |
| Copies | how a copy is sized, leader rankings, the older scan of `domain/signal/copy_trade.py` (nothing reads its result) |
| Feeds | scores, the evaluation of publications (no job calls it) |
| Deposits | the sweep to the hot pool, the legacy scanner, users' addresses |
| Accounts | passwords, tokens and their age, user names |
| CLOB adapter | signing, headers, the market data client |
| Monitoring | texts, the audit log, summaries and reports |
| Activation and bot | the checklist's gates one by one, menus and read-only screens, handlers no registration reaches (`start.py`'s ConversationHandler, `onboarding.py`, the old wizard states of `copy_trade.py`) |
| Market synchronisation, web API, scheduler | only what the modules above read or call |

## Also seen in the code

Observations made while modelling. They are behaviours of the models too, and
the properties are stated around them; no document of the repository says
otherwise, so they are not in the table of disagreements.

Closing and redemption: a live order that is retried after slippage on the NO
side posts a SELL where the first post was a BUY (`lifecycle.py:701` against
`live.py:267`); a past-due market without a price is refunded flat before the
official result (`exit_watcher.py:610`); two winners of one condition redeem it
twice on chain, at the price of gas (`redeem_router.py:455`); a refund may be
written for an order that was matched meanwhile (`lifecycle.py:718`).

Entry and caps: a failed read of the exposure lets the cap be exceeded
(`gate.py:455`); the drawdown counts open capital as loss; the bankroll's
baseline is the first balance seen when sizing is off, and is another one after
a restart; both legs of a market can be opened by two jobs
(`signal_scan_job.py:1219`); queue recovery would execute without the gate
(`signal_scan_job.py:1645`, not reached); the kill command tells the operator
that it is active although every statement failed (`kill_switch_exec.py:68`).

Orders and adapter: a half-open breaker lets every caller through, a late
success closes an open breaker, a late failure pages again; `get_usdc_balance`
goes around the breaker.

Copies and candles: the gate records the idempotency key, so a fill that raises
afterwards loses the copy; a crash between the fill and `_record_spend`
undercounts the day; one task that raises ends the round of the older monitor
(`services/copy_trade/monitor.py:30`); a book served from the 30 s cache is
stamped fresh, so the age gate never sees its age; the two watchers share the
count of failed prices; a force exit is judged by the user's present settings.

Signals: enrolment ignores the cap and unsubscribing takes no lock
(`signal_feed_service.py:308`, `:362`); the alert surface ignores
`notifications_on`, the watcher and the buttons report another's close as theirs,
a slow Telegram duplicates a message (`notification_prefs.py:307`); the low
balance alert arms its hour although its message failed, overlapping health
probes count a failure twice.

Money: with a webhook two confirmations overdraw a balance (`wallet.py:290`); a
tombstoned account stays usable (`account_link.py:208` against
`migrations/065`), and `merged_into` is read nowhere; `register_email` is not one
transaction although its comment says so (`auth.py:208`);
`backfill_missing_wallets` has no caller (`users.py:347`).

Console: a question that is left keeps its slot until the next one
(`dispatcher.py:132`); `setup.py:364` accepts a capital below one; the lock freezes
the desk for every later command (`bot/messages.py:708`); a nickname takes the
label of a menu button; enabling a preset on the web breaks the assumption of
`presets.py:415`.

## Plan

Done: the modules and runs above, every safety property of a run as a theorem.
Left, in this order:

1. Settlement without `PaperBook`: what `QueueIsHonest` still says of a row whose
   position is live.
2. The safety halves of the liveness properties: what a restart or a stop may
   never undo (`FallbackLands`, `SwitchesTakeHold`, `ApprovedIsSettled`).
3. The sweep to the hot pool, and partial sells.
