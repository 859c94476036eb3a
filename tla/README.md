# Verification of the trading application

TLA+ models of the trading core in `src/app`, the TLC runs that check them on
small instances, and TLAPS proofs of what holds for instances of any size.
Source references are to files under `src/`.

1. The system  2. The modules  3. The runs  4. Fairness  5. The proofs
6. Where the code does not do what it says  7. Limits  8. Not modelled  9. Plan

## 1. The system

Stock-screener alerts arrive by webhook; for each the program decides whether
to enter trades, places orders at a broker (Zerodha or Dhan), follows the open
positions tick by tick, books partial profits at targets and exits at stop
losses, trailing stops, by alert, by hand, at the end of the day or when the
kill switch is set.  In the split deployment (the `*_service.py` files and the
dashboard's `main.py`) several processes share one Redis and nothing else; in
the single-process deployment one event loop does everything.  A service is
one asyncio event loop with a few threads; two steps of one service interleave
at every `await`, two services anywhere.

### Inventory

**Order operation locks** (`app/order_locks.py`, scripts in
`app/redis_store.py:190-400`, `OrderWorker` in `app/trade_engine.py:930-1000`).
State: a Redis key per user, symbol and action that holds a token and has a
TTL; a registry of leases per process; a watcher task per lease; the kill
switch; the order worker's queue.  Operations: acquire, track, renew, verify
before a submission, release, close at shutdown.
Hard: the event loop may stall past the TTL; watcher, operation and worker
interleave; cancellation may come at any await; a process may die holding a
key.  Correct if: a key is freed only by its TTL or its owner, no operation
submits after its lease ran out, an operation that lost its key is stopped, a
key nobody owns comes free.

**Order execution** (`trade_engine.py:1600-2124`, `on_order_update` 3290-3320).
State: broker orders, the cache of updates, total filled, attempts.  Operations:
place, wait for the final status, read order book and trade book, cancel,
retry with the remainder, alarm by the kill switch.
Hard: fills race cancellations, updates are late or repeated, replies to
placements are lost, queries fail, a retry fails after earlier orders filled.
Correct if: the orders of a request never trade more than was asked, its
result is true, and nothing is left at the broker without the alarm.

**Execution queue** (`alert_service.py`, `execution_service.py`, queue methods of
`redis_store.py`).  State: Redis lists of waiting and claimed jobs, the dead queue,
the alert history's row, the worker's lease, the kill switch.  Operations: record and
enqueue an alert, claim, execute, record, acknowledge; at a start, mark what was left
behind.  Hard: death between any two writes, a stall past the lease so that two
workers overlap, malformed jobs.  Correct if: orders of an alert are sent at most
once, nothing is acknowledged unrecorded, uncertainty is marked before new entries,
every queued job is settled.

**Alert history** (`redis_store.py:1020-1180`).  State: a Redis list of rows,
newest first.  Operations: `save_alert` (optimistic, WATCH/MULTI),
`update_alert_status` (delete and rebuild), clearing.
Hard: several services write it.  Correct if: a save loses nothing of what
others wrote, an alert has one row, a save ends.

**Position lifecycle** (`trade_engine.py` from 3157, `reconciliation_service.py`,
`main.py:1555-1580`, `redis_store.py:931-956`).  State: shares at the broker, a
row in Redis, an object in the memory of each engine, in-flight flags, the exit
lock.  Operations: tick, target booking, exit, square-off, reconciliation, the
unlocked write of the position a tick returned.
Hard: five sources of exits, in several processes, with copies of different
age; lost results; death between an order and its record.  Correct if: no more
is sold than is held, one order at a time, no position is written off while
shares are held, the square-off reaches every position.

**Signal intake** (`services/signal_intake.py`, `job_queue.py`).  Where one process
does everything: a bounded queue in memory, workers, a task per job, a future per
caller, the alert's row.  Operations: submit, put, take, save, decide, set the kill
switch, answer, start, stop.  Hard: a cancellation may reach a task in any of its
awaits; a write may fail while a cancellation is handled; `stop` waits for workers
that go on.  Correct if: no decision is cut off silently, an answer is what the row
says, every caller hears, `stop` ends.

**Entry and breakout watches** (`on_chartink_alert` in `trade_engine.py`,
`services/breakout_monitor.py`, `redis_store.py:219-290`).  State: the entry lock,
the alert's daily counter, a record per watch (WAITING, EXECUTING, DONE), the open
row and the object in memory.  Operations: filter, arm, find the level, price, claim
by compare-and-set, count, order, record, finish, poll, alarm after 90 seconds,
recover.  Hard: the monitor's check, the worker's alert and the alarm race on one
record and one symbol; the lock may be lost with the order out; the row of a filled
entry may not get written; a restart finds a claimed watch.  Correct if: a symbol is
entered once, the limit holds, a watch is executed once and ends, and nothing that
the program has not forgotten is lost without the kill switch.

**Market feed** (`market_feed_service.py`, `main.py:1540-1760`, `dhan_broker.py`
from 790, `kite_broker.py:14-80`).  State: the stored token, the subscription queue,
the health record, the feed object, a receiver thread with its socket and lists,
the queues of ticks.  Operations: refresh, restart, subscribe, confirm, publish,
revive, connect, drop, submit a tick, handle it.
Hard: two loops restart one feed, a thread calls back into another loop, a stop
may find a thread whose loop has not begun, queues overflow.  Correct if: the
packets of one receiver at a time are taken, no reported subscription is lost, a
dead feed is reported and comes back, ticks are handled, an overflow blocks
entries.

**Stop rules** (`trade_engine.py`, `_on_tick_unsafe`).  State: stop loss, trail,
best price, targets hit and booked, adds, in memory and in the row.  Operations: a
tick, a pyramid add, a crash that reads an older row.  Correct if: stops only
tighten and none is passed over.

**Strategies and backtest** (`custom_strategy.py`, `backtest.py`).  State: candles,
the sweep that waits, the trend, the trade.  Hard: a candle may hold stop and
several targets; a sweep fires late.  Correct if: the stop is on the losing
side, the trail tightens, and a backtest does what the live engine does.

**Turnover ranking** (`turnover.py`, `turnover_service.py`).  State: a book of
quotes, a lease, a snapshot.  Hard: silent leaders, yesterday's volumes, prices that
fall, late publishers.  Correct if: what passes is near the top by today's trades,
and snapshots are not replaced by older ones.

**Other parts**, which are not modelled (section 8): Telegram messages (claims
with expiry), the quote budget (one slot, a priority flag), the daily cleanup of
anything but the history, the API and its websockets, authentication, the broker
adapters, sector ranking, the memory store.

### How the parts interact

```
webhook -> ExecutionQueue (split) --+
        -> SignalIntake (single) ---+-> EntryPath -> OrderLock -> OrderExecution -> broker
                 |                        ^   |                        ^
            AlertHistory          WatchOnce   |  Turnover (a filter)   |
                 ^                            v                        |
                 +-- update_alert_status -- PositionLifecycle, PositionExits
                                              ^         ^
          MarketFeed -> TickPath -> StopRules +         +-- alerts, user, clock,
                                        |                   P&L limits, order updates
                             Backtest <-+-> Strategies, SweepScan
```

The kill switch connects them: a lost lock, an uncertain order, an interrupted
decision, job or watch, a dropped tick and a P&L limit set it, and a set switch
refuses entries (never exits).

## 2. The modules

| Module | Models | Relation to the others |
|---|---|---|
| `OrderLock` | locks, leases, watcher, guarded submission | – |
| `OrderIntent` | the promise of an order request: one quantity is traded, the answer is true | abstract |
| `OrderExecution` | placing, waiting, reconciling, cancelling, retrying | implements `OrderIntent` (`ImplementsIntent`) |
| `ExecutionQueue` | intake, worker, recovery, lease of the split deployment | the engine's work on a job is one step (`SendOrders`) |
| `SignalIntake` | intake, queue and workers of the single-process deployment | the decision is one step (`Decide`) |
| `AlertTable` | the alert history as a table of one row per alert | abstract |
| `AlertHistory` | the writers of the list, command by command | implements `AlertTable` if nobody rebuilds the list |
| `WatchOnce` | the promise of a breakout watch: armed, committed to one order, settled | abstract |
| `EntryPath` | an alert's or a watch's entry, the monitor, restarts | implements `WatchOnce` (`ImplementsWatchOnce`); the lock is `OrderLock`'s, the order `OrderExecution`'s |
| `PositionLifecycle` | one position in several services | the exit lock excludes, as `OrderLock` shows; an order has the results of `OrderExecution` (`Outcomes`) |
| `PositionExits` | P&L limits, kill switch, square-off of what only the broker knows, late order updates | extends `PositionLifecycle`, composes with its actions |
| `MarketFeed` | the Dhan feed: loops, restarts, receiver, subscriptions, health | – |
| `StopRules` | what a tick does to a position: operators | used by `TickPath` and `Backtest` |
| `TickPath` | the tick queues of both brokers, the rules, the row, crashes | extends `StopRules` |
| `Strategies` | what the six strategies say of a candle: operators | used by `SweepScan` |
| `SweepScan` | the scan of the two liquidity sweeps: operators | extends `Strategies` |
| `Backtest` | warm-up, signals, trades of a backtest | extends `SweepScan`, has `StopRules` beside it |
| `Turnover` | book, lease, snapshots, decision | – |

`MC*.tla` hold the constants of the instances, `*Proofs.tla` the theorems.  A
definition whose comment begins with "Mutant" is a plausible bug; it is used
nowhere in the specification, and stands there because each property is tested
by exchanging it for the definition that follows.

**OrderLock.**  `lock`, `fresh`, `kill` are Redis: the token under a key, FALSE
once its TTL ran down, the switch.  `pc` is the operation's coroutine: granted
(the lock script ran, `track` did not), work, queued (in `OrderWorker.q`),
cleared (the worker's `verify_current` passed), sent, unwinding (the `finally`
that releases), ended.  `watcher` is the task made by `track`, `worker` says
that the process's `OrderWorker` runs.  `lapsed` is history: tokens whose key
went.  `Acquire` is the lock script; `Verified` the renewal before a
submission; `Renew`, `RenewFails`, `LossHandled`, `Cleanup` the watcher;
`StopWorker`, `CloseLeases` the shutdown, in the order of `main.shutdown`.
Every task is in a process of its own, which is the weakest setting.

**OrderExecution.**  `status`, `size`, `filled` are the broker's orders.  `cache`
is `order_updates` in memory, `snap` what the wait works on, `late` that the
deadline has passed.  One pass of the loop of `_place_order_with_execution` is
`Place`, a reply (`PlaceReplied`, `PlaceWithoutId`, `PlaceRefused`,
`PlaceLost`), `Look`/`Poll` until final or late, `ReadOrderBook`,
`ReadTradeBook`, perhaps `AskToCancel` and a second wait, then `Settle` or
`GiveUp`, and `Return`.  `Update` is the websocket or postback handler and may
deliver any state the order was in, again, or late.  `Fill`, `CancelOrder`,
`RejectOrder`, `Accept` are the broker's.  `Interrupt` is the task's cancellation.

**ExecutionQueue.**  `queue` and `processing` are the Redis lists, `todo` what a
starting worker found, `pc` and `job` the worker's place, `expired` the jobs
whose age limit passed, `sent` counts how often a job's orders went out.
`LossNoticed` is the lease heartbeat; `stalled` is history: a lease ran out
while its worker only stalled.

**SignalIntake.**  `call` is what a caller's `submit` does and how its future
ended, `stage` where a job's task is, `verdict` what the decision came to,
`outcome` how the task ended.  `cancelled` keeps apart the cancellation of a
worker and the moment its task sees it (`PassOn`): only a decision does
something then, any other write may or may not have been carried out
(`MayHaveWritten`).  `Crews` are the workers of the first `start`, and of the
one that a `submit` makes after `stop`.

**AlertHistory.**  A saver goes through WATCH, LRANGE, MULTI/EXEC; `touched`
holds the savers whose key changed since WATCH.  A marker reads, deletes and
rebuilds.  A row has an alert and a result, which stands for all fields that a
save changes.

**EntryPath.**  `Calls` are the worker's coroutines, a watch stands for its own
check.  A caller goes from lock through guard, filter, level, feed, check (a watch is
claimed), limit, send and order to record, and on every path through finish (which
gives the watch its result) and unlock.  `phase`, `level`, `result`, `count`, `row`,
`lock` and `kill` are Redis; `mem` is the engine's `positions`; `held` is the
broker's.  `LeaseLost` is what `OrderLock`'s watcher does to a call, `Cancelled` what
its caller does then.  `Record` may fail to write the row, which the code swallows:
the entry is then `unwritten`, in memory only, until a later tick writes it
(`Rewrite`).  `Die` loses the memory, so that an unwritten entry is `forgotten`
(history), and leaves to the broker what becomes of an order; `Restart` is the
worker's and the monitor's recovery.  `Close` and `UserResumes` are the rest of the
program and the user, who reconciles before clearing the switch.

**PositionLifecycle.**  `held` is the broker's truth, `loose` shares of orders
nobody waits for.  `row` is Redis, `obj[p]` the `Position` in an engine.  A tick
in `p` goes through targets, book (lock taken), booking (order out), the exit
decision and `TickWrite`.  An exit is a task: begin, lock, send, wait.  `rec` is
the reconciliation: read, ask, check, write.  `Outcomes` are those of
OrderExecution: full, part, rejected; "lost" (the placement was lost);
"uncertain" (the cancellation was unconfirmed, the rest may still fill).

**PositionExits** adds `kill`, `named` (how many shares the order sold that the
object's `exit_order_id` names) and `counted` (history: an update was applied).
`OrderUpdate` is `_recover_exit_update`.  `Breach`, `SetKill`, `List` are the
P&L monitor and `trigger_kill_switch` with `squareoff_all_positions`; `ManualX`,
`BySight`, `AskNet`, `Sold` are `manual_squareoff_zerodha` for a position that
the program knows, and for one that only the broker knows.

**MarketFeed.**  `pc["main"]` and `pc["health"]` are the two loops of the service;
both go through `StopFeed` and `StartFeed` (`restart_selected_feed`, under
`DHAN_RESTART_LOCK`).  `socket`, `instruments`, `wire` are the receiver's, which is
"new" until its thread's loop runs (`Begin`); what it tells the service's loop is in
`callbacks`, in order; health writes are tasks of their own (`saves`), in no order.
A stop takes the receiver off the ticks (`takers`), but may leave it running
(`LeftBehind`): one that had not begun goes on as if nothing had been said, one that
runs may close later than the stop waits.  These are `strays`; they connect, drop and
end, and like every receiver write `dhanConnected` and the health record (`Say`).  A
request is `Take`, `Ensure`, `Subscribe`, `Transmit`, `Acknowledged`, `Confirm`, or
`PutBack`.

**StopRules** has prices as distances in the direction of the trade, from the
signal price, so that a BUY and a SELL are one case.  `OnTick` is the set of
positions that a tick may leave: an add (`Pyramided`), the classic rules
(`ClassicTick`), the ladder (`LadderTick`) with the results its bookings may
have.  **TickPath**'s `Submit`, `Wake`, `Take`, `Handle` are
`KiteCallbackQueue`; `Deliver` is the Dhan receiver that waits for room.  `row`
is written always (Dhan), or when something changed and otherwise perhaps
(Zerodha's 0.8 seconds).

**Strategies** takes the indicators of a candle as facts (an average has crossed,
a score is reached) and has the code's gates and distances over them;
combinations the computation cannot produce are left out (`GoldFacts`).  The two
multiples of the sniper's stop are any integers, because nothing validates them.
**SweepScan** turns a scan over the whole history into one step per candle,
which is the same because the history does not change; the swings it may take out
are a set, each with its place among them.  **Backtest**'s `seen`
counts candles up to what a strategy needs; `plan` is the signal to be entered at
the next open.  `Live` is `StopRules` with the trade's targets.

**Turnover.**  `market` is the truth: each stock's price and volume of the day at
each moment.  A quote's turnover is all of the day's volume at the price of its
moment (`Worth`), so it falls when the price does; packets and replies carry what was
true at some moment (`Said`), as late as the code allows.  There is one book, because
a worker without the lease publishes nothing.  `outgoing` is a snapshot on its way to
Redis, which may arrive after the lease lapsed.

## 3. The runs

| Run | Instance | What it shows |
|---|---|---|
| `order_lock` | 2 tasks, one entry key, 3 tokens, fairness | one live submitter; no submission after a lapse; a lapsed owner stops; an abandoned key comes free |
| `order_execution` | 3 shares, 3 attempts, fairness | the replacement is the remainder; results are true; nothing is left unnoticed; the request ends; `OrderIntent` is implemented |
| `execution_queue` | 2 workers, a good and a malformed job, 3 failures, fairness | orders of a job once; uncertainty is marked before any further job runs; every queued job is settled |
| `signal_intake` | 3 callers (one without symbols), 1 worker and 1 after a restart, a queue of 1, 1 failure, fairness | no decision is cut off silently; answers are recorded; every caller hears; `stop` ends |
| `alert_history` | 2 alerts, 2 savers, 1 marker, 2 rows kept, 2 tries | saves are atomic |
| `entry_path` | 1 symbol, 1 call, 1 watch, limit 2, 1 crash, a row that is not written, fairness | one entry; the limit; `WatchOnce` is implemented; no silent loss; watches settle |
| `position_exits` | a mortal service, 1 exit task, 3 shares, 1 target, all results | one order at a time; nothing is written off but by an update; a filled exit leaves nothing |
| `position_update` | the same, known results | *violated*: a repeated update takes shares off the row twice |
| `market_feed` | 1 symbol; 2 tokens, or 1 and a request with 1 retry; 1 receiver left behind; fairness | ticks are taken once; reported is subscribed; requests end; the feed recovers; a dead feed is reported |
| `tick_path` | 5 prices, 4 settings, both brokers, a queue of 2, 3 ticks, 1 failure, 1 crash, fairness | stops tighten; none is passed over; the queue drains; an overflow blocks entries |
| `backtest` | 5 candles, 12 tests over six strategies, 1 trade | stops protect; the backtest matches the live engine; trails tighten |
| `turnover` | 2 stocks, 2 workers, top 1, 6 moments on two days, prices that rise and fall, 1 lapse | no promotion by silence; what passes is near the top; snapshots in order |

Bounds, and why they are enough:

- `MaxTokens` (OrderLock): operations ever started.  The third takes over a key
  from two that lost it, with both still running.
- `Qty` 3 and `MaxAttempts` 3: a fill before, during and after a cancellation,
  and a replacement of a replacement with a share left.
- `MaxFailures`, `MaxCrashes`: crashes, stops, stalls, failed writes.  Three in the
  queue let a recovery be interrupted and its successor too; elsewhere one, at
  any step of any actor, and the recovery after it.  They also make failures
  finitely many: a worker that dies for ever settles nothing.
- `Capacity` 1 (SignalIntake): one job on the queue, one with a worker, one blocked.
- `MaxTries` 2 instead of eight: a save is refused, retries and gives up.
- `Cap` 2 instead of 200 rows, less than the rows two savers and a rebuild can
  push, so the oldest drop out.  `MaxRows` bounds the list a marker takes up.
- `entry_path`: one symbol, which the call and the watch compete for; a limit of
  two orders is reached by the call, the watch and a call after an exit.
- `MaxShort`: how far below zero an oversold position is followed; 0 where the
  properties are about what is held, not about what is short.
- `market_feed`: `MaxTokens` 2 has the first login and a new token over an expired
  one; `MaxRetries` 1 instead of five, a retry and giving up; `Slots` {1}, one
  receiver left behind beside the one that runs.  `MaxInputs` 2 bounds tokens and
  requests together: a request goes through restarts by either loop on one token, or
  there are two tokens.  With both, the liveness properties take too long; the two
  safety properties hold there as well, as the theorems say.
- `tick_path`: distances of 2 between prices of distance 2 let a tick hit each stop,
  pass it and miss it; three ticks make a best price, a retreat and a tick after a
  restart; a queue of two overflows at the third.
- `backtest`: five candles in prices 0 to 8 (a fall, a rise, a long one with stop
  and targets, one that closes at its high, one in between), one trade, the sweep
  windows of 1 and 4 candles.  One swing is remembered (`MaxSwings`).
- `turnover`: three moments a day; the first stock is overtaken while its price
  falls, comes back when it rises, and is traded later on the second day; quotes live
  one moment, snapshots none, so that what a decision reads is as old as it may be.
  Workers are symmetric (the run checks no liveness).

`CHECK_DEADLOCK FALSE` stands where the system really stops: an order request
that returned, a queue with all jobs settled, a service that was shut down, a
backtest that ended, ticks and time used up.  The bounds of `order_lock`,
`entry_path`, `market_feed`, `alert_history` and the position runs leave no state
without a step.

## 4. Fairness

- **OrderLock**: Redis expires keys (`Age`, `Expire`); the event loop runs the
  watcher (`Watch`), delivers a cancellation (`Interrupted`) and completes a
  `finally` (`Release`).  An operation itself is not fair: it may wait for its
  broker for ever, and the properties hold all the same.
- **OrderExecution**: `Program` (every await ends, by reply, failure or timeout)
  and `Deadline` (time passes).  Nothing is assumed of the broker.
- **ExecutionQueue**: a worker that runs makes progress, one that is down is
  started again (`Start`), a TTL runs out, a webhook's handler completes.  The
  restart is operational: systemd restarts a failed unit
  (`deploy/ashuchart-turnover.service` has `Restart=on-failure`, the units of the
  other services are not in the repository) and a timer restarts all services every
  weekday (`install_daily_restart_timer.sh`).
- **SignalIntake**: what a task waits for ends (`WorkerStep`), `stop` goes on.  A
  caller is not fair.
- **EntryPath**: every await of a call or a check ends, the monitor polls, deadlines
  pass, a process that stopped is started again.  A user need not do anything.
- **TickPath**: the loop runs what it was asked to run, and no handler hangs.
- **MarketFeed**: strong fairness for the main loop's steps and for taking a request,
  weak for the watchdog's and for health writes.  The restart lock is an
  `asyncio.Lock`, which is first come first served; a delayed request is looked at at
  every pass of the loop.  Nothing is assumed of the receiver or the broker, except by
  `FeedRecovers`, which has an assumption of its own (`Patience`): the watchdog looks
  again every two seconds, revives a feed that stays dead, and then waits out a
  cooldown; a thread begins meanwhile, and a connection that is tried with a valid
  token succeeds some time.  Without it the two loops may restart the feed for ever.  A
  receiver left behind is not fair: `FeedRecovers` and `DeadFeedIsReported` name the
  case in which one is connected and keeps the flag up, with which the watchdog sees
  no dead feed.
- **AlertHistory**, **PositionLifecycle**, **PositionExits**, **Backtest**,
  **Turnover**: none; safety and action properties only.

## 5. The proofs

Every theorem is for all values of the constants that satisfy the modules'
named assumptions, and those in its statement.

**OrderLockProofs** — `TypeCorrect`, `Invariance`, `LeaseOwnsItsKey`,
`MutualExclusion`, `StaleOwnersAreFenced`, `KeysFreedByOwners`.  Inductive
invariant: the types; `IssuedTokens` (no token is greater than those handed out);
`UniqueTokens` (a token is one task's and under one key, and never returns once
its key went); `LeaseShape` (which phases go with a lease and a watcher);
`OwnsUntilLapse` (a task that has a lease, or was granted a key and has not
registered it yet, owns its key until the token lapsed).  `LeaseMeansLock` alone
is not inductive: the lease that `track` registers must be the key's content
already, and a release with another task's equal token would break it, which
uniqueness excludes.

**OrderExecutionProofs** (assumption `~BookLags`) — `TypeCorrect`, `Invariance`,
`NoOverfill`, `TruthfulResults`, `Unnoticed`, `Refinement`.  Inductive invariant:
`BrokerOK` (the broker's orders are consistent), `KnowledgeOK` (each snapshot the
engine holds is truthful, and the last word if it is final), `LedgerOK` (the
total is what the finished orders filled, each order is the remainder),
`OutcomeOK`.  The refinement maps the broker's steps to `Trade` and `Withdraw`,
the last step of a request to `Report`, the rest to stutters.

**ExecutionQueueProofs** — `TypeCorrect`, `OrdersSentOnce`, `RecordPrecedesAck`,
`RecoveryComesFirst`, `NoJobIsForgotten`.  Inductive invariant: `OnlyQueued`,
`OneChance` (a job waits once, or one worker may send it, or neither, and only before
its orders were sent), `RecordedBeforeAck`, `NeverReplayed`.  Overlapping workers are
allowed: that a job is sent once rests on the atomic claim, not on the lease.
`NoJobIsForgotten` is what `EveryJobSettles` needs of safety: at every moment a
queued job waits untouched, or is on the processing list, which every start reads, or
has its record.

**AlertProofs** — of `SignalIntake`: `JobsAccounted`, `InterruptedStops`,
`AnswersRecorded`, `JobsAttended`; of `AlertHistory`: `HistoryTypeCorrect`,
`AtomicSaves` with any markers, `OneRow` and `Linearizable` under the assumption
that nobody rebuilds the list.  SignalIntake's inductive invariant: `Queued` (a
job is on the queue once, and then its task has not begun) and `Staged` (what is
settled about a job at each stage of its task: its verdict, the kill switch, the
row).  `InterruptedIsStopped` alone says nothing of a task that is about to end;
`Staged` does.  `JobsAttended` says that a caller who waits has its job on the
queue or with one worker and a task that runs has a worker that waits for it, as
`CallersHear` needs; it rests on `Queued` (a job whose task has begun is not on
the queue) and on the tasks of each `start()` being new ones.  In AlertHistory a
saver that was not touched still has the list in its copy; hence its commit is a
save of the list as it is.

**EntryPathProofs** — `TypeCorrect`, `LimitKept`, `LocksAreGivenBack`,
`WatchRefinement` for all results of an order; `EnteredAtMostOnce`,
`NothingLostInSilence` for orders whose placement is not lost (`"lost" \notin
Outcomes`: such an entry is what order execution leaves behind without the switch,
section 6).  Both except an entry that was forgotten: its row could not be written,
and the process ended first.  `Books` says where each caller is with respect to lock,
watch and phase (`Sane`), that the counter covers the orders placed and those about
to be (`CountCovers`), and that only a process that is up remembers (`Remembers`).
`Known` is on top of it: where a caller has looked for an entry there is none
(`Clear`); what is held is in the row, in memory, announced by the kill switch, will
be announced by the restart, or is forgotten (`Accounted`); what is in memory without
a row is about to be recorded, or could not be (`AboutToRecord`).  `EnteredOnce` is
not inductive without it: what keeps a second order back is the row, the memory, the
switch or the lock, whichever the failure has left.  The steps of callers are proved
once, by a lemma per action that says how it `Respects` the others, and used for all
parts of the invariant.

**PositionLifecycleProofs** — of `PositionExits`: `TypeCorrect`, `OneOrder`,
`WrittenOff`, `ExitsLeaveNothing`, for any services, exits, results and deaths; of
`PositionLifecycle`: `FlatWhenClosed`, and `WithinHoldings` for one service that
does not die, and whose orders have known results.  Invariant: `Locked` (orders,
and the reads of the reconciliation and of the square-off, are under the lock),
`Monitored` (a booking works on the monitored object with the row's quantity),
`Covered` (no row, object, order or copy of the reconciliation ever stands for
fewer shares than are held: why a closed row is flat), `Sighted` (a square-off by
the broker's quantity asked for all of it), `Agreed` (in one service with known
results they claim exactly what is held).  An order update may break `Covered`,
so `InvX` has it only until one was `counted`; everything else holds after
it as well.  `FlatWhenClosed` needs only the inequality, so it survives every
failure; `WithinHoldings` needs the equality, and fails with a second service.

**MarketProofs** — of `MarketFeed`: `FeedInvariant`, `NoTickTwice`,
`SubscriptionsKept`, for any number of receivers left behind.  `Receivers`: packets
are taken from the receiver that was started last, if its thread is there, and from
no other; a loop that is about to start one has the restart lock, and the one before
is off the ticks, whether or not it has stopped.  `Lists`: what the next connection
is made with covers what was sent, what callbacks under way will say was sent, what
is about to be acknowledged and what was reported; this is why a callback that comes
late does no harm.  Of `Turnover`, for any stocks, workers, calendar and markets,
whatever their prices and volumes do: `TurnoverInvariance`, `NoOlderSnapshot`,
`SilenceHolds`, `NearTopHolds`.  `TurnoverInv` says that a quote's turnover is what
the stock's trades were worth at some moment between its timestamp and now (`RowOf`);
that a snapshot, written or under way, has rows of its own day only and, whatever
came since, every quote that was too old for it (`Listing`); and that the holder of
the lease sends none older than the one in Redis.  The old quotes are the reason for
`Listing`: a snapshot without them would let their stocks' followers pass.  As
turnovers fall with prices, nothing that compares a quote with the market of this
moment is true: the two properties speak of the moments that a quote which counts may
be of (`Recent`).

**StopProofs** — of `TickPath`: `TickInvariance`, `StopsEndPositions`,
`StopsTighten`, for any prices, distances, numbers of adds and ladders, and
`WakeUpsAreKept` and `DropsAreAnnounced` of the delivery, for any capacity.
`StopBelowPrice` is not inductive: it needs where the trail may be after each set of
targets (`Behind`), or the trail that a booking pulls up might be past the price; and
that the row has the stops that memory has, or a restart might bring back a looser
one.  The two of the delivery are the safety halves of `QueueDrains` and
`OverflowBlocks`: a thread that finds `wake_pending` set asks for no wake-up, and
`WakeInv` says that one is then still to come.  Of `Backtest`, for any candles, ATRs
and settings of the six strategies: `BacktestInvariance`, `SignalsHaveTheirStops`,
`TrailsTighten`, `BacktestIsTheEngine`.  The invariant has two parts.  `Trades`:
there is at most one trade or plan, its targets are in order and were reached in
order, and its trail is a function of those reached.  `Scanned`: a sweep that waits
has its wick at or below every minor swing for as long as the candle that swept can
still be part of the next one (`Waits`).  That is why a change of character within
that time has its close above the wick, and why `StopProtects` must except a sweep
that waited longer.  It also excepts the sniper's stop with a multiple that is not
positive.  `BacktestIsTheEngine` compares the two codes for one candle: the low takes
the stop in both; the targets that low and high reach are together those that the
high reaches, and since the trail is the same function of them in both, it does not
matter that the engine sets it twice.  It needs that the first tick leaves the trail
below its price (`LiveLadder`), or the second one could be a stop.

Assumptions on prices, which the code's own checks make true: a ladder's and a
strategy's targets are positive and strictly in order (`validate_*_config`); a a
candle's close is between its low and its high.  `TickPath` and `StopRules` assume
that the stop of an entry is on its losing side, which the code ensures but for the
two exceptions of `StopProtects`.  `Atrs` leaves out one unit, so that half of an ATR
that is not zero is not zero either: integers stand for prices that are not rounded
that far.

Only model-checked: liveness (`LapsedOwnerStops`, `AbandonedKeyFreed`, `Terminates`,
`EveryJobSettles`, `CallersHear`, `StopEnds`, `WatchesSettle`, `RequestsEnd`,
`FeedRecovers`, `DeadFeedIsReported`, `QueueDrains`, `OverflowBlocks`), which the
prover does not reach: it rests on fairness, that is on ENABLED.  Every safety
invariant, action property and refinement that a passing run checks is a theorem,
under the assumptions named above.  What the folds of an indicator compute for every
input would need induction over data.

## 6. Where the code does not do what it says

1. `position_update`: the comment at `trade_engine.py:3368` says that an order
   update recovers an interrupted EXITING state only.  `exit_order_id` is written
   when an exit's order has returned, so a position that is EXITING and names an
   order names an earlier, partial exit.  If that order's final update comes late
   or again between the tick that marks the position and the new exit's lock, its
   fills are subtracted twice: the row has fewer shares than the broker, or is
   CLOSED.

Others, which the models contain as steps and about which no run claims anything:

2. `trade_engine.py:1986` says a failed retry blocks new exposure until it is
   reconciled.  The switch is set only if an earlier order filled; a lost
   replacement after an unfilled first order leaves entries open.
3. `redis_store.py:1053` rules out deleting and rebuilding a stale snapshot of the
   history; `update_alert_status` does that (1130, 1162, 1164), and may lose a save.
4. `docs/testing-book/BOOK.md:1863` promises that a duplicate exit and a target exit
   at most what is owned.  With two services that evaluate ticks the object of one
   keeps the quantity from before the other's booking, and its unlocked write
   after the tick puts it back into the row (`main.py:1573`).
5. `trade_engine.py:4698` says the square-off exits all open positions; those
   left EXITING by an exit that was refused its lock are passed over (4707).
6. `docs/testing-book/BOOK.md:193` says that a trailing stop never loosens.  A
   first target that is booked after the second sets the trail back to the signal
   price (`trade_engine.py:3943`); `StopTightens` excepts it (`LateTarget`).  A
   pyramid add sets the classic stop loss to a distance from the new average, which
   may be below a stop that was moved to cost.
7. A ladder position that the first or second booking has closed may be set to
   EXIT_CONDITIONS_MET again by a reversal seen on the same tick.
8. A sweep that fires long after its wick may have its stop on the winning side of
   the entry (`custom_strategy.py:1573`); `StopProtects` excepts sweeps older than
   a minor swing's span.
9. A pure sweep never signals a retest: `custom_strategy.py:1688` and 1705 ask for a
   close on the far side of the level, and such a candle has left the loop before
   (`continue`, 1683).  In "Only Outbreaks & Retest" nothing ever signals.
10. `validate_custom_config` (`custom_strategy.py:137-157`) does not look at
   `custom_sl_mult` and `custom_vol_widen_factor`.  With zero or less, and no stop
   behind a swing, the sniper's stop is at the entry's price or on its winning side
   (747-749); `StopProtects` excepts it.
11. When the row of a filled entry cannot be written, the entry is reported as
   made all the same (`trade_engine.py:3230-3235`) and no switch is set.  If the
   process ends before a tick writes the row, nothing keeps back a second entry;
   `EnteredOnce` and `NoSilentLoss` except it (`forgotten`).
12. `close_connection` (`dhan_broker.py:746-749`) sets `_running` to False and
   returns if the receiver's loop is not running yet; `run()` (723-728) then sets it to
   True and goes on, and `stop()` ignores that `join(3)` ended with the thread alive
   (980).  `test_dhan_feed_contract.py:41` says that after a stop the thread is not
   alive.  Its packets are dropped (`_deliver_tick`, 814), but its state reports go
   on: the flag `DHAN_CONNECTED` and the health record may say that the feed is
   connected when it is not.

## 7. Limits of the models

- **OrderExecution**: the order book read after the final update is not older than
  that update (`BookLags` FALSE).  With an older row and no trade book,
  `ReplacementIsRemainder` does not hold: the code lets the row overrule the
  snapshot.  The broker's books are external; nothing says which is true.
- **ExecutionQueue**: after a stall, a job may stay on the processing list until
  the next restart: recovery reads the list once, and a stalled worker may claim
  after it.  The two properties say so (`stalled`).
- **SignalIntake**: a crash of the process loses the queue and leaves RECEIVED rows;
  only the shutdown is modelled.  A `submit` that was blocked on a full queue may
  put its job after `stop` has emptied it (`job_queue.py:57`), and then waits for
  ever unless a later `submit` starts workers; `CallersHear` excludes it.  If the
  kill switch or the row of a decision that was cut off cannot be written, the
  exception replaces the cancellation and the worker goes back to the queue:
  `stop` then waits for it for ever, and `StopEnds` names this case.
- **EntryPath**: the row's write may fail at an entry; the later ones of ticks and
  exits happen or do not yet happen.  A limit of zero is "no limit" and is left out.
  A watch has one check at a time, as in the monitor.  With several watches of a
  symbol the guard takes the first of the hash, an arbitrary one.  An exit between
  the row's write and the open key's leaves a stale open key.  That the open key
  alone is missing is harmless: memory has the position, and a start reads it from
  the row.
- **PositionLifecycle**: locks expire in OrderLock only; here the exit lock is
  kept.  After an uncertain cancellation, a lost placement or a crash in the middle
  of a booking, shares may be sold twice; the runs include all three and claim
  only what survives them.
- **PositionExits**: a square-off by the broker's quantity does not tell the row,
  which stays OPEN, so a later exit may send again; `MaxShort` 0 leaves out what
  follows from being short.  A symbol whose row was looked for within the last
  second, or whose entry has no open key yet, goes the same way.  A kill switch
  that was set for another reason keeps the P&L monitor from squaring off;
  `trigger_kill_switch` sets it before it squares off, the user's `api_kill` after.
- **MarketFeed**: a request is popped before it is handled, and lost if the service
  dies (`market_feed_service.py:258`); the service does not die here.
  The ten and three seconds that a stop waits are one step with it; what they come to,
  a receiver that has ended or one that goes on or is still closing, is a choice.
  `Slots` bounds the receivers left behind at a time, not how often that happens.
  What a stray receives is dropped, so its own list of subscriptions is left out.
  The result of subscribing open positions at a start is ignored.  Activating a token
  clears the API process's own list of subscriptions only.
- **TickPath**: a price is chosen when a tick is handled, so fill and signal price
  differ only by an add's average.  The overflow handler runs once in a queue's
  life: if the switch was cleared in between, a second overflow does not set it.
- **Backtest**: both the program and the model take the low of a candle before its
  high, exit a stop at the trail's price even if the candle opened beyond it, and
  book no partial profits; that the market agrees is not claimed.  `OPEN_END` takes
  the last candle fetched, even one after `to_dt`.
- **Turnover**: prices and volumes are whole numbers.  Packets queued before
  a reconnection are not delivered after it.  That the engine reads the snapshot
  again before the order is the same decision in a later state.
- A Redis write takes effect when it is called.  Redis fails only where a module
  says so (OrderLock's renewals and deletes, SignalIntake's writes, EntryPath's
  reads and the row of an entry, TickPath's overflow handler).
- Quantities are whole shares, times are moments, and a price or time condition
  that no property tells apart is a choice.

## 8. Not modelled

- Indicators (averages, ATR, OBV, scores) and sizing: floating point, out of TLC's
  reach; the models take what they say as a choice.
- Parsing and authentication of webhooks: no state but the row and job they lead to.
- Broker adapters: translation; their answers are the broker's actions.
- API, dashboard, websockets, authentication, e-mail, encryption: no trading
  state; the commands they give (exit, square-off, kill switch) are actions.
- Sector ranking and the fetching and resampling of candles: pure computation on
  market data, with caches that nothing else writes.
- Telegram messages, the quote budget: nothing in the trading core waits for them.
- Paper trading (one step at the last price), CNC carry, amounts of P&L.
- Daily cleanup of rows other than the history's.
- `memory_store.py`: a test double.

## 9. Plan

The order follows what can cost money: who may submit (OrderLock), what a
submission does (OrderExecution), whether a job runs twice (ExecutionQueue,
SignalIntake), what its result is recorded as (AlertHistory), what is bought
(EntryPath), what is sold (PositionLifecycle, PositionExits), on which prices
(MarketFeed, TickPath, StopRules), for which reasons (Strategies, Backtest,
Turnover).  These are done.  What is left, in this order:

1. A pyramid add's order beside an exit of the same position: an action of
   PositionExits that raises `held`, row and object under the exit lock.  Theorem:
   `WrittenOffOnlyByUpdate` with adds.
2. Redis failures of an exit's record, and what a restart finds then.
3. A crash of the market feed service, with its popped request and its restored
   subscriptions.
4. Telegram's claims and the quote budget, as small leases.
5. CNC carry: rows that live through the daily cleanup and the square-off.
