# TLA+ models of the Polymarket engine

TLA+ specifications of the parts of this repository in which several tasks
share state, with TLC configurations that check them on small instances and
TLAPS proofs of the properties that matter most for every value of the
constants. Paths like `hot_switchover.rs:129` are under `src/`. Definitions are
translated from the source, not from its comments; where a comment and the code
part, a finding says so.

## 1. Inventory

The default binary `pingpong` (`main.rs`) is a chain of tokio tasks:

    primary connection --\                                   depth tracker
                          >-- events --> director --> updates --> strategy --> signals --> trading loop
    backup connection ---/               (halt/resume, book)      (filters, sizing, cap)    (reservation)

The events, updates and signals channels are unbounded. The director, the
strategy and the trading loop share the book and the depth tracker; a refresh
task replaces the token mapping; everything is a `DashMap` or a lock of its own,
so a step that touches two of them is two steps. Nothing is persisted but
append-only logs: there is no crash recovery in the core.

The binary `hft_pingpong_v2` is another program: one thread runs the hot path
inside a reconnect loop, a rollover thread may send it commands, and a
background task takes its opportunities:

    rollover thread -- commands (bounded) --> hot path <-- text frames -- one connection
                                                 |
                                              edges (bounded, try_send) --> background task

Beside both stands a stock of components that no binary calls, or that a binary
makes and never asks: strategies, simulators, a merger, an executor, an event
store, the production guard.

| Component | State | Operations | Hard because | Correct when |
|---|---|---|---|---|
| Hot switchover (`hot_switchover.rs`) | connection state and attempts, event channel, `primary_active`/`backup_active`, `risk_paused`, book | connect, fail, stream, drop; `Connected`, `Disconnected`, `Updated` arms; halt, resume | two tasks on one channel; flags lag the connections; a halt is the flag and then the book | the flags catch up; no update of a dead feed; a halted book is empty once it has been cleared; failover and failback complete |
| Depth tracker (`orderbook.rs`) | depth, start-of-queue markers per market | update, mark, init | three writers, reads between them | the ghost check refuses only what has vanished |
| Strategy loop (`main.rs`) | last prices, capital history, token mapping | receive, filter, read book, mark, size, cap, send; refresh | prices, book and tracker are read at different moments | signals are covered and profitable; the cap holds at every moment |
| Trading loop (`trading.rs`) | active capital per market and in total | reserve, init tracker, mark, trade, release | a blocked trade runs all the same | only the trade under way has capital, within the caps |
| Hedge bookkeeping (`user_ws.rs`, `stop_loss.rs`, `merge_worker.rs`, `state.rs`) | hedges, mined flags, bounded channel, timers | MINED events, timers, merges | a map guard is held across an await; events in either order | merges only for complete pairs, one per event, in order; nobody is stuck (timers can lock the pool up) |
| Production guard (`production.rs`) | last break, trades of the minute, slots, loss, totals | `can_trade`, `record_trade`, `release_trade`, `circuit_break`, `stats` | six locks, check-then-act, times taken before locks, guards kept over a second lock | limits are passed by one trade per caller at most, the loss by what those trades lose; a written break holds; the win rate is consistent |
| Hot path (`hft_hot_path.rs`, `bin/hft_pingpong_v2.rs`, `background_wiring.rs`, `maker_taker_routing.rs`) | pairs, rate limits, books, both channels | rollover commands, parse, evaluate, reconnect, hand on | `try_send`, two hashes of one token, pairs rebuilt from the start-up maps | pairs stay consistent; an edge is of quotes of this connection; commands are applied |
| Rollover (`market_rollover.rs`, `signal_filter.rs`, `price_cache.rs`) | discovered slugs, round, traps | discovery rounds, fetches, sleeps, clean-up | one stale clock per round, sleeps and requests inside it | every window is met; a trap is placed on time (late by a round's jobs at most) |
| Dry-run engine (`dry_run_engine.rs`, `laddering.rs`) | simulated positions, metrics | place, fill, time out, abort | three levels share one counter; mixed fills | every trap ends in one account; fills keep to the ladder's prices |
| Gabagool (`gabagool_strategy.rs`) | shares held and in flight | lock, evaluate, update | in-flight and filled shares are counted apart, the position is read twice | the imbalance counts each share once (it does not) |
| Maker hybrid (`maker_hybrid.rs`) | inventory of both sides | judge, post, fill | check and fill under different locks | the skew keeps to its ratio |
| Dry merger, ghost simulator (`dry_merger.rs`, `ghost_simulator.rs`) | positions; pending opportunities, statistics | record, merge; track, check | a round takes the merger away; recording may panic half-way; a key is tracked twice | shares and opportunities are conserved |
| Merger (`merger.rs`) | the round's positions | fetch, merge, redeem | positions come from one service and requests go to another; answers get lost | its own requests never ask for more than there is, unless it could not know |
| Order submission (`execution.rs`, `clob_executor.rs`) | attempts, queue | submit with retry, enqueue, process | an answer may be lost | the answer is true; no order is taken twice |
| Market locks and risk checks (`hot_switchover.rs`, `AppState`) | locks with their times; prices, ranges, inventory, loss | lock, unlock, expire; record, check | unlocking names the market and not the lock; a check records what it judges | exclusion within a lock's life; lockouts end |
| Fast book (`hot_path_optimized.rs`) | levels of bounded number, channel | update, drain, evaluate | a full side drops levels | the book follows the events |
| Event store (`sqlite_log.rs`) | tables, statistics | insert one or a batch, count | commit and count are two steps over two connections | statistics never run ahead of what the process wrote |
| P&L (`pnl.rs`) | trades, fees, gas, fills | record, report | the fee is in two of the sums | the report never shows a profit that is not there |

The other components of `PROJECT.json` are pure code, I/O, scripts or earlier
versions kept in the tree. The library crate does not build as it stands
(`lib.rs` declares `sdk_websocket` and `one_sided_fill`, which are absent) and
does not declare the dry merger's module at all, and
neither the hedge bookkeeping, the production guard nor most of the components
from Gabagool on down is called by a binary; they are modelled as written, with
their callers external.

## 2. Modules

| Module | Models | Proved in |
|---|---|---|
| `FeedSelector` | the promise of the director: which feed is believed, when trading halts, what the book holds; a halt is two steps | |
| `HotSwitchover` | both connection tasks, the channel and the director, step by step; implements `FeedSelector` | `HotSwitchoverProofs` |
| `OrderBookTracker` | a market's depths and markers, as operators both other modules use | |
| `Sizing` | the strategy's price filters and share arithmetic | `StrategyPipelineProofs` |
| `StrategyPipeline` | director's Updated arm, strategy loop, refresh, trading loop; takes the choice of feed from `FeedSelector` | `StrategyPipelineProofs` |
| `PairMerges` | the promise of the hedge bookkeeping: only complete pairs are taken on, and all of them are merged, in the order in which they were taken on | |
| `Hedge` | user-stream listener, timers, merge worker, one shard's lock, the channel and the pool of threads; implements `PairMerges` | `HedgeProofs` |
| `Allowance` | what a limit of the guard amounts to: a counter compared in one step and raised in a later one | |
| `ProductionGuard` | the guard's calls, lock by lock, any number of callers; implements `Allowance` three times | `ProductionGuardProofs` |
| `HotPath` | the reconnect loop, the hot path between its two channels, the background task | `HotPathProofs` |
| `Rollover` | the discovery thread: its round, its window, its sleeps and requests | `ComponentsProofs` |
| `DryRunEngine` | the simulated traps, fill by fill | `SimulatorsProofs` |
| `Simulators` | the dry merger and the ghost simulator | `SimulatorsProofs` |
| `Gabagool` | the strategy's position and its evaluation, in two reads | `ComponentsProofs` |
| `MakerHybrid` | opportunity, inventory check and fill, for any number of makers | `ComponentsProofs` |
| `PolyMerger` | the merger's rounds over a wallet that changes meanwhile, an index that lags behind it and requests that arrive late | `SimulatorsProofs` |
| `Submission` | `submit_order` with its retries, the executor's queue, an exchange that may lose answers | `ComponentsProofs` |
| `MarketLocks` | `AppState`'s locks of markets, with their expiry | `ComponentsProofs` |
| `RiskChecks` | the checks before a trade, and what is recorded for them | `ComponentsProofs` |
| `FastBook` | the bounded book and its director's turn | `ComponentsProofs` |
| `TradeLog` | single and batched insertion, statistics, the logger's thread | `ComponentsProofs` |
| `Pnl` | the tracker's sums and the net profit of its report | `ComponentsProofs` |
| `FoldLemmas` | nothing of the code: lemmas about sums over sets and folds over sequences, for the proofs | itself |
| `MC*` | constants and compositions for TLC; `MCTasks` runs `HotSwitchover`, `HotPath` and `Hedge` one at a time, `MCComponents` the twelve from `Rollover` to `Pnl` and `ProductionGuard` | |

**HotSwitchover.** `ws[s]` and `attempt[s]` are the local state of
`maintain_ws_connection`; `events` is the channel; `active`, `riskPaused` and
`orderbook` are fields of `AppState`; `inHand` is the update between its insert into
the book (`hot_switchover.rs:778`) and its forwarding, since the strategy runs in
between. `Connect`, `ConnectFail`, `StreamUpdate` and `Drop` are the task's
branches; `OnConnected`, `OnDisconnected`, `OnUpdateIgnored`, `OnUpdateAccepted` and
`ForwardUpdate` the director's. A halt is the store of the flag (`HaltTrading`, line
131) and then, with `clearing` set, the loop over the book (`ClearOrderbook`, line
132): the director does nothing else in between, but the strategy does. The strategy
appears as what it does to this state (`StrategyTake`, `StrategyMark`). Book entries
carry the feed they came from, which the code does not record: without it a book
that listened to the wrong feed would look like one that listened to the right one,
and the refinement could not tell them apart.

**StrategyPipeline.** The abstract selector stands for the connections, which
the refinement of `HotSwitchover` justifies; its halt is two steps too, so that the
strategy may read the book, and pass an opportunity on, while the flag is set and
the book not yet cleared. `main` says where the strategy loop
is: `idle`, `book` (prices passed, book not read), `mark`, `send`. `engine` is
`idle`, `marking` or `trading`. The capital history is summed per tick of the
clock (`spent`). Prices are in thousandths of a dollar and sizes in shares; a
price is a whole number of those thousandths and a size a whole number of
shares, so that the code's floating point is exact here. `staleSince` is a
history variable for one finding. The velocity, volatility, inventory and
drawdown checks of the loop look at state that no code in the program records,
so they never stop a trade and are not in the guards; `RiskChecks` models them
with recorders of its own. The trading loop is in dry-run mode: the code refuses
the other.

**Hedge.** `chain` is what the exchange has mined, `mined` what the listener has
recorded. `handler = h` is the listener suspended in `send().await`
(`user_ws.rs:114`) with the guard of `h`'s shard in hand; `timer[h] = "blocked"` a
stop-loss timer that waits for that shard and keeps its thread. `Record` and `Mine`
are external: the executor and the exchange. The listener keeps no trace of the
events it has handled, so a status that is repeated, or that comes for each of
several trades, is handled again, and a taker's sends another merge of the whole
size: `told` counts the events, and nothing bounds them but the run. No code lowers
`remaining_taker_size`, so a timer always fires its FAK order. `LockedUp` is the
state in which every thread of the pool is a timer's that waits for the suspended
listener. The merges on their way are `Due`: the task the worker delays, the
channel, and the task the suspended listener has in hand, in this order. That is the
refinement mapping to `PairMerges`, in which a pair is taken on when the listener
finds both legs mined and burnt when the worker sends the merge; what the channel
and the lock do in between is not visible there.

**ProductionGuard.** `pc[c]` is the next lock operation of caller `c`; a guard that
dies with its statement is one step, `guards[c]` are the ones that live on (those of
`stats`, and the read guard in `release_trade`), and `parked[l]` is the writer that
has claimed lock `l` and keeps new readers out, as parking_lot does. The list of the
last minute is counted by the tick of its trades; `taken` is a history variable, the
list without its pruning. A losing trade adds its dollars, between one and
`WorstLoss`. `circuit_break` takes the time before it asks for the lock (`entry[c]`,
line 235), so that a break is written late, or over one triggered after it;
`brokenAt` is the history of when. `record_trade` ends in a debug line that reads
two counters when that log level is on; it is left out, as logging is. Callers are
external, since no code calls the guard: each asks, records what it was allowed, and
releases its slot or leaves it open. The model includes the two ways in which the
guard locks up: `release_trade` always waits for itself (`production.rs:229`), and
`stats` (line 331) waits for a writer that waits for `stats`.

**HotPath.** `pc` is where the main thread is; `ConnectPanics` is every
`expect()` of the connecting code, which ends it. A hash is the token with the
name of the function that made it: `fast_hash` hashes a byte slice and
`hash_token` a string, to which the hasher feeds different bytes, so the
start-up pairs and the books have no key in common and the background task finds
no token for an edge the hot path can show. Nothing in the repository builds a
`RolloverCommandV2` with hashes; the model's sender uses the hash under which
the hot path can find a token, the only one with which an added pair would be
evaluated. `Drain` is the loop of `try_recv` in one step, since nothing else
writes what it writes. `quoted`, `added` and `handled` are history.

**Rollover.** `clock` is the world's and `seen` what the round read at its start:
`Check` decides by `seen`, then `SleepToTrigger` and `place_trap` move `clock` on. A
request has five seconds to be answered (line 138), but the reading of its body
(line 140) has no limit, so `FetchTime` is a set.

**The small components.** Each of them shares nothing with the others, and in
`MCComponents` an initial state chooses which one runs: one run instead of thirteen.
`RequestError` in `Submission` is a time-out or a broken connection, after which the
exchange may still take the request (`ServeOrder`). In `MarketLocks` a worker keeps
the time of its own lock (`holding`), which the code returns to it. `PolyMerger`
reads what the data API has heard of (`Index`), takes a number of shares that does
not parse as whole for none, and leaves a request that was given up on its way, to
be served at any later moment, refused or lost; shares may leave the wallet by other
ways. `covered` and `overAsked` are history. `RiskChecks` keeps the last three
prices and five ranges, which is all the checks read; the ages in a history never
increase towards its end, so that `Kept` writes what `retain` keeps as the end of
the list. The run loop of the dry merger owns it, so that nothing is recorded once
it runs; `record_trade` logs the first eight digits of the YES total
(`dry_merger.rs:20`) and panics on a shorter one where info messages are written,
after the total was raised: its owner may then be gone. `TradeLog` may restart: the
tables stay, and `found` is what the process found in them. The price of a tick, a
cent or a hundredth of a cent is chosen in each module so that the code's floating
point is exact.

## 3. Runs

| Run | Components and bounds | Shows |
|---|---|---|
| `tasks` | one of three, as the initial state chooses. *Switchover*: one market, two feeds, two events and one update under way, reconnect limit 1, lists refreshed to all or nothing. *Hot path*: one start-up market and one that rollover adds, two prices, five texts, a command channel of two, an edge channel of one. *Hedges*: two on one shard, two threads, channel of one, a taker reported twice | the director's pending events always lead to the true state of both connections; a halted book, once cleared, stays empty; `FeedSelector` is implemented; after the connections stop changing the flags agree with them. Pairs stay consistent, edges are of quotes of this connection, queued commands are applied. Merges are sound, one per event, and in the order in which they were taken on (`PairMerges` is implemented); listener and timers get on, or the timers have all threads |
| `pipeline` | three parts, as the initial state chooses. "trades": the primary alone, depths 5, 12 and 30 (refused; under the per-market cap; over it). "failover": both feeds, depths 5 and 12. In both, time and market list are at rest. "window": the primary alone, one depth, clock 0..2, window of two ticks with room for two trades, market list full or empty. Channels of one in all | reservations balance, signals are sound, a cleared halt stops new opportunities, a lockout is permanent, no window of the clock exceeds the capital cap |
| `components` | one of thirteen, as the initial state chooses; below | windows and traps in time; traps, shares, opportunities, orders, events, cents accounted for; locks, lockouts and limits as far as they go |
| `find_*` | as above, smaller | a statement of the repository that the code does not keep |

*Why the bounds are enough.* Two feeds is the code's number. Two pending events let
a disconnect follow an update or the other feed's event, which is every pair the
director can confuse; the theorems carry it to any channel. One market suffices
because no step of these modules relates two markets, except the total of active
capital, of which the proof shows it is one market's. Depths 5, 12 and 30 lie under
the minimum of ten, under the order's size and over it, and each is under half of
another, so the ghost check fires. The three parts of `pipeline` keep apart what
does not meet: the window is about time and what was spent, whatever the depth of
the book; the other properties do not read the clock; and a backup matters to the
halt and to which updates get in, not to the trade over a cap. With two hedges, a
channel of one and a taker that is reported twice, one task can be with the worker,
one in the channel and one with the suspended listener, with a timer blocked or, as
there are two threads, with both of them blocked, which is the lock-up. Deadlock is
not checked in `tasks` because of it and because the hot path's main thread may die.
In the hot path two commands let an add and a remove of one pair, or two adds around
a reconnect, be queued together, and the edge channel of one overflows as soon as a
pair is evaluated under both of its tokens; of the prices, 450 and 450 make an edge,
540 and 450 none.

In `components`: the rollover starts at every phase of ten seconds before a boundary
of both periods and runs through the next of the shorter, with requests of zero or
five seconds and sleeps that overrun by one; two traps on two markets, so that one
may be replaced, and three trades that fill a part of a level, a level or all three;
three Gabagool orders of one or two shares around an imbalance limit of six; two
makers around a skew of 30%; recordings of nothing and of eight digits, so that a
total may be short and panic; a merger of one market with up to two shares a side
and two requests under way, which is what a late one and a new one need to meet;
three orders with one retry, so that one waits in the executor's queue behind
another; three workers and a lock of two ticks, so that a third meets the lock of a
second that the first has unlocked; a book of two levels and three prices, so that
one is refused, with a channel of one and four events; three writers over two
connections; three recordings of two prices more than 5% apart in a history three
times as long as a lockout; five P&L entries over pairs of shares that are a loss,
an arbitrage and, at the threshold of 98 cents, a win that is none; two callers of
the guard with limits of one trade a minute, two slots and a loss of one dollar
where a trade loses up to two, and a clock 0..2 with a minute and a cool-down of two
ticks, so that trades leave the list: two callers are what every race there needs,
four trades fit into the run, so that one slot too many shows, and the theorems
carry it to any number. The callers are alike, so the run takes them as symmetric,
and it takes states for one that differ only in the time or result of a call that is
over (`View`); it checks safety only. Deadlock is not checked because each component
comes to the end of its bound, and because the guard does lock up.

*Findings.* Nine statements fail. Each run checks one, quoted with its line in
`PROJECT.json`.

- `find_both_down`: with the primary lost first and the backup second nothing halts.
- `find_legs`: both legs of a signal may carry the NO token.
- `find_stale_price`: a price from before a halt pairs with one from after it.
- `find_mined_pair`: a pair whose taker is mined first is never merged.
- `find_stuck_timers`: a stop-loss timer never decides, since timers that wait for
  the shard of the suspended listener hold every thread, and nobody is left to run
  the worker that would make room for it.
- `find_lost_pair`: what rollover added is gone after a reconnect.
- `find_hash`: the background task cannot tell the token of an edge, because the two
  ends of the channel hash it by different functions.
- `find_release`: a call of `release_trade` does not come back.
- `find_late_traps`: a trap is placed later than sixty seconds before its slot, even
  with requests that take no time: a round that starts after that moment does not
  sleep, and one whose earlier jobs slept goes by a time that is seconds old.

Some statements are refuted without a run of their own, by a theorem or by the
source itself:

- `gabagool_strategy.rs:9` and `:11` announce directional bets and taker orders;
  `FlightCorrect` proves that neither signal ever comes out.
- Line 10 of the same file limits the imbalance to 150 shares. Filled shares are
  counted twice, once as held and once as in flight, so what one side has filled
  hides what is bought on the other; and a hedge that is in flight counts although
  it may fail. With a limit of 6 and orders of 3: YES, NO and YES go out, the NO is
  filled and counts 6, which is what the two YES count; so two more YES pass, and
  when all are filled the account has 9 YES more than NO.
- The lowest level of a simulated ladder never fills up: its room is its size less
  what its side has filled plus what that cost at the level's price
  (`dry_run_engine.rs:113`), and no fill is cheaper than that.
- `pnl.rs:157` prints a profit "after fees & gas" that has the fees deducted twice,
  and the loop records a trade as an attempt before the capital cap may block it
  (`main.rs:472`, `:528`).
- `main.rs` speaks of 250 dollars as the most capital, where it sets 1000.
- A taker that is reported as mined twice is merged twice (`user_ws.rs:105`).

*What the passing runs say that a reader may not expect.*

- Between the two steps of a halt an opportunity still passes (`HaltStopsNewTrades`
  speaks of what begins once the book is empty).
- A backup that connects alone never resumes trading: only a primary does
  (`StablePrimaryResumes` needs the primary).
- A market kept out by the ghost check stays out (`LockoutIsPermanent`).
- Until a circuit break is written, callers still get through (`CooldownKept`).
- A top-up of Gabagool asks for the imbalance once more, so one above the default
  minimum never passes the default limit. The check counts what waits in flight, so
  an order that may still be filled is never overlooked (`WaitingInFlight`).
- A maker order of the strategy's own size never passes the inventory check of an
  empty inventory with a ratio under one: the first fill has to be a caller's.
- One rapid move may lock a market out twice (`LockoutsSubside`); a lockout takes
  the ten seconds of `velocity_lockout_secs`, where the log line announces the
  thirty of `velocity_pause_secs`, which nothing reads otherwise.
- The P&L report deducts the fees twice (`ReportUnderstates`), of trades that no
  code of the program records.

## 4. Fairness

Weak fairness on every loop of `recv().await` and on each connection task's next
attempt, since the runtime polls what is ready and a task that is down sleeps and
tries again. None on the network: whether a connect succeeds, when a stream speaks
or ends, what the exchange mines, when the market list changes. `BeliefConverges`
and `StablePrimaryResumes` therefore assume of a connection only that it stops
changing. In `Hedge` each timer is fair by itself, because the map's lock wakes
every waiter. Nothing in the code keeps the threads of the pool ahead of the timers,
so `TimersDecide` and `SendCompletes` allow for `LockedUp`: every step of theirs is
completed unless timers that wait for the suspended listener's shard have all the
threads. Without that clause they are false, which `find_stuck_timers` shows of the
comment on the timers. `LockUpExplained` is the safety part of both.

`HotPath` has weak fairness on `Loop`: connecting, draining, and a read that
brings no text. A read has a limit of thirty seconds (`ReadFails`), so that the
loop is at its top again whatever the exchange does; none on texts, rollover or
the background task. In `MCTasks` each component's fairness is owed while it is the
one that runs. `ProductionGuard` has liveness only in `find_release`, under weak
fairness of every thread's next lock operation. The small components have safety
properties only.

## 5. Proofs

All for every value of the constants under the module's named assumption. Every
safety invariant, action property and refinement of the passing runs is a theorem;
what the theorems add to the runs is the number of markets, callers, makers, writers
and commands, the prices and sizes, and the length of every channel and window.

**`FoldLemmas`.** A sum (`SumFunctionOnSet`) and a fold (`FoldLeft`) of the
community modules are a `CHOOSE` of a recursive function on the subsets of a
set. That such a function exists and is unique is proved here from a minimal
subset for which it would not be (`MinimalSubset`, from the well-foundedness of
strict inclusion), and in the same way what the proofs below need: one element
taken out of a sum, a value changed, two functions added, a bound per term
(`SumRemove`, `SumExcept`, `SumPlus`, `SumBound`), and that a fold whose step
keeps to a set ends in it (`FoldStays`). The provers cannot instantiate an
operator parameter, so a fold is connected to its step where it is used
(`ApplyStays`, `ScanStays`, `FillStays`).

**`HotSwitchoverProofs`.** `SwitchTypeCorrect`; `ViewCorrect` and `UpdatesCorrect`,
by an invariant on the last connection event of each feed in any prefix of the
channel, since what the director will believe depends on all of them; `HaltCorrect`:
from the moment the book has been cleared until trading reopens the book is empty,
and trading is never halted while the primary is held for live, by an invariant that
includes what holds while the halt is under way; `Refinement`, one step per action,
each a step of `FeedSelector` or a stutter, the two steps of a halt included.

**`StrategyPipelineProofs`.** `SizingSound`, by cases on which floor or cap decides.
`TypeCorrect` with `MainOK`, the strengthening that the prices the loop passed the
filters with are still recorded when it sends, which nothing but the loop itself
writes; from it `SignalsCorrect`. `WindowCorrect`: the loop checks only the window
that ends now, and since nothing is spent in the future (`WindowInv`) what it sends
adds to no window that has ended, nor to a later one more than to that.
`ReservationCorrect`, which is inductive with the type invariant. `HaltStops` from
the book being empty whenever trading is halted and nothing is `clearing`.
`LockoutStays`, by the list of places where something of the market may still be
under way.

**`HedgeProofs`.** `TypeCorrect`; `MergeCorrect` from `KnownIsMined`: every flag,
event and task concerns legs already on the chain, and the chain only grows;
`MergesAnswered`: every merge asked for, wherever it has got to, answers a taker's
event of its own, whether the stream repeats events or not. `MergesRefined`: the
worker's task, the channel and the listener's task read as one sequence, taking on a
pair appends to it, handing a task from one place to the next leaves it as it is,
and the merge takes its head; that the pair is complete is `KnownIsMined`.
`LockUpExplained` has three parts. Whenever the listener is suspended, either it or
the worker can go on, or a timer of another shard ends and gives its thread back, or
`LockedUp` (`OnlyTimersLockUp`); once it is locked up it stays so, and the channel,
the worker and the merges with it (`LockUpIsFinal`); and while the listener waits
every step of the worker shortens `Backlog` and no other step changes it
(`BacklogShrinks`). Fairness turns this into `SendCompletes`, which TLC checks.

**`ProductionGuardProofs`.** `TypeCorrect`; `SlotsCorrect`, by the invariant that
the counter and the callers that have passed its check and are not yet counted stay
together under the limit and one for every other caller; `LossCorrect`, by the same
in dollars, each such caller good for the worst loss of a trade; `RateCorrect`, by
the same of the minute that ends now, with the list of trades agreeing with the
history wherever it has not been pruned (`RateInv`); `CooldownCorrect`, since no
caller asked later than now and none that asked before the break was written is
spoken of; `ReleaseStuck`, that no call of `release_trade` comes back, since the
caller holds the guard it waits for, which explains `find_release`; `StatsCorrect`,
since the winning trades and those about to be counted as one never exceed the
total, which the guard of a reader keeps still until it has read both.
`LimitsRefined`: slots, loss and rate are an `Allowance` each, with the callers
between the check and the count as its clients; for the rate the list the check
counts has at least the trades of the minute that ends now (`RateSeen`), a stamp
adds one (`RateStamped`), and the clock only takes some away (`RateFades`).
`WaitersCorrect`: whoever the locks keep waiting waits, directly or behind a claimed
lock, for a guard that `stats` or `release_trade` keeps. With `ClaimInv`, that a
claim is of a caller which still waits at that lock and that nobody else keeps a
guard, the writer behind which others wait could go on but for such a guard. So both
lock-ups of the model need one of these two calls.

**`HotPathProofs`.** One invariant, `HotInv`, for three theorems. The pair map and
the rate limits agree, and every best ask in a book was received on this connection:
both are kept by every single command and every single marker of a message, hence by
the folds of `Drain` and `parse`. A key of a command is a pair of slice hashes and
one of the start-up maps a pair of string hashes, so no hash is in both. From these
`PairsCorrect`, and `EdgesCorrect`, that every edge is of a pair of rollover's and
none is ever acted on, which explains `find_hash`; and the action property
`EdgesFresh`, for which `TextOffers` says what one text may put into the channel.

**`ComponentsProofs`.**

- `FlightCorrect`, inductive with the types, by a lemma that an edge the later
  branches ask for is an arbitrage already: it says of the position that what waits
  is in flight and what is filled counts twice, and of the signals that only an
  arbitrage or a top-up comes out; `SubmissionCorrect`, by what each stage of a call
  says of its last request: it is sent anew only after an answer that refused it;
  `ReportCorrect`, by `earned` being the sum of profits less gas, and an arbitrage a
  win at every price; `LocksCorrect`, by the invariant that whoever holds a market
  for less than a lock's life, and was not unlocked under its feet, has the lock
  that is in the map, of the same age.
- `LogCorrect`: a writer that commits joins the sum of what is still to be counted
  by just the rows it wrote, and leaves it by just what it counts; a restart makes
  all the rows there are those the process found.
- `SkewCorrect`: the bound itself is not inductive, since an order fills long after
  it was judged. `SkewInv` says it of every set of pending orders: whichever of them
  are filled, the skew passes its ratio by at most one order of each other maker.
- `BookCorrect`, from `SideFollows`: no price twice on a side, each with its last
  size, and whatever is missing was last removed or found no room (`BookInv`).
- `RolloverCorrect`: in a round the clock is ahead of what was read at its start by
  at most a sleep and two requests for each job before (`RollInv`).
  `WindowsCorrect`, that no window is missed, has a condition, `RoundsFit(b)`: the
  periods are multiples of a span b, of 66 seconds at the least, which a round with
  all its sleeps and requests fits into. The periods of the code are multiples of
  five minutes and its jobs eight, so this holds as long as no fetch takes more than
  fifteen seconds; the code gives a request five seconds to be answered and sets no
  limit on the reading of the answer. `MeetInv` follows each job through a round:
  looked at before its window, within it, or past it.
- `LockoutCorrect`: what a history has added since the last recorded price repeats
  that price, so a move is only found while what came before it is younger than a
  minute; and after a first detection either the history is as it was judged, and
  too old, or its last two prices are equal; after a second, all of them will be
  (`WearsOff`).

**`SimulatorsProofs`.** `SimulatorsCorrect`, by the arithmetic of a merge and the
number of pending keys that come and go; `TrapsCorrect`, in the same way for
traps, with the number of those that end at once when the minute is over;
`FillsCorrect`, since a level, whatever it reckons from the one total of its side,
adds shares at its own price or adds none (`LevelPriced`);
`MergerCorrect`, by the invariant that the wallet holds what each covered position
still to be looked at says and that nothing of it is under way.

Type correctness is proved of `HotSwitchover`, `StrategyPipeline`, `Hedge` and
`ProductionGuard`, and is a part of the invariants of the others, so the runs
spend their time on what a type does not say.

*Assumptions the proofs need.* Each is a named `ASSUME` beside its constants and TLC
evaluates it: finite sets of callers, makers, writers and markets; positive limits;
sizes that are natural numbers; in `Rollover`, that some request takes longest.

Only model-checked: liveness (`StablePrimaryResumes`, `BeliefConverges`,
`SendCompletes`, `TimersDecide`, `CommandsApplied`), which is out of the prover's
reach; `LockUpExplained` is the safety part of the third and the fourth. The sizing
has no run of its own: `SizingSound` is proved for all prices and depths, and
`SignalsSound` breaks in the `pipeline` run when the floor and the depth cap change
places.

## 6. What could come next

The pure algorithms (`parse_fixed_6`, the array book of `hft_hot_path_old.rs`,
routing and fees) against reference definitions; a window theorem for
a rollover whose requests are slower than fifteen seconds, which would count the
windows that are missed.

Hazards of the code that no property covers, the first five of which are in notes of
`PROJECT.json` beside the properties next to them:

- the depth a trade is sized by need not be that of the quotes that made it an
  opportunity (`main.rs:408`);
- an edge that is queued may be of a connection that is gone by the time the
  background task takes it (`hft_hot_path.rs:338`);
- a simulated trap that times out with both sides partly filled is booked nowhere
  (`dry_run_engine.rs:145`), and a level of its ladder may take more than its size
  (line 113);
- a filled order of Gabagool stays in flight (`gabagool_strategy.rs:364`);
- a taker that is reported as mined twice is merged twice (`user_ws.rs:105`);
- a half-open primary stream: no read of `maintain_ws_connection` has a timeout, so
  the feed stays believed up and the backup's updates are ignored;
- the trading engine overwrites the tracker's depths with those of the signal before
  it marks them (`trading.rs:374`);
- a signal queued when a halt comes is traded after it (`trading.rs:431`);
- a stop-loss timer decides by `remaining_taker_size`, which nothing lowers
  (`stop_loss.rs:41`);
- `stats` locks again what it has locked (`production.rs:331`): no property says
  that the lock-up cannot happen, since it can; `WaitersCorrect` says that no call
  but this one and `release_trade` brings one about;
- asks of the hot path only ever move down on a connection (`hft_hot_path.rs:103`);
- the reading of an answer has no limit in the rollover thread
  (`market_rollover.rs:140`), and `pre_order_merge.rs` reads the time in a slug as
  the end of a market, where the rollover writes the start;
- the logger's thread asks for a runtime's handle outside of one and panics in its
  first turn (`TradeLog` has the step, no property is about it).

## 7. Not modelled

- I/O and form: signing, payloads and headers, HTTP and WebSocket framing, JSON (an
  update is what `parse_orderbook_update` yields, a message of the hot path the
  sequence of its markers), logging, metrics and the text of reports.
- Start-up, argument parsing and market discovery (`crypto_markets.rs`), whose
  result is a constant; the REST mode and its client, loops around requests without
  shared state; the Binance feed and `websocket.rs`, which the hot switchover
  replaced; the JSONL logger, which writes lines.
- Live trading, which the code refuses, and with it the fill-adjusted check of the
  tracker and the leg timers of the engine.
- Pure functions nobody decides by: `fees.rs`, `pre_order_merge.rs`, the gas and
  liquidity checks of the guard; `ExpiringOrder` and `OrderManager`, maps of one
  thread; the toxic-flow monitor, which only ever sends `Clean`.
- The older hot paths (`hft_hot_path_old.rs`, `hft_hot_path_fixed.rs`,
  `simd_hot_path.rs`, `simd_parser.rs`) and their binaries; scripts and deployment.
