# Roboquant in TLA+

Roboquant is an algorithmic trading platform in Kotlin. A *feed* delivers events
(prices at a time), a *strategy* turns them into signals, a *trader* turns signals into
orders, a *broker* executes the orders and keeps the *account*. The same strategy runs
over historic data (a back test, against the simulated broker) and over live data
(against Alpaca or Interactive Brokers).

This directory holds TLA+ models of the parts whose correctness is hard to test, TLC
configurations that check them on small instances, and proofs that TLAPS checks for
every instance. Paths of source files below are relative to
`src/roboquant/src/main/kotlin/org/roboquant/` unless they start with `roboquant-`.

## How to run

    tlc -workers 2 -config MCSimBroker.cfg MCSimBroker.tla
    tlapm SimBrokerProofs.tla

`PROJECT.json` lists every run with its module, configuration and properties, the lines
of the source each definition models, a mutant of the model for every property, the
findings, the hazards and the theorems. Operators whose comment starts with *Mutant* are
those mutants; nothing refers to them.

## 1. The system

| Component | State | Operations | Talks to | What is hard | Correct if |
|---|---|---|---|---|---|
| Order executors (`brokers/sim/execution/*Executor.kt`, `orders/*`) | status, openedAt, fill, trigger, triggered, limit of a single order; the executors of its legs for a combined one | execute(price, time), cancel(time), modify(order, time) | called by the simulated broker only | sequences of events, cancellations and modifications; several legs on one event; an order that expires on the event that fills it | no order trades more than it asked for, legs keep the promise of their combination, closed is final |
| Simulated broker (`brokers/sim/SimBroker.kt`, `InternalAccount.kt`) | orderExecutors, account (orders, positions, cash, lastUpdate), trades, closedOrders, nextOrderId | sync(event), placeOrders(instructions), reset() | run loop, journals and traders read the account | the lists of orders are kept in three places; wall clock against event time; reset in between | lists agree, ledger balances, statuses tell what happened |
| Positions and account models (`brokers/Position.kt`, `CashAccount.kt`, `MarginAccount.kt`) | size, average price, market price; buying power | plus, realizedPNL, updateAccount | simulated broker | positions that change sign | realized and unrealized profit add up to the change of equity |
| Event channel (`feeds/EventChannel.kt`) | buffer, closed, mutex | send, receive(timeout), close, waitOnClose | one feed or several, one run | suspended senders, timeouts against late events, closing with events inside | no event in the timeframe is lost, repeated or reordered |
| Run (`run.kt`, `feeds/Feed.kt`) | the feed's job, the loop | runAsync, playBackground | everything | two coroutines, cancellation, exceptions | the strategy sees the stream of events; nothing is left behind |
| Live feeds (`feeds/LiveFeed.kt`, `CombinedLiveFeed.kt`) | list of channels | sendAsync, play | market data threads, several runs at once | runs join and leave during a send, one thread for all | runs do not disturb each other |
| Combined feed (`feeds/CombinedFeed.kt`) | a priority queue with one event per feed | play | several feeds, one run | feeds at their own pace, shut-down | a merge in the order of time, complete |
| Aggregating feeds (`feeds/AggregatorFeed.kt`, `AggregatorLiveFeed.kt`) | history per asset, expiration | play | one feed, one run | window borders, gaps; a timer next to the receiver | every price is in exactly one bar |
| Traders (`traders/*`) | CircuitBreaker's history | createOrders | strategy, account | an account that lags behind the orders, orders that wait for a price | limits hold over time, not only per event |
| Strategies (`strategies/*`) | buffers per asset | createSignals | events | combination, parallel strategies | every signal once |
| Exchange rates (`brokers/*ExchangeRates.kt`), amounts and wallets (`common/Amount.kt`, `Wallet.kt`) | rates by time | getRate, convert | account | which rate at which time | direct and inverse rate agree |
| Alpaca, Interactive Brokers (`roboquant-alpaca`, `roboquant-ibkr`) | account as the service reports it | sync, placeOrders, callbacks | external services | callbacks on other threads, orders that change on their own | no status is lost |
| Journals, metrics, optimization, price buffers | recordings; circular buffers | track, add | runs in parallel | sharing between runs | |
| CSV, random, Avro, QuestDB feeds; charts, notebooks; TaLib | files, tables | parsing, rendering, numeric code | | conversions | |

A run ties them together. `runAsync` launches `feed.play(channel)` in a coroutine and
loops: `channel.receive`, `broker.sync(event)`, `strategy.createSignals`,
`trader.createOrders`, `broker.placeOrders`, `journal.track`. The channel is the only
thing the two coroutines share. Everything the loop calls is sequential; what a broker,
strategy or trader does with an event is private to its run.

`PROJECT.json` lists the components with the status of each, the ones that are not
modelled included, and under `hazards` what can go wrong in this code that a test would
hardly reach, at the line where it bites.

## 2. The plan

The order of work was the importance of the behaviour:

1. **OrderExecution, SimBroker.** Every back test result depends on them, and they are
   long sequences of legal calls on small state machines.
2. **EventChannel, Run, EventStream.** EventStream is the abstract specification: what a
   run promises to its strategy; Run is shown to implement it, with and without timeouts.
3. **LiveFeed.** The part with real concurrency.
4. **CombinedFeed**: two instances of EventChannel, for the feeds and for the run, and the
   merging coroutine; it implements EventStream too, a merge of several feeds by time.
5. **AggregatorFeed, AggregatorLiveFeed**: the windows, then the timer that shares the
   history with the receiver.
6. **Positions**, used by SimBroker for average price and realized profit, and **Trading**,
   the composition of strategies, FlexTrader, CircuitBreaker, CashAccount and broker.
7. **Proofs**: the executors and the broker, its lists, its trades and its ledger; Run and
   CombinedFeed, with the safety part of their refinements; LiveFeed; Trading; the two
   aggregating feeds.

All of this is done: every invariant the passing runs check is a theorem too. What could
still be added within reach of the tools is MarginAccount next to CashAccount in Trading.
Section 8 says what is not modelled and why.

## 3. What the modules model

### OrderExecution

The executors as values. `Legs` is a single order together with its
`SingleOrderExecutor`; the six classes of single order differ only in which of trigger,
limit, trail and offset they set, so they are one record. `ExecuteLeg` follows
`SingleOrderExecutor.execute` statement by statement: `Ratchet` (the override of the trail
executors), `Accept`, `Trigger`, `NewFill`, `Settle`. `ExecuteBracket`, `ExecuteOCO` and
`ExecuteOTO` follow the three combined executors; their results list the execution of
each leg in the order the code returns them. `Cancel` and `Modify` are the other two
methods of the interface; combined executors inherit a `modify` that refuses.

Prices and sizes are integers, percentages integer percents. A nullable field is a set
with at most one member. DAY compares whole seconds in the code; event times are integers
here and `DayLength` is the 24 hours.

### SimBroker

`book[id]` is the order with id `id` and its executor, `executors` the keys of the
`orderExecutors` map, `accountOrders` and `closedOrders` the two lists, by id.
A modification makes the executor hold another order object than the account; `frozen`
remembers the status of the one the account holds.

| Action | Code |
|---|---|
| `PlaceOrder`, `CancelOrder`, `ModifyOrder` | the three branches of `placeOrders` |
| `StartSync`, `SkipExecutor`, `ExecuteOrder`, `FinishSync` | `sync(event)` and `simulateMarket`: one step per executor |
| `SyncAccount` | `sync(null)` |
| `Reset` | `reset()` |

`sync` and `placeOrders` are synchronized: `pc` keeps other calls out while `sync` walks
over the executors. Cancellations and modifications are judged by the wall clock in the
code (`Instant.now()`), so the model gives them any time from the last event on. The
model gives events non-decreasing times, which every feed in the repository delivers
except for heartbeats (see section 8). The history variable `executed` records what each
leg has traded; no action reads it. A trade records its realized profit, as in the code,
and, as history, the executor and the leg it is of, which stay the same when the order is
modified.
Sums over the trades are recursive functions (`Total`, `TotalFraction`).

### Positions

`Plus` and `RealizedPNL` are the two methods of `Position`, each with the case distinction
of the code: a position that grows, shrinks, closes or changes its sign. An average of
prices is a fraction of integers instead of a double, so that sums can be compared exactly.

### EventChannel, Run, EventStream

`EventChannel` is a component the others build on: the channel is a record (buffer and
waiting senders in one queue, closed, the mutex), its methods are operators. A sender
whose event is beyond the capacity is suspended, exactly as in a coroutine channel;
closing leaves buffered and waiting events where they are.

`Run` has the feed's coroutine (`StartFeed` to `CloseChannel`: `playBackground`, `play` of
a historic feed, `channel.use`) and the worker (`TakeEvent` to `Abort`: `runAsync`).
`receive` is two steps, because with `withTimeout` the timeout can come between taking
the event and returning it: then the event is gone (`lost`) and a heartbeat is returned.
`timeOut` says whether the run has a timeout; `clock` is the wall clock that ends it.
`Abort` is an exception of a component, an interrupt, or the cancellation of the worker,
and can happen at any time; the job of the feed is cancelled in all cases, which the feed
notices only where the code is suspended.

`EventStream` is the abstract specification: of every feed the events in the timeframe, up
to the first one past it, each once, in the order of the feed; of several feeds always the
earliest of what is left; then the end; an abort at any time. A `lossy` stream may skip an
event (`Lose`) and end early, but never goes back. Run is the case of one feed: its
refinement mapping sends `handled`, the events of the feed the worker worked on, to
`delivered`, `lost` to `lost`, `timeOut` to `lossy`, and the worker's end to `outcome`.
Heartbeats are counted in `beats`. What is left of a feed is a set of positions in
EventStream (`Left`), so that a step is the same to TLC and to the provers.

### CombinedFeed

Three layers of coroutines: a feed each (`SendEvent`, `ResumeSend`, `EndFeed`), the merge
(`FetchEvent` to `EndMerge`: `process`), and `play` with the channel of the run
(`StartPlay` to `EndPlay`). The priority queue is a set of entries; among entries of the
same time any may come first. `joinAll` waits in turn for jobs that only ever end, so it
is one step that needs all of them; when the run cancels it, the jobs of the feeds and
the merge go on, because they belong to other scopes. The worker of the run is abstract
here and has no timeout; `Run` has its detail. The refinement mapping to EventStream is
the identity on `times` and `handled`.

### LiveFeed

Feeds with a thread each (`StartSend` to `PurgeChannels`: `sendAsync`), runs that start
and end when they want (`StartRun` to `Abort`), each with its job (`StartJob` to `EndJob`:
`playBackground`), and for every run and feed the coroutine that plays it (`AddChannel` to
`CancelWait`: `LiveFeed.play` and `waitOnClose`). A job is launched with its run and starts
when the pool gets to it; one that is cancelled before that (`NeverStarted`) runs none of
its body and closes no channel.
`StillOpen` is what `removeAll` leaves of the list when the loop is through.
`CombinedRuns` play their feeds with a `CombinedLiveFeed`: every feed in a coroutine that
belongs to the scope of `ParallelJobs` and is not cancelled with the run. The loop over
the list of channels takes no lock; `SendCrashes` is the ConcurrentModificationException
of its iterator. The loop of the run is abstract here; `Run` has its detail.

### AggregatorFeed

The feed below (`StartFeed` to `CloseFeed`) plays on a channel of its own; `play()`
(`StartPlay` to `ClosePlay`) reads it and keeps the bars of the current window in
`history`. `CloseWindow` and `OpenWindow` are the two halves of an event past the window,
with the suspended `send` between them. `NextExpiration` is the do-while loop that skips
empty windows, as one formula. The `finally` block is `EndWindows` and `EndPlay` when the
feed ends, and `CancelPlay` or `CancelRest` when the run is cancelled: there the rest is
sent only if the channel has room, and when it has not, the feed's job is not cancelled.
The history variable `upTo` remembers the last event that is in a bar.

### AggregatorLiveFeed

`TimerStep` is the coroutine of the timer (`job2`), `PlayStep` that of `play()`, `SendEvent`
the live feed. `StartPlay` launches the timer, which gets its first turn like all others,
by `WakeUp`; a run that is over before `play()` starts is `NeverStarted`: there is no timer
then, and nobody closes the channel. `TakeBars` is the section under the lock, `SendBars` the send after it.
The expiration time is read by `play()` without the lock, so the model lets it read any
value from the one the lock last made visible to it (`seen`) up to the current one. A bar
is the positions of the prices merged into it and of the price it continues, so that a
property can say which prices it has; AggregatorFeed has the arithmetic.

### Trading

An event is two steps: `Sync` (executions at the event's prices, market prices) and
`Trade` (`CombinedStrategy`, `FlexTrader.createOrders` signal by signal with the buying
power that is left, `CircuitBreaker`). `config` chooses among set-ups of the run: market or
limit orders, a circuit breaker or none, one strategy or two, events with all prices or
not. Which signals a strategy creates is left open. An order remembers the price and the
purpose (opening a position or not) it was made for; no action reads them. Which orders trade, what
they cost and which wait are functions of the orders and the event's prices (`Sizes`,
`Costs`, `Waiting`); a plan of orders grows signal by signal (`CreateOrders`). A strategy
rates an asset at most once per event, as the strategies of the repository do, which go
through `event.prices`.

## 4. What the runs check

| Run | Question | Instance |
|---|---|---|
| `sim_broker` | do orders trade at most once and in force, do combined orders keep their promise, do the ledger and the profit agree? | two single orders out of seven (every class of single order, every time-in-force), or one out of fourteen bracket, OCO and OTO orders whose legs can be filled, expire on the very event that fills them, or expire unfilled; two modifications, cancellations, a reset; three prices, three event times, a fee of 50 % |
| `run` | does a run show its strategy the stream, what do timeouts cost, and does it stop? | without timeouts every feed of up to four events with times 1..4, in order or not, and one of five; with timeouts four feeds, three heartbeats, a clock that runs past the end; timeframe [2, 3] inclusive, buffer of two |
| `live_feed` | do runs that share a feed disturb each other? | one feed with three events, the last past the timeframe; two runs, one in a combination; buffer of one |
| `combined_feed` | is the combination a merge by time, and complete? | two feeds of up to two events each with times 1..4, in order or not, longer ones, three feeds, one, none; timeframe [2, 4); all buffers of one |
| `aggregator_feed` | is every price in exactly one bar? | every feed of up to four events in the order of time, from before to after the timeframe [3, 8], period of two, two patterns of items with two assets; with and without `remaining`; buffer of one |
| `aggregator_live_feed` | do the timer and the receiver lose or repeat a price? | every feed of up to two prices and heartbeats, some of three, one with two assets; period of two, timeframe [1, 4]; with and without `remaining` and `continuation`; buffer of one |
| `trading` | do the limits of trader and circuit breaker hold over time? | two assets, prices 1 and 3, a deposit of 22 with 55 % per order, so that two orders need more than there is; four set-ups; five events at times 0..2 |

The other five runs show the findings of section 7, on the same instances (`play_returns`
with a second feed).

What they show:

- **An order trades its whole size once or nothing** (`NoOverfill`), although an executor
  that expires on the event that fills it remembers a fill that never traded.
- **OCO, OTO and bracket orders**: `OneCancelsOther`, `SecondaryAfterPrimary`,
  `OneBracketExit` say of trades, not of statuses, that one order excludes or presupposes
  the other.
- **Statuses and lists tell the truth**: `CompletedMeansTraded`,
  `OpenOrdersHaveExecutors`, `ClosedOrdersStayClosed`; `TradesInForce` ties every trade to
  the time-in-force of its order, be the order modified or a leg of a combined one, and a
  FOK order to the first event it sees, but for the legs of combined orders (section 7).
- **The account adds up**, across a reset too: `LedgerBalances` ties cash and positions to
  the trades, `ProfitAddsUp` the cost and the realized profit of the trades in an asset to
  the average price of what is held of it, whatever positions grow, shrink or change sign.
- **A run implements EventStream** (`StreamsEvents`, safety and liveness), never keeps more
  than one event outside of the buffer (`BoundedQueue`), and always stops its feed
  (`FeedStops`). With timeouts it may miss events, but never shows one out of order or
  twice, and whenever it sees one, it has seen at least as many heartbeats as it missed
  events before (`LossesShow`).
- **A combination of feeds is merged by time** (`MergesStreams`, the same specification),
  because the merge holds one event of every feed that has any left when it picks one
  (`HoldsOnePerFeed`). Without an abort nothing is left when the run is over
  (`NothingLeftBehind`). An aborted run leaves the coroutines of the feeds and the merge
  suspended, as nobody cancels them; what they keep in memory is bounded (`BoundedLead`).
- **A send of a live feed that ends normally skipped no run** that was listed when it
  started (`NoSilentLoss`); every run sees a feed's events in order and once (`InOrder`);
  a slow run only delays (`SendersGoOn`, which excepts a sender that is suspended on the
  channel of a run that is over: closing a channel does not release it); the jobs of runs
  stop, and no feed is left with the open channel of a run that is over (`JobsStop`): it
  is closed, or was never added when the job was cancelled before it started.
- **Bars cut a feed into pieces** (`EveryPriceInOneBar`): each price in the one bar of its
  window, with the first, last and extreme prices and the volume of the window, and none
  from after the bar's time. `NothingMissing` names what a finished run may not have seen:
  a window that ends past the timeframe, and the last one if `remaining` is off. `RunEnds`
  and `JobsStop` are the two ends.
- **The timer's race is harmless for prices** (`NoPriceTwice`): bars are made of
  consecutive prices, none is in two of them. `NothingMissing` names the one loss: bars the
  timer took and had not sent when `play()` closed the channel, even with `remaining` on.
  It says so of runs whose first period ends in the timeframe or later (`Start <= FirstEnd`):
  the channel drops bars from before the timeframe, and nothing in the code relates the
  clock that `play()` starts its periods from to the timeframe of the run.
  `PricesArrive` is the liveness of the timer; by `PlayStops`, `play()` stops with the run
  and has closed the channel, unless the run was over before it began.
- **Trading**: `NoOverdraft`, positions being opened are paid for by the cash, but for what
  prices move between signal and trade, as long as the account may not go short (with
  shorting, the cash of short sales is buying power for the orders to come);
  `OneOrderAtATime`, the orders of one strategy that wait for their price still fit the
  position when they trade, and none makes it negative unless it may (two strategies are
  the run `short_positions`); `BatchesWithinLimit`, the limit of the
  circuit breaker holds over every period and not only for the batch at hand.

Why the bounds are enough: an executor's decisions compare one price with two thresholds
and one time with one limit, so three prices and DayLength = 2 with event times up to
three reach every combination of triggered, filled, expired; two orders are enough for the
lists to disagree and for a position to grow, shrink and turn; orders interact in no other
way. The channel's states are empty, partly filled, full, and full with a sender waiting,
all reached with a buffer of two and five events. The merge's decision compares the heads
of the feeds, which two feeds decide; three make it more than one comparison. A live
feed's send meets runs that join before, during and after it; two runs and two events in
the timeframe give each of these. Four events and a period of two in [3, 8] give windows
with none, one and several events, events at the very end of a window, and gaps of one and
of two windows. The timer of the live aggregation gets two turns within the timeframe,
one next to each price. In Trading five events are a batch, its trades, a second batch and
its trades, and one more. Every action of every module fires in some passing run.

Bounds in the guards: in SimBroker `MaxOrders` (orders and resets together), `MaxTime`,
`LastPlacement` (no order or modification later than this), `MaxWall` and `Alone` (a
combined order is the only order of its run); `MaxClock` and `MaxHeartbeats` (Run);
`MaxFeeds` (CombinedFeed); `LastTime` (LiveFeed); `LastEnd` (AggregatorLiveFeed: all later
periods are past the timeframe as this one is); `MaxEvents` and `MaxTime` (Trading). The
runs of Run, CombinedFeed, LiveFeed and the aggregating feeds set `CHECK_DEADLOCK FALSE`
because a run that is over stops, Trading because it stops at `MaxEvents`; SimBroker is
checked for deadlock: it always accepts a sync.

## 5. Fairness

SimBroker and Trading are called, so they have none. In Run, the feed's coroutine and the
worker each have weak fairness: both run on `Dispatchers.Default`, whose threads serve
every coroutine that can go on. Timeouts, aborts and the clock have none: nobody has to
abort a run, and no timeout has to fire. CombinedFeed has the same for every feed, the
merge, `play` and the worker, AggregatorFeed for the feed below, `play` and the worker,
AggregatorLiveFeed for the timer, `play` and the worker; that periods end is part of the
timer's fairness (`delay` returns), that a live feed sends anything is part of none.
In LiveFeed one weak fairness condition covers all threads and coroutines together: as
long as some of them can go on, one does. That is the least a scheduler can promise; the
counterexample of `play_returns` holds under it too, because nobody can go on when it
stops. Sending an event, starting a run and ending one have no fairness.

## 6. What is proved

The theorems hold for every value of the constants, under the named assumptions of the
modules. About the simulated broker, for every catalogue of orders, all prices, all times
and all bounds:

| Theorem | Property | Module |
|---|---|---|
| `TypeCorrect` | `TypeOK` | `SimBrokerProofs` |
| `NeverOverfilled` | `NoOverfill` | |
| `OneCancelsTheOther` | `OneCancelsOther` | |
| `OneTriggersTheOther` | `SecondaryAfterPrimary` | |
| `OneExitOnly` | `OneBracketExit` | |
| `StatusTellsTrades` | `CompletedMeansTraded` | |
| `ClosedIsFinal` | `ClosedOrdersStayClosed` | |
| `ListsAgree` | `OpenOrdersHaveExecutors` | |
| `TradesAreTimely` | `TradesInForce` | |
| `LedgerIsBalanced` | `LedgerBalances` | |
| `ProfitIsComplete` | `ProfitAddsUp` | |

about a run, for every feed, timeframe and capacity, with and without timeouts, and about
a combination of any number of feeds of any length:

| Theorem | Property | Module |
|---|---|---|
| `TypeCorrect` | `TypeOK` | `RunProofs` |
| `QueueIsBounded` | `BoundedQueue` | |
| `LossesAreShown` | `LossesShow` | |
| `StreamsInOrder` | `StreamsEvents` without its liveness | |
| `TypeCorrect` | `TypeOK` | `CombinedFeedProofs` |
| `MergeIsReady` | `HoldsOnePerFeed` | |
| `FinishedMeansDone` | `NothingLeftBehind` | |
| `LeadIsBounded` | `BoundedLead` | |
| `MergesInOrder` | `MergesStreams` without its liveness | |

about live feeds, for any number of feeds, runs and events, and about trading, for all
assets, prices, percentages and limits, and whatever signals the strategies create:

| Theorem | Property | Module |
|---|---|---|
| `TypeCorrect` | `TypeOK` | `LiveFeedProofs` |
| `NothingIsLost` | `NoSilentLoss` | |
| `EventsInOrder` | `InOrder` | |
| `OpenRunsStayListed` | `OpenRunsListed` (stated there) | |
| `TypeCorrect` | `TypeOK` | `TradingProofs` |
| `CashIsEnough` | `NoOverdraft` | |
| `OneOrderPerAsset` | `OneOrderAtATime` | |
| `BatchesAreLimited` | `BatchesWithinLimit` | |

about the aggregating feeds, for every feed in the order of time (the live one: of prices
and heartbeats), every period, timeframe and capacity:

| Theorem | Property | Module |
|---|---|---|
| `TypeCorrect` | `TypeOK` | `AggregatorFeedProofs` |
| `EveryPriceIsInOneBar` | `EveryPriceInOneBar` | |
| `NothingIsMissing` | `NothingMissing` | |
| `TypeCorrect` | `TypeOK` | `AggregatorLiveFeedProofs` |
| `NoPriceIsTwice` | `NoPriceTwice` | |
| `NothingIsMissing` | `NothingMissing` | |

The assumptions are `BoundsAssumption` and `OrderAssumption` (orders are what the
constructors accept), `DayLengthAssumption`, `ChannelAssumption` (capacities of at least
one), `RunAssumption` and `CombinedFeedAssumption` (times are numbers),
`LiveFeedAssumption`, `TradingAssumption` (a strategy rates an asset once),
`AggregatorAssumption` and `AggregatorLiveAssumption`.

**The broker.** `OrderExecutionProofs` has one lemma per operator of a single order, then
one per kind of executor, ending in `ExecuteFacts`, `CancelFacts` and `ModifyFacts`: what a
call can do to an executor in which every leg's trades and fill fit together.
`SimBrokerProofs` lifts them to the broker. None of the invariants is inductive. What a leg
may trade next depends on the fill its executor remembers, and an order that expired on
the event that filled it has a fill but no trade. The inductive invariant is
`Inv == TypeOK /\ Consistent`, where `Consistent` says of every executor (`ExecutorInv`)
that each leg has traded nothing or the fill it remembers; that a leg that is open has no
fill; and for each kind what its status and its legs' fills say about each other: for a
bracket that at most one exit has a fill, for an OCO that an execution of one leg makes it
the active one and closes the order, for an OTO that the secondary order is untouched
until the primary one is COMPLETED. Each action preserves it (`PlaceOrderInv` to
`ResetInv`), and each property follows from it. `ClosedIsFinal` is an action property; its
proof uses that the broker skips closed executors and that cancel and modify refuse them.

**Its lists and trades.** The module adds two invariants to that one. `Listed`
says of every open order where it is, in the middle of a sync too: on the account's list
and in the map. `ForceInv` says of every trade that its leg was in force (`Timely`) and is
filled, so that no later call can change what the trade is measured by, and that no single
FOK order is still ACCEPTED after an event (`Patient`). What a call keeps of a leg
(`Keeps`), and that a trade comes from a leg it fills while it is in force (`TradeStep`),
are lemmas about the executors, up to `ExecuteTrades`, `CancelTrades` and `ModifyTrades`.
`Concatenated` and `StillTimely` are the lemmas about the list of trades, which an
execution only extends.

**Its ledger.** The two equations are inductive by themselves
(`LedgerInv`, with the types of `SimBrokerProofs`); an execution is the step from one
balanced ledger to the next (`LegLedger`). What is to be shown is what one more
trade does to the sums (`TotalOfMore` and its like), and that `Plus` and `RealizedPNL`
agree on every trade, whether a position grows, shrinks, closes or turns around.

**A run.** That no event is lost but by a timeout is not inductive. The invariant of
`RunProofs` follows every event on its way: to be sent, in the queue, in the hands of the
worker, done with (`OrderInv`); nothing that was sent is missing, and what is not sent any
more is nothing the run may see (`ProgressInv`); an event is lost only in favour of a
heartbeat, so there are no more of them than of heartbeats (`LossInv`). `Stream!Init`
and one lemma per action give `StreamsInOrder`: when the worker handles an event it is the
first that is left.

**The merge.** In `CombinedFeedProofs` the invariant has four parts: `FeedsInv`, a feed
that is not suspended finds room in its channel, and a suspended one waits for the last
event of the queue; `MergeInv`, what the merge holds in each of its states (`Holding`: in
`prefill` of the feeds before `source`, after a send of all but `source`), all of it in
the timeframe, because the channel of a feed lets nothing else through; `MainInv`, the
channel of the run; `EndInv`, while the run goes on nobody but `play()` closes that
channel, and `play()` does so when feeds and merge have stopped. The last follows because
the merge never meets an event past the timeframe, which would close the channel. For
`MergesInOrder` every event of every feed is followed from its feed to the run, and what
was merged is in the order of the times.

**Live feeds.** `LiveFeedProofs` says where the channel of a run is (`ListInv`: in the list
of a feed at most once, and there as long as it is open), that every run behind the cursor
has got the event, is over or has closed its channel (`LossInv`), and which events of a
feed can be on their way to a run at all (`OrderInv`): those before the one being sent, and
that one only to runs behind the cursor. Runs only join at the end of a list, and only the
loop's own feed removes from it, when the loop is through.

**Trading.** `OrdersInv` of `TradingProofs` is `OneOrderAtATime` for every set-up in which
no two orders can be on their way for one asset: one strategy, and either oneOrderOnly or
events with all prices. `SettledInv` says that without limits and gaps every order trades
on the next event, so `FlexTrader` plans with the cash there is. `CashIsEnough` follows a
plan from signal to signal (`Good`): what it has spent and what is left of the buying power
are always the buying power less the safety margin, and nothing is spent below zero.
`BatchesAreLimited` needs that the history is in the order of time (`HistoryInv`): only
then does reading it up to the first entry that is too old count all of the period
(`RecentFacts`).

**The aggregating feed.** `AggregatorFeedProofs` follows the events from the feed below to
`play()` (`PathInv`): the ones that are in bars, the one at hand, those in the inner
channel, those the feed has not sent. `WindowInv` is about the window: it ends at a multiple
of the period, at most one period after the last event in it. `LinkInv`
ties the history to the feed: its bars show exactly the stretch of events from the last
bars that were sent up to `upTo`. So the bars that were sent (`SentInv`) and those the
strategy has got (`EndInv`) are a chain of such stretches, which is
`EveryPriceInOneBar`. The volume of a bar is the last of the running totals of its items,
its extremes are prices that are attained and not passed by another. One more item keeps
that true (`ShowsOneMore`), and the loop over the items of an event is followed with
`Along`. `OutInv` is the other half, for `NothingMissing`: a price that was not sent is
still ahead or in a window that ends after the timeframe, and while `play()` works nothing
but bars from after the timeframe closes its channel. What the strategy got is an invariant
of its own because the others say little once the run is cancelled: a cancelled `play()`
may send the bars of the window again in `finally`, which nobody takes any more.

**The aggregating live feed.** In `AggregatorLiveFeedProofs`, bars are in four places: sent,
in the hands of the timer, in those of `play()`, in the history. The history has the latest
prices of an asset, all of them from one event on (`HistoryInv`); asset by asset, what left
it is older than what is in it (`Whole`), and what was taken under the lock shares no price
with what was sent (`HandInv`), although the one that took its bars first may send them
last. The timer's bars come in the order of their times because it sends once per
expiration time, which only moves on, and a channel takes no bars from after its timeframe.
`KeptInv` says that a price `play()` took is in one of the four places, or in the bars the
timer gave up at a closed channel (`dropped`), as long as the timer is within the timeframe,
and that until then nobody but `play()` closes the channel.

**Induction.** Sums, plans, and what is left of a list are recursive functions. That such a
function exists, and what holds along it, is proved from the least element of a set of
numbers (`LeastElement`, `Induct`, `Along`, `Recursion`), with sets in place of the
predicates the provers cannot instantiate. The modules that need it each state it.

**Only model-checked**: liveness and `ENABLED` are out of this prover's reach, so
`FeedStops`, `SendersGoOn`, `JobsStop`, `RunEnds`, `PricesArrive`, `PlayStops` and the
liveness in `StreamsEvents` and `MergesStreams` rest on the runs.

## 7. Findings

Five runs are expected to fail; each shows where the code does something else than its
comments say.

- **A modified order stays in the account** (`account_lists_open`). `update` puts the new
  order under the executor; the account keeps the old object, whose status nobody updates.
  When the executor is done, `Account.orders`, "List of all open orders", still has it, and
  `FlexTrader` with oneOrderOnly never trades that asset again.
- **Exits without an entry** (`exits_follow_entry`). When the entry of a bracket order
  expires, the exits are executed on the next events and open a position.
- **An expired FOK leg trades** (`expired_leg_trades`). An open OCO executes its legs
  whatever their status: a FOK leg that expired on the first event it saw is executed again
  on the next one, fills, trades and becomes COMPLETED, although a FOK order is to be
  executed "immediately" or cancelled and an EXPIRED order "doesn't allow for any more
  trading". The exits of a bracket are executed in the same way; the entry of a bracket and
  the primary order of an OTO only while they are open.
- **`waitOnClose` wakes one waiter** (`play_returns`). The mutex of a channel is unlocked
  once; with two feeds in a `CombinedLiveFeed` the other play waits forever, and so does
  `joinAll`.
- **Two signals close a position twice** (`short_positions`). `oneOrderOnly` does not see
  the orders created for earlier signals of the same event, `CombinedStrategy` does not
  apply its resolver, and a reducing order is not tested against `shorting`.

What else the models show, without a comment of the code that says otherwise:

- SimBroker: a cancellation or modification that comes after an order's time by the wall
  clock expires it, in a back test long before its time in the market; nothing says which
  clock decides. The properties of the broker hold whatever that clock says.
- Brackets: an exit that was filled by the event on which it expired counts for the
  COMPLETED of the bracket, although it never traded (`CompletedMeansTraded` excepts
  brackets).
- LiveFeed: a sender that is suspended on a full channel of a run that was aborted is never
  released, so that feed sends nothing more to any run (the exception in `SendersGoOn`).
- AggregatorFeed: an event exactly at the end of a window opens the next window when it
  comes right after it, but is in the window that ends there when it comes after a gap.
  An aborted run whose channel is full leaves the feed below suspended: the send in
  `finally` throws before the job is cancelled.
- AggregatorLiveFeed: besides the loss named above, the last bars may carry an older time
  than those the timer sent; and the timer goes on when `play()` ends by cancellation or by
  a heartbeat that meets a closed channel, until it meets the closed channel itself.
- FlexTrader: a SELL rating that may open a position buys, as the size of an opening order
  ignores the direction of the signal.
- CircuitBreaker: a batch larger than the whole allowance is let through, as the test for
  it answers "does not exceed" (`BatchesWithinLimit` excepts such batches).

## 8. What is left out

- **IBKRBroker, AlpacaBroker**, and the feeds of these modules. What they do depends on a
  service whose callbacks and responses the repository does not show; a model would be of
  an invented service. Two hazards of theirs are listed.
- **Exchange rates, amounts, wallets, price buffers, time utilities, optimization**:
  sequential helpers with no protocol of their own, which unit tests reach.
- **Journals and metrics, charts, notebooks, TaLib, CSV, Avro, QuestDB**: recording,
  rendering, parsing, numeric code. `echarts.mjs`, the only JavaScript file and by far the
  longest of the repository, is a vendored copy of a third-party chart library that
  `ImageCreator` loads to draw pictures.
- MarginAccount, whose leverage changes only the formula of the buying power; `minPrice`,
  fractions, the bracket and single-asset variants of FlexTrader, and the trader that
  shuffles signals first (`SignalResolution.kt`); the 90 days of GTC in Trading; several
  currencies.
- A `reset` during a `sync`: it is not synchronized, but nobody in the repository calls it
  from another thread.
- Heartbeats whose time is later than that of an event still in the buffer: SimBroker
  assumes non-decreasing times. A heartbeat has no prices, so all it can do to the broker
  is to set `lastUpdate` back and forth.
- Exceptions of a feed: they close the channel like the end of the feed does.
- REJECTED: the simulated broker never rejects an order.
- Order objects that are placed twice, and instructions for ids of another broker.
- Wording, logging, the progress bar, and everything listed as `not_modelled` in
  `PROJECT.json`, with the reason there.
