------------------------------- MODULE Trading -------------------------------
(***************************************************************************)
(* What a run does with an event, from sync to placeOrders (run.kt): the   *)
(* simulated broker with a CashAccount, the strategies whose signals a     *)
(* CombinedStrategy puts together, the FlexTrader, and the CircuitBreaker  *)
(* around it. An event is two steps: Sync and Trade.                       *)
(*                                                                         *)
(* FlexTrader creates market orders, or limit orders in its limitOrders    *)
(* variant. They trade in full on the first event with a price of their    *)
(* asset that is within their limit; SimBroker has executors in detail.    *)
(* One currency, no fees; amounts are in hundredths where a percentage of  *)
(* one is taken.                                                           *)
(***************************************************************************)
EXTENDS Integers, SequencesExt

CONSTANTS
    Assets, Prices,
    Configs,          \* the configurations to try, see ConfigSpecs
    Outputs,          \* what each of n strategies may return for an event: a
                      \* strategy rates an asset at most once
    Deposit,          \* initialDeposit
    OrderPercentage,  \* orderPercentage of the FlexPolicyConfig
    SafetyMargin,     \* safetyMargin, also in percent
    LimitPercentage,  \* limitPercentage of FlexTrader.limitOrders
    Shorting,         \* shorting
    MaxOrders,        \* maxOrders of the CircuitBreaker
    Period,           \* its period
    MaxTime,          \* bound: time of the last event
    MaxEvents         \* bound: events in a run

SignalSpecs == [asset : Assets, direction : {-1, 0, 1}, type : {"ENTRY", "EXIT", "BOTH"}]

(* oneOrderOnly of the FlexPolicyConfig; whether the trader creates limit  *)
(* orders, and is behind a CircuitBreaker; how many strategies there are   *)
(* to combine; and whether an event may lack the price of an asset.        *)
ConfigSpecs ==
    [oneOrderOnly : BOOLEAN, limits : BOOLEAN, breaker : BOOLEAN,
     strategies : DOMAIN Outputs, sparse : BOOLEAN]

ASSUME TradingAssumption ==
    /\ Prices \subseteq Nat \ {0} /\ Deposit \in Nat
    /\ OrderPercentage \in Nat /\ SafetyMargin \in Nat /\ Shorting \in BOOLEAN
    /\ LimitPercentage \in 0..100
    /\ MaxOrders \in Nat /\ Period \in Nat /\ MaxTime \in Nat /\ MaxEvents \in Nat
    /\ \A c \in Configs : c \in ConfigSpecs
    /\ IsFiniteSet(Assets) /\ DOMAIN Outputs \subseteq Nat \ {0}
    /\ \A n \in DOMAIN Outputs : \A s \in Outputs[n] :
          /\ s \in Seq(SignalSpecs)
          /\ \A i, j \in DOMAIN s : s[i].asset = s[j].asset => i = j

VARIABLES
    config,     \* how the run was set up
    pc,         \* the worker syncs the broker or trades
    time,       \* event.time
    prices,     \* event.prices, at most one per asset
    positions,  \* account.positions: sizes, 0 when there is none
    mktPrice,   \* the market price of a position
    cash,       \* account.cash
    orders,     \* account.orders: what has not traded yet
    history,    \* history of the CircuitBreaker, the newest first
    sent,       \* history variable: the batches a CircuitBreaker let through
    slippage,   \* history variable: what prices cost between signal and trade
    events      \* the number of events so far

account == <<positions, mktPrice, cash>>
vars    == <<config, pc, time, prices, account, orders, history, sent, slippage, events>>

Quotes == {{}} \cup {{p} : p \in Prices}

(* The events a feed may deliver.                                          *)
EventPrices ==
    {ps \in [Assets -> Quotes] : config.sparse \/ \A a \in Assets : ps[a] # {}}

(* The sum of a sequence of numbers.                                       *)
Total(s) ==
    LET sum[n \in 0..Len(s)] == IF n = 0 THEN 0 ELSE sum[n - 1] + s[n]
    IN  sum[Len(s)]

Init ==
    /\ config \in Configs
    /\ pc = "sync" /\ time = 0 /\ prices = [a \in Assets |-> {}]
    /\ positions = [a \in Assets |-> 0] /\ mktPrice = [a \in Assets |-> 0]
    /\ cash = Deposit
    /\ orders = <<>> /\ history = <<>> /\ sent = <<>>
    /\ slippage = 0 /\ events = 0

-----------------------------------------------------------------------------
(* broker.sync(event): orders whose asset has a price trade, then the      *)
(* market prices are updated.                                              *)
Price(ps, a) == CHOOSE p \in ps[a] : TRUE
Fills(ps, o) ==
    \E p \in ps[o.asset] : \A l \in o.limit :
        IF o.size > 0 THEN 100 * p <= l ELSE 100 * p >= l
Cost(ps, o) == o.size * Price(ps, o.asset)

(* What the price moved against an order that opens a position.            *)
Slip(ps, o) ==
    LET cost == Cost(ps, o) - o.size * o.price
    IN  IF o.opens /\ cost > 0 THEN cost ELSE 0

(* What the orders that trade add to the position of an asset, what they   *)
(* cost, and the orders that have to wait.                                 *)
Sizes(ps, a) == [i \in DOMAIN orders |->
                    IF Fills(ps, orders[i]) /\ orders[i].asset = a THEN orders[i].size ELSE 0]
Costs(ps)    == [i \in DOMAIN orders |->
                    IF Fills(ps, orders[i]) THEN Cost(ps, orders[i]) ELSE 0]
Slips(ps)    == [i \in DOMAIN orders |->
                    IF Fills(ps, orders[i]) THEN Slip(ps, orders[i]) ELSE 0]
Waiting(ps)  ==
    LET left[n \in 0..Len(orders)] ==
            IF n = 0 THEN <<>>
            ELSE IF Fills(ps, orders[n]) THEN left[n - 1]
            ELSE Append(left[n - 1], orders[n])
    IN  left[Len(orders)]

Sync(t, ps) ==
    /\ pc = "sync" /\ events < MaxEvents
    /\ time' = t /\ prices' = ps /\ events' = events + 1
    /\ positions' = [a \in Assets |-> positions[a] + Total(Sizes(ps, a))]
    /\ cash' = cash - Total(Costs(ps))
    /\ orders' = Waiting(ps)
    /\ mktPrice' = [a \in Assets |-> IF ps[a] = {} THEN mktPrice[a] ELSE Price(ps, a)]
    /\ slippage' = slippage + Total(Slips(ps))
    /\ pc' = "trade"
    /\ UNCHANGED <<config, history, sent>>

-----------------------------------------------------------------------------
(* CombinedStrategy.createSignals: one strategy after the other, and the   *)
(* SignalResolver is not applied.                                          *)
Signals == {FlattenSeq(outputs) :
                outputs \in [1..config.strategies -> Outputs[config.strategies]]}

(* equityAmount, and the buying power of the CashAccount.                  *)
Equity        == cash + SumFunction([a \in Assets |-> positions[a] * mktPrice[a]])
ShortExposure == SumFunction([a \in {b \in Assets : positions[b] < 0} |->
                                   -positions[a] * mktPrice[a]])
BuyingPower   == 100 * (cash - ShortExposure)

(* FlexTrader.createOrders for one signal, with what is left of the buying *)
(* power.                                                                  *)
AmountPerOrder == Equity * OrderPercentage
Sign(n)        == IF n > 0 THEN 1 ELSE IF n < 0 THEN -1 ELSE 0

(* calcSize rounds down to whole contracts, and ignores the signal.        *)
CalcSize(price) ==
    LET contract == 100 * price
    IN  IF AmountPerOrder >= 0 THEN AmountPerOrder \div contract
        ELSE -((-AmountPerOrder) \div contract)

(* Mutant: orders that are open already are not looked at.                 *)
SkippedWithoutPrice(s) == prices[s.asset] = {}

Skipped(s) ==
    \/ prices[s.asset] = {}
    \/ config.oneOrderOnly /\ \E i \in DOMAIN orders : orders[i].asset = s.asset

(* Mutant: a rating that is neither BUY nor SELL reduces nothing at all.   *)
ReducesNothing(s) == s.type # "ENTRY" /\ s.direction = -Sign(positions[s.asset])

Reduces(s) ==
    /\ positions[s.asset] # 0
    /\ s.type # "ENTRY"
    /\ s.direction = -Sign(positions[s.asset])

Opens(s, power) ==
    LET size == CalcSize(Price(prices, s.asset))
    IN  /\ positions[s.asset] = 0
        /\ s.type # "EXIT"
        /\ AmountPerOrder <= power
        /\ size # 0 /\ (size < 0 => Shorting)

(* createOrder: a MarketOrder, or a LimitOrder that is below the price for *)
(* a buy and above it for a sell. The fields from price on are history.    *)
Order(s, size, opens) ==
    LET price == Price(prices, s.asset)
    IN  [asset |-> s.asset, size |-> size,
         limit |-> IF config.limits THEN {price * (100 - LimitPercentage * Sign(size))} ELSE {},
         price |-> price, opens |-> opens]

(* Mutant: every order has the whole buying power.                         *)
TradeSignalFreely(plan, s) ==
    LET a    == s.asset
        size == CalcSize(Price(prices, a))
    IN  IF Skipped(s) THEN plan
        ELSE IF Reduces(s)
        THEN [plan EXCEPT !.orders = Append(@, Order(s, -positions[a], FALSE))]
        ELSE IF Opens(s, plan.power)
        THEN [plan EXCEPT !.orders = Append(@, Order(s, size, TRUE))]
        ELSE plan

TradeSignal(plan, s) ==
    LET a        == s.asset
        size     == CalcSize(Price(prices, a))
        exposure == 100 * Sign(size) * size * Price(prices, a)
    IN  IF Skipped(s) THEN plan
        ELSE IF Reduces(s)
        THEN [plan EXCEPT !.orders = Append(@, Order(s, -positions[a], FALSE))]
        ELSE IF Opens(s, plan.power)
        THEN [orders |-> Append(plan.orders, Order(s, size, TRUE)),
              power  |-> plan.power - exposure]
        ELSE plan

CreateOrders(signals) ==
    LET plan[n \in 0..Len(signals)] ==
            IF n = 0 THEN [orders |-> <<>>, power |-> BuyingPower - Equity * SafetyMargin]
            ELSE TradeSignal(plan[n - 1], signals[n])
    IN  plan[Len(signals)].orders

(* Mutant: a batch as large as what is left is counted from the last one.  *)
ExceedsLast(n) == n <= MaxOrders /\ history # <<>> /\ n + history[1].orders > MaxOrders

(* CircuitBreaker: the history is read up to the first entry that is too   *)
(* old. A batch that is too large by itself is not stopped.                *)
Recent ==
    LET oldest(n) == history[Len(history) + 1 - n]
        recent[n \in 0..Len(history)] ==
            IF n = 0 THEN 0
            ELSE IF oldest(n).time < time - Period THEN 0
            ELSE oldest(n).orders + recent[n - 1]
    IN  recent[Len(history)]

Exceeds(n) == n <= MaxOrders /\ n + Recent > MaxOrders

Trade(signals) ==
    /\ pc = "trade"
    /\ LET new   == CreateOrders(signals)
           batch == [time |-> time, orders |-> Len(new)]
       IN  IF new = <<>> \/ (config.breaker /\ Exceeds(Len(new)))
           THEN UNCHANGED <<orders, history, sent>>
           ELSE /\ orders' = orders \o new
                /\ history' = IF config.breaker THEN <<batch>> \o history ELSE history
                /\ sent' = IF config.breaker THEN Append(sent, batch) ELSE sent
    /\ pc' = "sync"
    /\ UNCHANGED <<config, time, prices, account, slippage, events>>

Next ==
    \/ \E t \in time..MaxTime, ps \in EventPrices : Sync(t, ps)
    \/ \E signals \in Signals : Trade(signals)

Spec == Init /\ [][Next]_vars

-----------------------------------------------------------------------------
(* Properties                                                              *)

Batches    == [time : Nat, orders : Nat]
OrderSpecs == [asset : Assets, size : Int, limit : SUBSET Nat, price : Prices, opens : BOOLEAN]

(* The shape of the state; market orders have a size other than 0.         *)
TypeOK ==
    /\ config \in ConfigSpecs /\ pc \in {"sync", "trade"}
    /\ time \in 0..MaxTime /\ prices \in [Assets -> Quotes]
    /\ positions \in [Assets -> Int] /\ mktPrice \in [Assets -> Prices \cup {0}]
    /\ cash \in Int /\ slippage \in Nat /\ events \in 0..MaxEvents
    /\ orders \in Seq(OrderSpecs) /\ \A i \in DOMAIN orders : orders[i].size # 0
    /\ history \in Seq(Batches) /\ sent \in Seq(Batches)

(* A cash account that does not go short is not overdrawn by what the      *)
(* trader buys: as long as no order has to wait, and no two strategies rate*)
(* the same asset, the cash pays for every position that is being opened,  *)
(* but for what prices move between the signal and the trade.              *)
Opening(list) == [i \in DOMAIN list |-> IF list[i].opens THEN list[i].size * list[i].price ELSE 0]

NoOverdraft ==
    ~Shorting /\ ~config.sparse /\ ~config.limits /\ config.strategies = 1 =>
        cash + slippage >= Total(Opening(orders))

(* With oneOrderOnly and one strategy, positions are opened and closed in  *)
(* turn: however long an order has to wait for its price, it opens what is *)
(* not there or closes all that is there, no other order is in its way,    *)
(* and no position goes short that may not.                                *)
OneOrderAtATime ==
    config.oneOrderOnly /\ config.strategies = 1 =>
        /\ ~Shorting => \A a \in Assets : positions[a] >= 0
        /\ \A i, j \in DOMAIN orders : orders[i].asset = orders[j].asset => i = j
        /\ \A i \in DOMAIN orders :
            IF orders[i].opens THEN positions[orders[i].asset] = 0
            ELSE orders[i].size = -positions[orders[i].asset]

(* CircuitBreaker: a batch that is not too large by itself never brings    *)
(* the orders of a period above the limit, whatever came before it.        *)
Counted(k) == [j \in 1..k |-> IF sent[j].time >= sent[k].time - Period
                              THEN sent[j].orders ELSE 0]

BatchesWithinLimit ==
    \A k \in DOMAIN sent : sent[k].orders <= MaxOrders => Total(Counted(k)) <= MaxOrders

(* FlexPolicyConfig: "shorting: Can the trader create orders that          *)
(* potentially lead to short positions, default is false".                 *)
NoShortPositions == ~Shorting => \A a \in Assets : positions[a] >= 0
=============================================================================
