------------------------------ MODULE SimBroker ------------------------------
(***************************************************************************)
(* The simulated broker (brokers/sim/SimBroker.kt): the orders it was      *)
(* given, the executors that are still working on them, and the account.   *)
(*                                                                         *)
(* Orders are numbered in the order they are placed, as nextOrderId does;  *)
(* book[id] is the order object and its executor, executors the keys of    *)
(* the orderExecutors map, accountOrders and closedOrders the two lists of *)
(* orders. sync() holds the broker's monitor while it walks over the       *)
(* executors; here it is one step per executor, and pc keeps every other   *)
(* call out until the walk is over. The walk is in the map's order, which  *)
(* is the order of insertion.                                              *)
(*                                                                         *)
(* One currency; market prices and the buying power are in Trading.        *)
(***************************************************************************)
EXTENDS OrderExecution, Positions, FiniteSets

CONSTANTS
    Catalogue,     \* the orders a trader may place: kind, asset, legs
    Updates,       \* the single orders it may send as a modification
    Prices,        \* the prices an event may carry
    Deposit,       \* initialDeposit
    FeePercent,    \* the fee of PercentageFeeModel, 0 for NoFeeModel
    MaxOrders,     \* bound: orders placed, and calls of reset()
    MaxTime,       \* bound: time of the last event
    LastPlacement, \* bound: no order or modification after this time
    MaxWall        \* bound: the wall clock, which cancellations read

ASSUME BoundsAssumption ==
    /\ MaxOrders \in Nat /\ MaxTime \in Nat /\ LastPlacement \in Nat
    /\ MaxWall \in Nat
    /\ Deposit \in Int /\ FeePercent \in Nat /\ Prices \subseteq Nat

(* Order constructors require a size other than 0, the same asset in all   *)
(* legs, opposite exits of a bracket and equal legs of an OCO.             *)
OrderSpecs ==
    {o \in [kind : Kinds, asset : Assets, legs : Seq(LegSpecs)] :
        /\ Len(o.legs) = LegCount(o.kind)
        /\ o.kind = "bracket" => /\ o.legs[2].size = -o.legs[1].size
                                 /\ o.legs[3].size = -o.legs[1].size
        /\ o.kind = "oco" => o.legs[1].size = o.legs[2].size}

ASSUME OrderAssumption ==
    /\ \A o \in Catalogue : o \in OrderSpecs
    /\ \A o \in Updates : o \in [asset : Assets, leg : LegSpecs]

VARIABLES
    book,          \* the orders placed so far, by id
    executors,     \* orderExecutors.keys
    accountOrders, \* account.orders, by id
    closedOrders,  \* closedOrders, by id
    trades,        \* trades
    positions,     \* account.positions, Empty when there is none
    cash,          \* account.cash
    lastUpdate,    \* account.lastUpdate, 0 for Instant.MIN
    pc,            \* where sync() is
    event,         \* the event sync() is working on
    todo,          \* the executors it has not looked at yet
    executed,      \* history: what each leg of an order has traded
    resets         \* history: calls of reset()

account == <<accountOrders, positions, cash, lastUpdate>>
walk    == <<pc, event, todo>>
vars    == <<book, executors, account, trades, closedOrders, walk, executed, resets>>

Ids      == 1..Len(book)
Quotes   == {{}} \cup {{p} : p \in Prices}
NoEvent  == [time |-> 0, prices |-> [a \in Assets |-> {}]]
Events   == {e \in [time : lastUpdate..MaxTime, prices : [Assets -> Quotes]] : e.time > 0}

(* The order object the account lists: after a modification that is not    *)
(* the one the executor works on.                                          *)
AccountStatuses(id) == IF book[id].frozen = {} THEN {book[id].status} ELSE book[id].frozen
AccountClosed(id)   == \E s \in AccountStatuses(id) : Closed(s)

-----------------------------------------------------------------------------
Init ==
    /\ book = <<>> /\ executors = {} /\ executed = <<>>
    /\ accountOrders = {} /\ closedOrders = {} /\ trades = <<>>
    /\ positions = [a \in Assets |-> Empty]
    /\ cash = Deposit
    /\ lastUpdate = 0
    /\ pc = "idle" /\ event = NoEvent /\ todo = {}
    /\ resets = 0

(* A bound: a combined order is the only order of its run.                 *)
Alone(o) == book # <<>> => o.kind = "single" /\ book[1].kind = "single"

(* placeOrders with a list of instructions is a sequence of the following  *)
(* three actions, with no sync in between.                                 *)
PlaceOrder(o) ==
    /\ pc = "idle"
    /\ Len(book) + resets < MaxOrders /\ lastUpdate <= LastPlacement /\ Alone(o)
    /\ book' = Append(book, NewExecutor(o))
    /\ executed' = Append(executed, <<0, 0, 0>>)
    /\ executors' = executors \cup {Len(book) + 1}
    /\ accountOrders' = accountOrders \cup {Len(book) + 1}
    /\ UNCHANGED <<closedOrders, trades, positions, cash, lastUpdate, walk, resets>>

(* A cancellation is judged by the wall clock, not by the time of the last *)
(* event. In a back test the two are far apart.                            *)
CancelOrder(id, now) ==
    /\ pc = "idle"
    /\ id \in executors
    /\ book' = [book EXCEPT ![id] = Cancel(book[id], now)]
    /\ UNCHANGED <<executors, account, trades, closedOrders, walk, executed, resets>>

(* The update is of the same asset and type as the order: that is what     *)
(* Modification asks of its caller, nothing checks it.                     *)
SameType(leg, o) ==
    (leg.trail = {}) = (o.trail = {}) /\ (leg.offset = {}) = (o.offset = {})

ModifyOrder(id, u, now) ==
    /\ pc = "idle" /\ lastUpdate <= LastPlacement
    /\ id \in executors
    /\ book[id].asset = u.asset /\ SameType(book[id].legs[1], u.leg)
    /\ book' = [book EXCEPT ![id] = Modify(book[id], u.leg, now)]
    /\ UNCHANGED <<executors, account, trades, closedOrders, walk, executed, resets>>

(* Mutant: the walk is over all orders ever placed.                        *)
StartSyncAll(e) ==
    /\ pc = "idle"
    /\ pc' = "market" /\ event' = e /\ todo' = Ids
    /\ UNCHANGED <<book, executors, account, trades, closedOrders, executed, resets>>

(* sync(event), first step: simulateMarket starts its loop.                *)
StartSync(e) ==
    /\ pc = "idle"
    /\ pc' = "market" /\ event' = e /\ todo' = executors
    /\ UNCHANGED <<book, executors, account, trades, closedOrders, executed, resets>>

NextExecutor(id) == pc = "market" /\ id \in todo /\ \A j \in todo : id <= j

(* A closed executor and one whose asset is not in the event are skipped.  *)
SkipExecutor(id) ==
    /\ NextExecutor(id)
    /\ Closed(book[id].status) \/ event.prices[book[id].asset] = {}
    /\ todo' = todo \ {id}
    /\ UNCHANGED <<book, executors, account, trades, closedOrders, pc, event,
                   executed, resets>>

Abs(n) == IF n < 0 THEN -n ELSE n
Fee(size, price) == (Abs(size * price) * FeePercent) \div 100
TotalCost(size, price) == size * price + Fee(size, price)

(* The trade of an execution that finds the account with position p. Which *)
(* leg of which order it is of is a history nobody reads: the order id of  *)
(* the code's trade is empty for a leg and for an order that was modified. *)
NewTrades(id, i, p, size, price) ==
    IF size = 0 THEN <<>>
    ELSE <<[executor |-> id, leg |-> i, asset |-> book[id].asset, size |-> size,
            price |-> price, time |-> event.time,
            pnl |-> Minus(RealizedPNL(p, size, price), Whole(Fee(size, price)))]>>

(* updateAccount for each execution the executor returned, in their order. *)
UpdateAccount(id, s, price) ==
    LET a  == book[id].asset
        p1 == Plus(positions[a], s[1], price)
        p2 == Plus(p1, s[2], price)
    IN  /\ positions' = [positions EXCEPT ![a] = Plus(p2, s[3], price)]
        /\ trades' = trades \o NewTrades(id, 1, positions[a], s[1], price)
                            \o NewTrades(id, 2, p1, s[2], price)
                            \o NewTrades(id, 3, p2, s[3], price)
        /\ cash' = cash - TotalCost(s[1], price) - TotalCost(s[2], price)
                        - TotalCost(s[3], price)
        /\ executed' = [executed EXCEPT ![id] = [i \in 1..3 |-> executed[id][i] + s[i]]]

(* Mutant: closed executors are not skipped.                               *)
ExecuteClosedToo(id) ==
    /\ NextExecutor(id)
    /\ \E price \in event.prices[book[id].asset] :
        LET r == Execute(book[id], price, event.time)
        IN  /\ book' = [book EXCEPT ![id] = r.executor]
            /\ UpdateAccount(id, r.sizes, price)
    /\ todo' = todo \ {id}
    /\ UNCHANGED <<executors, accountOrders, lastUpdate, closedOrders, pc, event, resets>>

ExecuteOrder(id) ==
    /\ NextExecutor(id)
    /\ ~Closed(book[id].status)
    /\ \E price \in event.prices[book[id].asset] :
        LET r == Execute(book[id], price, event.time)
        IN  /\ book' = [book EXCEPT ![id] = r.executor]
            /\ UpdateAccount(id, r.sizes, price)
    /\ todo' = todo \ {id}
    /\ UNCHANGED <<executors, accountOrders, lastUpdate, closedOrders, pc, event, resets>>

(* Closed orders move from the account to the broker's own list.           *)
CloseOrders ==
    LET newlyClosed == {id \in accountOrders : AccountClosed(id)}
    IN  /\ closedOrders' = closedOrders \cup newlyClosed
        /\ accountOrders' = accountOrders \ newlyClosed

(* Mutant: executors that have not seen a price yet are dropped too.       *)
FinishSyncAccepted ==
    /\ pc = "market" /\ todo = {}
    /\ executors' = {id \in executors : book[id].status = "ACCEPTED"}
    /\ lastUpdate' = event.time
    /\ CloseOrders
    /\ pc' = "idle" /\ event' = NoEvent
    /\ UNCHANGED <<book, trades, positions, cash, todo, executed, resets>>

(* sync(event), last step: closed executors are dropped.                   *)
FinishSync ==
    /\ pc = "market" /\ todo = {}
    /\ executors' = {id \in executors : ~Closed(book[id].status)}
    /\ lastUpdate' = event.time
    /\ CloseOrders
    /\ pc' = "idle" /\ event' = NoEvent
    /\ UNCHANGED <<book, trades, positions, cash, todo, executed, resets>>

(* sync(null)                                                              *)
SyncAccount ==
    /\ pc = "idle"
    /\ CloseOrders
    /\ UNCHANGED <<book, executors, positions, cash, lastUpdate, trades, walk,
                   executed, resets>>

(* Mutant: the positions stay.                                             *)
ResetKeepsPositions ==
    /\ pc = "idle" /\ Len(book) + resets < MaxOrders
    /\ accountOrders' = {} /\ closedOrders' = {} /\ trades' = <<>>
    /\ cash' = Deposit
    /\ lastUpdate' = 0
    /\ resets' = resets + 1
    /\ UNCHANGED <<book, executors, positions, walk, executed>>

(* reset() clears the account and the two lists, and nothing else: the     *)
(* executors stay.                                                         *)
Reset ==
    /\ pc = "idle" /\ Len(book) + resets < MaxOrders
    /\ accountOrders' = {} /\ closedOrders' = {} /\ trades' = <<>>
    /\ positions' = [a \in Assets |-> Empty]
    /\ cash' = Deposit
    /\ lastUpdate' = 0
    /\ resets' = resets + 1
    /\ UNCHANGED <<book, executors, walk, executed>>

Next ==
    \/ \E o \in Catalogue : PlaceOrder(o)
    \/ \E id \in executors, now \in lastUpdate..MaxWall : CancelOrder(id, now)
    \/ \E id \in executors, u \in Updates, now \in lastUpdate..MaxWall :
            ModifyOrder(id, u, now)
    \/ \E e \in Events : StartSync(e)
    \/ \E id \in todo : SkipExecutor(id) \/ ExecuteOrder(id)
    \/ FinishSync
    \/ SyncAccount
    \/ Reset

Spec == Init /\ [][Next]_vars

-----------------------------------------------------------------------------
(* Properties                                                              *)

(* The shape of the broker's state.                                        *)
BookType ==
    /\ book \in Seq(Executors)
    /\ \A id \in Ids : Len(book[id].legs) = LegCount(book[id].kind)
    /\ executed \in Seq([1..3 -> Int]) /\ Len(executed) = Len(book)
    /\ executors \subseteq Ids
    /\ accountOrders \subseteq Ids /\ closedOrders \subseteq Ids

AccountType ==
    /\ trades \in Seq([executor : Nat, leg : 1..3, asset : Assets, size : Int,
                       price : Prices, time : Nat, pnl : Fractions])
    /\ positions \in [Assets -> PositionSpecs] /\ cash \in Int
    /\ lastUpdate \in Nat /\ resets \in Nat

WalkType ==
    /\ pc \in {"idle", "market"}
    /\ event \in [time : Nat, prices : [Assets -> Quotes]]
    /\ todo \subseteq executors

TypeOK == BookType /\ AccountType /\ WalkType

(* Whatever the sequence of events, cancellations, modifications and       *)
(* resets, a leg trades its whole size once or nothing: the fill that an   *)
(* executor remembers is never executed a second time.                     *)
NoOverfill ==
    \A id \in Ids : \A i \in DOMAIN book[id].legs :
        executed[id][i] \in {0, book[id].legs[i].size}

(* OCO: if one order is executed, the other one never is.                  *)
OneCancelsOther ==
    \A id \in Ids : book[id].kind = "oco" => executed[id][1] = 0 \/ executed[id][2] = 0

(* OTO: the secondary order trades only if the primary order did.          *)
SecondaryAfterPrimary ==
    \A id \in Ids : book[id].kind = "oto" /\ executed[id][2] # 0 => executed[id][1] # 0

(* Bracket: the take-profit and the stop-loss order are never both         *)
(* executed, so the exits cannot turn the position around.                 *)
OneBracketExit ==
    \A id \in Ids : book[id].kind = "bracket" => executed[id][2] = 0 \/ executed[id][3] = 0

Total(s) ==
    LET sum[n \in 0..Len(s)] == IF n = 0 THEN 0 ELSE sum[n - 1] + s[n]
    IN  sum[Len(s)]

TotalFraction(s) ==
    LET sum[n \in 0..Len(s)] == IF n = 0 THEN Whole(0) ELSE PlusFraction(sum[n - 1], s[n])
    IN  sum[Len(s)]

Costs(ts)     == [i \in DOMAIN ts |-> TotalCost(ts[i].size, ts[i].price)]
Sizes(ts, a)  == [i \in DOMAIN ts |-> IF ts[i].asset = a THEN ts[i].size ELSE 0]
Values(ts, a) == [i \in DOMAIN ts |->
                    IF ts[i].asset = a
                    THEN PlusFraction(Whole(TotalCost(ts[i].size, ts[i].price)), ts[i].pnl)
                    ELSE Whole(0)]

(* The trades account for the position in every asset and for the cash:    *)
(* nothing is bought or paid that no trade records, also after a reset.    *)
LedgerBalances ==
    /\ cash = Deposit - Total(Costs(trades))
    /\ \A a \in Assets : positions[a].size = Total(Sizes(trades, a))

(* Profit and loss add up: what the trades in an asset cost, and what they *)
(* have realized, is the price paid for the open position. With the cash,  *)
(* which the trades account for, equity changes by realized and unrealized *)
(* profit and by nothing else, also when a position grows, shrinks or      *)
(* changes sign.                                                           *)
ProfitAddsUp ==
    \A a \in Assets : Equal(TotalFraction(Values(trades, a)),
                            Times(positions[a].size, positions[a].avgPrice))

(* The status a caller sees tells what happened: an order that is not a    *)
(* bracket is COMPLETED exactly if it traded all it asked for (one leg of  *)
(* an OCO, both legs of an OTO).                                           *)
TradedInFull(id) ==
    CASE book[id].kind = "single" -> executed[id][1] # 0
      [] book[id].kind = "oco"    -> executed[id][1] # 0 \/ executed[id][2] # 0
      [] OTHER                    -> executed[id][1] # 0 /\ executed[id][2] # 0

CompletedMeansTraded ==
    \A id \in Ids : book[id].kind # "bracket" =>
        (book[id].status = "COMPLETED" <=> TradedInFull(id))

(* Between two calls the open orders of the account are exactly those an   *)
(* executor works on: no order is forgotten, and none trades that the      *)
(* account does not list. A modified order is another matter (see          *)
(* AccountListsOpenOrders), and a reset is one too.                        *)
OpenOrdersHaveExecutors ==
    pc = "idle" /\ resets = 0 =>
        {id \in accountOrders : book[id].frozen = {} /\ ~Closed(book[id].status)} =
        {id \in executors : book[id].frozen = {} /\ ~Closed(book[id].status)}

(* Every trade, of a modified order and of a leg of a combined order too,  *)
(* happened while its time-in-force allowed it: an IOC order trades on the *)
(* first event it sees or never, a DAY order within a day, GTC and GTD     *)
(* orders before they run out. FOK orders trade on the first event they    *)
(* see, but for the legs of combined orders (see FillOrKill).              *)
LegOf(trade) == book[trade.executor].legs[trade.leg]

TradesInForce ==
    \A i \in DOMAIN trades :
        /\ ~Expired(LegOf(trades[i]), trades[i].time)
        /\ book[trades[i].executor].kind = "single" /\ LegOf(trades[i]).tif.policy = "FOK" =>
                trades[i].time = LegOf(trades[i]).openedAt

(* A closed order stays as it is: its status does not change, and it does  *)
(* not trade any more.                                                     *)
ClosedOrdersStayClosed ==
    [][\A id \in Ids : Closed(book[id].status) =>
            book'[id].status = book[id].status /\ executed'[id] = executed[id]]_vars

(* Account: orders is the "List of all open orders": once a sync is over,  *)
(* the account does not list an order whose executor is done.              *)
AccountListsOpenOrders ==
    [][FinishSync => \A id \in accountOrders' : ~Closed(book[id].status)]_vars

(* FOK: "an order ... is to be executed immediately at the market or a     *)
(* specified price or cancelled if not filled". No trade comes later than  *)
(* the first event the order sees.                                         *)
FillOrKill ==
    \A i \in DOMAIN trades : LegOf(trades[i]).tif.policy = "FOK" =>
        trades[i].time = LegOf(trades[i]).openedAt

(* A bracket order places "an order and at the same time ... orders to     *)
(* take profit and limit the loss": the exits trade only after the entry.  *)
ExitsFollowEntry ==
    \A id \in Ids : book[id].kind = "bracket" /\ executed[id][1] = 0 =>
        executed[id][2] = 0 /\ executed[id][3] = 0
=============================================================================
