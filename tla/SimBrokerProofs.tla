--------------------------- MODULE SimBrokerProofs ---------------------------
(***************************************************************************)
(* The simulated broker, whatever orders, events, cancellations,           *)
(* modifications and resets it is given: it never executes what an order   *)
(* did not ask for, its lists of orders agree, its trades happened while   *)
(* their order was in force, and they account for positions and cash.      *)
(*                                                                         *)
(* What the broker has traded says nothing about the fills its executors   *)
(* remember, so none of the first of these is inductive. Consistent ties   *)
(* the two together, one executor at a time: a leg has traded nothing, or  *)
(* the fill it remembers. Listed, ForceInv and LedgerInv, each inductive   *)
(* on top of that, do the rest.                                            *)
(***************************************************************************)
EXTENDS SimBroker, OrderExecutionProofs, SequenceTheorems, WellFoundedInduction

Consistent == \A id \in Ids : ExecutorInv(book[id], executed[id])

Inv == TypeOK /\ Consistent

-----------------------------------------------------------------------------
LEMMA BookFacts ==
    ASSUME BookType, NEW id \in Ids
    PROVE  WellFormed(book[id]) /\ executed[id] \in [1..3 -> Int]
BY DEF BookType, WellFormed, Ids

(* Replacing one executor by what a call made of it.                       *)
LEMMA BookUpdate ==
    ASSUME Inv, NEW id \in Ids, NEW n,
           ExecutorKept(book[id], executed[id], n),
           book' = [book EXCEPT ![id] = n],
           UNCHANGED <<executed, executors, accountOrders, closedOrders>>
    PROVE  BookType' /\ Consistent'
<1>1. n \in Executors /\ Len(n.legs) = LegCount(n.kind) /\ ExecutorInv(n, executed[id])
  BY DEF ExecutorKept, WellFormed
<1>2. /\ book' \in Seq(Executors) /\ Len(book') = Len(book) /\ Ids' = Ids
      /\ \A j \in Ids : book'[j] = IF j = id THEN n ELSE book[j]
  BY <1>1, SMTT(20) DEF Inv, TypeOK, BookType, Ids
<1>3. BookType'
  BY <1>1, <1>2 DEF Inv, TypeOK, BookType
<1>4. Consistent'
  BY <1>1, <1>2 DEF Inv, Consistent
<1>5. QED
  BY <1>3, <1>4

LEMMA NewExecutorFacts ==
    ASSUME NEW o \in OrderSpecs
    PROVE  /\ WellFormed(NewExecutor(o))
           /\ ExecutorInv(NewExecutor(o), <<0, 0, 0>>)
<1> DEFINE e == NewExecutor(o)
           legs == [i \in 1..LegCount(o.kind) |-> NewLeg(o.legs[i])]
<1>1. /\ o.kind \in Kinds /\ o.asset \in Assets /\ o.legs \in Seq(LegSpecs)
      /\ Len(o.legs) = LegCount(o.kind)
  BY DEF OrderSpecs
<1>2. LegCount(o.kind) \in 1..3
  BY <1>1 DEF LegCount, Kinds
<1>3. \A i \in 1..LegCount(o.kind) : o.legs[i] \in LegSpecs
  BY <1>1
<1>4. \A l \in LegSpecs : NewLeg(l) \in Legs /\ NewLeg(l).fill = 0 /\ NewLeg(l).status = "CREATED"
  BY DEF NewLeg, LegSpecs, Legs, Statuses
<1>5. \A i \in 1..LegCount(o.kind) :
        legs[i] \in Legs /\ legs[i].fill = 0 /\ legs[i].status = "CREATED"
  BY <1>3, <1>4
<1>6. legs \in Seq(Legs) /\ Len(legs) = LegCount(o.kind)
  BY <1>2, <1>5
<1> HIDE DEF legs
<1>7. e = [kind |-> o.kind, asset |-> o.asset, legs |-> legs, status |-> "CREATED",
           active |-> 0, frozen |-> {}]
  BY DEF NewExecutor, legs
<1> HIDE DEF e
<1>8. WellFormed(e) /\ e.legs = legs /\ e.status = "CREATED" /\ e.kind = o.kind
  BY <1>1, <1>6, <1>7 DEF WellFormed, Executors, Statuses
<1>9. \A i \in 1..3 : <<0, 0, 0>>[i] = 0
  OBVIOUS
<1>10. LegsInv(e, <<0, 0, 0>>)
  BY <1>2, <1>5, <1>8, <1>9 DEF LegsInv, LegInv
<1>11. e.kind = "single" => e.status = e.legs[1].status
  BY <1>2, <1>5, <1>8
<1>12. e.kind = "bracket" => e.legs[2].fill = 0
  BY <1>5, <1>8 DEF LegCount
<1>13. e.kind = "oto" => e.legs[1].status = "CREATED" /\ e.legs[2].status = "CREATED"
  BY <1>5, <1>8 DEF LegCount
<1>14. ExecutorInv(e, <<0, 0, 0>>)
  BY <1>8, <1>9, <1>10, <1>11, <1>12, <1>13
     DEF ExecutorInv, SingleInv, BracketInv, OCOInv, OTOInv, Closed
<1>15. QED
  BY <1>8, <1>14 DEF e

-----------------------------------------------------------------------------
(* The initial state, and each action, one by one.                         *)
LEMMA EmptyPosition == Empty \in PositionSpecs
BY DEF Empty, PositionSpecs, Whole, Fractions

LEMMA InitInv == Init => Inv
<1> SUFFICES ASSUME Init PROVE Inv
  OBVIOUS
<1>1. Ids = {}
  BY DEF Init, Ids
<1>2. BookType
  BY <1>1 DEF Init, BookType
<1>3. AccountType
  BY BoundsAssumption, EmptyPosition DEF Init, AccountType
<1>4. WalkType
  BY DEF Init, WalkType, NoEvent, Quotes
<1>5. Consistent
  BY <1>1 DEF Consistent
<1>6. QED
  BY <1>2, <1>3, <1>4, <1>5 DEF Inv, TypeOK

LEMMA PlaceOrderInv ==
    ASSUME Inv, NEW o \in Catalogue, PlaceOrder(o)
    PROVE  Inv'
<1> DEFINE e == NewExecutor(o)
<1>1. o \in OrderSpecs
  BY OrderAssumption
<1>2. WellFormed(e) /\ ExecutorInv(e, <<0, 0, 0>>)
  BY <1>1, NewExecutorFacts
<1> HIDE DEF e
<1>3. book' = Append(book, e) /\ executed' = Append(executed, <<0, 0, 0>>)
  BY DEF PlaceOrder, e
<1>4. /\ book \in Seq(Executors) /\ Len(book) \in Nat
      /\ executed \in Seq([1..3 -> Int]) /\ Len(executed) = Len(book)
  BY DEF Inv, TypeOK, BookType
<1>5. e \in Executors /\ <<0, 0, 0>> \in [1..3 -> Int]
  BY <1>2 DEF WellFormed
<1>6. /\ book' \in Seq(Executors) /\ Len(book') = Len(book) + 1
      /\ executed' \in Seq([1..3 -> Int]) /\ Len(executed') = Len(book')
  BY <1>3, <1>4, <1>5
<1>7. Ids' = Ids \cup {Len(book) + 1}
  <2>1. \A n \in Nat : 1..(n + 1) = 1..n \cup {n + 1}
    OBVIOUS
  <2>2. QED
    BY <2>1, <1>4, <1>6 DEF Ids
<1>8. /\ \A id \in Ids : book'[id] = book[id] /\ executed'[id] = executed[id]
      /\ book'[Len(book) + 1] = e /\ executed'[Len(book) + 1] = <<0, 0, 0>>
  BY <1>3, <1>4, <1>5 DEF Ids
<1>9. BookType'
  BY <1>2, <1>6, <1>7, <1>8 DEF PlaceOrder, Inv, TypeOK, BookType, WellFormed
<1>10. Consistent'
  BY <1>2, <1>7, <1>8 DEF Inv, Consistent
<1>11. AccountType' /\ WalkType'
  BY DEF PlaceOrder, Inv, TypeOK, AccountType, WalkType, walk, Quotes
<1>12. QED
  BY <1>9, <1>10, <1>11 DEF Inv, TypeOK

LEMMA CancelOrderInv ==
    ASSUME Inv, NEW id \in executors, NEW now \in lastUpdate..MaxWall,
           CancelOrder(id, now)
    PROVE  Inv'
<1>1. id \in Ids /\ now \in Nat
  BY BoundsAssumption DEF Inv, TypeOK, BookType, AccountType
<1>2. WellFormed(book[id]) /\ executed[id] \in [1..3 -> Int]
  BY <1>1, BookFacts DEF Inv, TypeOK
<1>3. ExecutorInv(book[id], executed[id])
  BY <1>1 DEF Inv, Consistent
<1>4. ExecutorKept(book[id], executed[id], Cancel(book[id], now))
  BY <1>1, <1>2, <1>3, CancelFacts
<1>5. BookType' /\ Consistent'
  BY <1>1, <1>4, BookUpdate DEF CancelOrder, account
<1>6. AccountType' /\ WalkType'
  BY DEF CancelOrder, Inv, TypeOK, AccountType, WalkType, account, walk, Quotes
<1>7. QED
  BY <1>5, <1>6 DEF Inv, TypeOK

LEMMA ModifyOrderInv ==
    ASSUME Inv, NEW id \in executors, NEW u \in Updates, NEW now \in lastUpdate..MaxWall,
           ModifyOrder(id, u, now)
    PROVE  Inv'
<1>1. id \in Ids /\ now \in Nat
  BY BoundsAssumption DEF Inv, TypeOK, BookType, AccountType
<1>2. WellFormed(book[id]) /\ executed[id] \in [1..3 -> Int]
  BY <1>1, BookFacts DEF Inv, TypeOK
<1>3. ExecutorInv(book[id], executed[id]) /\ u.leg \in LegSpecs
  BY <1>1, OrderAssumption DEF Inv, Consistent
<1>4. ExecutorKept(book[id], executed[id], Modify(book[id], u.leg, now))
  BY <1>1, <1>2, <1>3, ModifyFacts
<1>5. BookType' /\ Consistent'
  BY <1>1, <1>4, BookUpdate DEF ModifyOrder, account
<1>6. AccountType' /\ WalkType'
  BY DEF ModifyOrder, Inv, TypeOK, AccountType, WalkType, account, walk, Quotes
<1>7. QED
  BY <1>5, <1>6 DEF Inv, TypeOK

LEMMA StartSyncInv ==
    ASSUME Inv, NEW e \in Events, StartSync(e)
    PROVE  Inv'
<1>1. e \in [time : Nat, prices : [Assets -> Quotes]]
  BY BoundsAssumption DEF Events, Inv, TypeOK, AccountType
<1>2. BookType' /\ Consistent'
  BY DEF StartSync, Inv, TypeOK, BookType, Consistent, Ids, account
<1>3. AccountType'
  BY DEF StartSync, Inv, TypeOK, AccountType, account
<1>4. WalkType'
  BY <1>1 DEF StartSync, Inv, TypeOK, WalkType, Quotes
<1>5. QED
  BY <1>2, <1>3, <1>4 DEF Inv, TypeOK

LEMMA SkipExecutorInv ==
    ASSUME Inv, NEW id \in todo, SkipExecutor(id)
    PROVE  Inv'
<1>1. BookType' /\ Consistent'
  BY DEF SkipExecutor, Inv, TypeOK, BookType, Consistent, Ids, account
<1>2. AccountType' /\ WalkType'
  BY DEF SkipExecutor, Inv, TypeOK, AccountType, WalkType, account, Quotes
<1>3. QED
  BY <1>1, <1>2 DEF Inv, TypeOK

(* What a trade costs, and its fee, are numbers.                           *)
LEMMA CostType ==
    ASSUME NEW size \in Int, NEW price \in Nat
    PROVE  Fee(size, price) \in Int /\ TotalCost(size, price) \in Int
<1>1. size * price \in Int
  OBVIOUS
<1>2. Abs(size * price) \in Int
  BY <1>1 DEF Abs
<1>3. Abs(size * price) * FeePercent \in Int
  BY <1>2, BoundsAssumption
<1>4. Fee(size, price) \in Int
  BY <1>3 DEF Fee
<1>5. TotalCost(size, price) \in Int
  BY <1>1, <1>4 DEF TotalCost
<1>6. QED
  BY <1>4, <1>5

(* Arithmetic on fractions yields fractions.                               *)
LEMMA FractionFacts ==
    ASSUME NEW x \in Fractions, NEW y \in Fractions, NEW n \in Int
    PROVE  /\ Whole(n) \in Fractions
           /\ Times(n, x) \in Fractions
           /\ PlusFraction(x, y) \in Fractions
           /\ Minus(x, y) \in Fractions
<1>1. \A i, j \in Nat \ {0} : i * j \in Nat \ {0}
  OBVIOUS
<1>2. x.num \in Int /\ y.num \in Int /\ x.den \in Nat \ {0} /\ y.den \in Nat \ {0}
  BY DEF Fractions
<1>3. Whole(n) \in Fractions
  BY DEF Whole, Fractions
<1>4. \A m \in Int : \A f \in Fractions : Times(m, f) \in Fractions
  BY DEF Times, Fractions
<1>5. \A f \in Fractions : PlusFraction(x, f) \in Fractions
  <2> SUFFICES ASSUME NEW f \in Fractions PROVE PlusFraction(x, f) \in Fractions
    OBVIOUS
  <2>1. f.num \in Int /\ f.den \in Nat \ {0}
    BY DEF Fractions
  <2>2. x.num * f.den + f.num * x.den \in Int /\ x.den * f.den \in Nat \ {0}
    BY <1>1, <1>2, <2>1
  <2>3. QED
    BY <2>2 DEF PlusFraction, Fractions
<1>6. Minus(x, y) \in Fractions
  BY <1>4, <1>5 DEF Minus
<1>7. QED
  BY <1>3, <1>4, <1>5, <1>6

(* A position with an execution is a position again, and what it realizes  *)
(* is a fraction.                                                          *)
LEMMA PositionFacts ==
    ASSUME NEW p \in PositionSpecs, NEW size \in Int, NEW price \in Int
    PROVE  /\ Plus(p, size, price) \in PositionSpecs
           /\ RealizedPNL(p, size, price) \in Fractions
<1>1. p.size \in Int /\ p.avgPrice \in Fractions
  BY DEF PositionSpecs
<1>2. Whole(price) \in Fractions /\ Whole(0) \in Fractions
  BY DEF Whole, Fractions
<1>3. Minus(Whole(price), p.avgPrice) \in Fractions
  BY <1>1, <1>2, FractionFacts
<1>4. RealizedPNL(p, size, price) \in Fractions
  <2>1. /\ Times(p.size, Minus(Whole(price), p.avgPrice)) \in Fractions
        /\ Times(-size, Minus(Whole(price), p.avgPrice)) \in Fractions
    BY <1>1, <1>3, FractionFacts
  <2>2. QED
    BY <1>2, <2>1 DEF RealizedPNL
<1>5. Empty \in PositionSpecs
  BY EmptyPosition
<1>6. p.size + size \in Int
  BY <1>1
<1>7. ASSUME p.size + size # 0 PROVE AvgPrice(p, size, price) \in Fractions
  <2> DEFINE total == PlusFraction(Times(p.size, p.avgPrice), Whole(size * price))
  <2>1. size * price \in Int
    OBVIOUS
  <2>2. total \in Fractions
    BY <1>1, <2>1, FractionFacts
  <2>3. total.num \in Int /\ total.den \in Nat \ {0}
    BY <2>2 DEF Fractions
  <2>4. Direction(p.size + size) \in Int /\ Size(p.size + size) \in Nat \ {0}
    BY <1>6, <1>7 DEF Direction, Size
  <2> HIDE DEF total
  <2>5. /\ Direction(p.size + size) * total.num \in Int
        /\ Size(p.size + size) * total.den \in Nat \ {0}
    BY <2>3, <2>4
  <2>6. QED
    BY <2>5 DEF AvgPrice, Fractions, total
<1>8. /\ p.size + size # 0 =>
            [size |-> p.size + size, avgPrice |-> AvgPrice(p, size, price)] \in PositionSpecs
      /\ [size |-> p.size + size, avgPrice |-> Whole(price)] \in PositionSpecs
      /\ [p EXCEPT !.size = p.size + size] \in PositionSpecs
  BY <1>2, <1>6, <1>7 DEF PositionSpecs
<1>9. Plus(p, size, price) \in PositionSpecs
  BY <1>5, <1>8 DEF Plus
<1>10. QED
  BY <1>4, <1>9

LEMMA UpdateAccountInv ==
    ASSUME Inv, NEW id \in Ids, NEW s \in [1..3 -> Int], NEW price \in Prices,
           UpdateAccount(id, s, price), UNCHANGED <<lastUpdate, resets>>
    PROVE  AccountType'
<1> DEFINE T  == [executor : Nat, leg : 1..3, asset : Assets, size : Int, price : Prices,
                  time : Nat, pnl : Fractions]
           a  == book[id].asset
           p0 == positions[a]
           p1 == Plus(p0, s[1], price)
           p2 == Plus(p1, s[2], price)
           p3 == Plus(p2, s[3], price)
<1>1. price \in Nat /\ id \in Nat /\ a \in Assets /\ event.time \in Nat
  <2>1. WellFormed(book[id])
    BY BookFacts DEF Inv, TypeOK
  <2>2. QED
    BY <2>1, BoundsAssumption DEF WellFormed, Executors, Ids, Inv, TypeOK, WalkType
<1>2. 1 \in 1..3 /\ 2 \in 1..3 /\ 3 \in 1..3
  OBVIOUS
<1>3. \A i \in 1..3 : \A n \in Int : \A p \in PositionSpecs :
        NewTrades(id, i, p, n, price) \in Seq(T)
  <2> SUFFICES ASSUME NEW i \in 1..3, NEW n \in Int, NEW p \in PositionSpecs
               PROVE  NewTrades(id, i, p, n, price) \in Seq(T)
    OBVIOUS
  <2> DEFINE pnl == Minus(RealizedPNL(p, n, price), Whole(Fee(n, price)))
             t == [executor |-> id, leg |-> i, asset |-> book[id].asset, size |-> n,
                   price |-> price, time |-> event.time, pnl |-> pnl]
  <2>1. pnl \in Fractions
    <3>1. RealizedPNL(p, n, price) \in Fractions
      BY <1>1, PositionFacts
    <3>2. Fee(n, price) \in Int
      BY <1>1, CostType
    <3>3. Whole(Fee(n, price)) \in Fractions
      BY <3>2 DEF Whole, Fractions
    <3>4. QED
      BY <3>1, <3>3, FractionFacts
  <2>2. NewTrades(id, i, p, n, price) \in {<<>>, <<t>>}
    BY DEF NewTrades
  <2> HIDE DEF pnl
  <2>3. t \in T
    BY <1>1, <2>1
  <2> HIDE DEF t, T
  <2>4. <<>> \in Seq(T)
    OBVIOUS
  <2>5. <<t>> \in Seq(T)
    BY <2>3
  <2>6. QED
    BY <2>2, <2>4, <2>5
<1>4. trades \in Seq(T) /\ positions \in [Assets -> PositionSpecs] /\ cash \in Int
  BY DEF Inv, TypeOK, AccountType
<1>5. s[1] \in Int /\ s[2] \in Int /\ s[3] \in Int
  OBVIOUS
<1>6. /\ p0 \in PositionSpecs /\ p1 \in PositionSpecs /\ p2 \in PositionSpecs
      /\ p3 \in PositionSpecs
  <2>1. p0 \in PositionSpecs
    BY <1>1, <1>4
  <2> HIDE DEF p0
  <2>2. p1 \in PositionSpecs
    BY <1>1, <1>5, <2>1, PositionFacts
  <2> HIDE DEF p1
  <2>3. p2 \in PositionSpecs
    BY <1>1, <1>5, <2>2, PositionFacts
  <2> HIDE DEF p2
  <2>4. p3 \in PositionSpecs
    BY <1>1, <1>5, <2>3, PositionFacts
  <2>5. QED
    BY <2>1, <2>2, <2>3, <2>4
<1>7. /\ positions' = [positions EXCEPT ![a] = p3]
      /\ trades' = trades \o NewTrades(id, 1, p0, s[1], price)
                          \o NewTrades(id, 2, p1, s[2], price) \o NewTrades(id, 3, p2, s[3], price)
      /\ cash' = cash - TotalCost(s[1], price) - TotalCost(s[2], price)
                      - TotalCost(s[3], price)
  BY DEF UpdateAccount
<1> HIDE DEF T, p0, p1, p2, p3
<1>8. trades' \in Seq(T)
  <2>1. trades \o NewTrades(id, 1, p0, s[1], price) \in Seq(T)
    BY <1>2, <1>3, <1>4, <1>5, <1>6
  <2>2. trades \o NewTrades(id, 1, p0, s[1], price) \o NewTrades(id, 2, p1, s[2], price) \in Seq(T)
    BY <2>1, <1>2, <1>3, <1>5, <1>6
  <2>3. QED
    BY <2>2, <1>2, <1>3, <1>5, <1>6, <1>7
<1>9. positions' \in [Assets -> PositionSpecs]
  BY <1>4, <1>6, <1>7
<1>10. cash' \in Int
  <2>1. /\ TotalCost(s[1], price) \in Int /\ TotalCost(s[2], price) \in Int
        /\ TotalCost(s[3], price) \in Int
    BY <1>1, <1>5, CostType
  <2>2. QED
    BY <2>1, <1>4, <1>7
<1>11. QED
  BY <1>8, <1>9, <1>10 DEF Inv, TypeOK, AccountType, T

LEMMA ExecuteOrderInv ==
    ASSUME Inv, NEW id \in todo, ExecuteOrder(id)
    PROVE  Inv'
<1>1. id \in Ids /\ todo \subseteq executors /\ executors \subseteq Ids
  BY DEF Inv, TypeOK, BookType, WalkType
<1>2. WellFormed(book[id]) /\ executed[id] \in [1..3 -> Int]
  BY <1>1, BookFacts DEF Inv, TypeOK
<1>3. ExecutorInv(book[id], executed[id]) /\ book[id].asset \in Assets
  BY <1>1, <1>2 DEF Inv, Consistent, WellFormed, Executors
<1>4. PICK price \in event.prices[book[id].asset] :
        /\ book' = [book EXCEPT ![id] = Execute(book[id], price, event.time).executor]
        /\ UpdateAccount(id, Execute(book[id], price, event.time).sizes, price)
  BY DEF ExecuteOrder
<1>5. price \in Prices /\ price \in Nat /\ event.time \in Nat
  BY <1>3, BoundsAssumption DEF Inv, TypeOK, WalkType, Quotes
<1> DEFINE r == Execute(book[id], price, event.time)
           x == Added(executed[id], r.sizes)
<1>6. ExecutorStep(book[id], executed[id], r)
  BY <1>2, <1>3, <1>5, ExecuteFacts DEF ExecuteOrder
<1>7. executed' = [executed EXCEPT ![id] = x]
  BY <1>4 DEF UpdateAccount, Added
<1>8. book' = [book EXCEPT ![id] = r.executor] /\ UpdateAccount(id, r.sizes, price)
  BY <1>4
<1> HIDE DEF r
<1>9. /\ r.executor \in Executors /\ Len(r.executor.legs) = LegCount(r.executor.kind)
      /\ r.sizes \in [1..3 -> Int] /\ ExecutorInv(r.executor, x)
  BY <1>6 DEF ExecutorStep, WellFormed
<1>10. x \in [1..3 -> Int]
  BY <1>2, <1>9, SMTT(20) DEF Added
<1> HIDE DEF x
<1>11. /\ book' \in Seq(Executors) /\ Len(book') = Len(book) /\ Ids' = Ids
       /\ executed' \in Seq([1..3 -> Int]) /\ Len(executed') = Len(executed)
  BY <1>1, <1>7, <1>8, <1>9, <1>10 DEF Inv, TypeOK, BookType, Ids
<1>12. \A j \in Ids : /\ book'[j] = IF j = id THEN r.executor ELSE book[j]
                      /\ executed'[j] = IF j = id THEN x ELSE executed[j]
  <2>1. DOMAIN book = Ids /\ DOMAIN executed = Ids
    BY DEF Inv, TypeOK, BookType, Ids
  <2>2. QED
    BY <2>1, <1>1, <1>7, <1>8
<1>13. BookType'
  BY <1>9, <1>11, <1>12 DEF ExecuteOrder, Inv, TypeOK, BookType
<1>14. Consistent'
  BY <1>9, <1>11, <1>12 DEF Inv, Consistent
<1>15. AccountType'
  BY <1>1, <1>5, <1>8, <1>9, UpdateAccountInv DEF ExecuteOrder
<1>16. WalkType'
  BY DEF ExecuteOrder, Inv, TypeOK, WalkType, Quotes
<1>17. QED
  BY <1>13, <1>14, <1>15, <1>16 DEF Inv, TypeOK

LEMMA FinishSyncInv ==
    ASSUME Inv, FinishSync
    PROVE  Inv'
<1>1. BookType' /\ Consistent'
  BY DEF FinishSync, CloseOrders, Inv, TypeOK, BookType, Consistent, Ids
<1>2. AccountType' /\ WalkType'
  BY DEF FinishSync, NoEvent, Inv, TypeOK, AccountType, WalkType, Quotes
<1>3. QED
  BY <1>1, <1>2 DEF Inv, TypeOK

LEMMA SyncAccountInv ==
    ASSUME Inv, SyncAccount
    PROVE  Inv'
<1>1. BookType' /\ Consistent'
  BY DEF SyncAccount, CloseOrders, Inv, TypeOK, BookType, Consistent, Ids
<1>2. AccountType' /\ WalkType'
  BY DEF SyncAccount, Inv, TypeOK, AccountType, WalkType, walk, Quotes
<1>3. QED
  BY <1>1, <1>2 DEF Inv, TypeOK

LEMMA ResetInv ==
    ASSUME Inv, Reset
    PROVE  Inv'
<1>1. BookType' /\ Consistent'
  BY DEF Reset, Inv, TypeOK, BookType, Consistent, Ids
<1>2. AccountType' /\ WalkType'
  BY BoundsAssumption, EmptyPosition, SMTT(20)
     DEF Reset, Inv, TypeOK, AccountType, WalkType, walk, Quotes
<1>3. QED
  BY <1>1, <1>2 DEF Inv, TypeOK

LEMMA StutterInv ==
    ASSUME Inv, UNCHANGED vars
    PROVE  Inv'
BY DEF vars, account, walk, Inv, TypeOK, BookType, AccountType, WalkType, Consistent,
       Ids, Quotes

LEMMA NextInv == Inv /\ [Next]_vars => Inv'
<1> SUFFICES ASSUME Inv, [Next]_vars PROVE Inv'
  OBVIOUS
<1>1. CASE \E o \in Catalogue : PlaceOrder(o)
  BY <1>1, PlaceOrderInv
<1>2. CASE \E id \in executors, now \in lastUpdate..MaxWall : CancelOrder(id, now)
  BY <1>2, CancelOrderInv
<1>3. CASE \E id \in executors, u \in Updates, now \in lastUpdate..MaxWall :
              ModifyOrder(id, u, now)
  BY <1>3, ModifyOrderInv
<1>4. CASE \E e \in Events : StartSync(e)
  BY <1>4, StartSyncInv
<1>5. CASE \E id \in todo : SkipExecutor(id)
  BY <1>5, SkipExecutorInv
<1>6. CASE \E id \in todo : ExecuteOrder(id)
  BY <1>6, ExecuteOrderInv
<1>7. CASE FinishSync
  BY <1>7, FinishSyncInv
<1>8. CASE SyncAccount
  BY <1>8, SyncAccountInv
<1>9. CASE Reset
  BY <1>9, ResetInv
<1>10. CASE UNCHANGED vars
  BY <1>10, StutterInv
<1>11. QED
  BY <1>1, <1>2, <1>3, <1>4, <1>5, <1>6, <1>7, <1>8, <1>9, <1>10 DEF Next

-----------------------------------------------------------------------------
(* The invariant, and what follows from it.                                *)
THEOREM Invariance == Spec => []Inv
<1>1. Init => Inv
  BY InitInv
<1>2. Inv /\ [Next]_vars => Inv'
  BY NextInv
<1>3. QED
  BY <1>1, <1>2, PTL DEF Spec

(* The shape of the broker's state, for every catalogue of orders.         *)
THEOREM TypeCorrect == Spec => []TypeOK
<1>1. Inv => TypeOK
  BY DEF Inv
<1>2. QED
  BY <1>1, Invariance, PTL

(* A leg trades its whole size once, or nothing.                           *)
THEOREM NeverOverfilled == Spec => []NoOverfill
<1>1. ASSUME Inv PROVE NoOverfill
  <2> SUFFICES ASSUME NEW id \in Ids, NEW i \in DOMAIN book[id].legs
               PROVE  executed[id][i] \in {0, book[id].legs[i].size}
    BY DEF NoOverfill
  <2>1. WellFormed(book[id]) /\ ExecutorInv(book[id], executed[id])
    BY <1>1, BookFacts DEF Inv, TypeOK, Consistent
  <2>2. i \in 1..LegCount(book[id].kind)
    BY <2>1 DEF WellFormed, Executors
  <2>3. QED
    BY <2>1, <2>2 DEF ExecutorInv, LegsInv, LegInv
<1>2. QED
  BY <1>1, Invariance, PTL

(* OCO: at most one of the two orders is ever executed.                    *)
THEOREM OneCancelsTheOther == Spec => []OneCancelsOther
<1>1. Inv => OneCancelsOther
  BY DEF Inv, Consistent, ExecutorInv, OCOInv, OneCancelsOther
<1>2. QED
  BY <1>1, Invariance, PTL

(* OTO: the secondary order trades only if the primary order did.          *)
THEOREM OneTriggersTheOther == Spec => []SecondaryAfterPrimary
<1>1. Inv => SecondaryAfterPrimary
  BY DEF Inv, Consistent, ExecutorInv, OTOInv, SecondaryAfterPrimary
<1>2. QED
  BY <1>1, Invariance, PTL

(* Bracket: the two exits are never both executed.                         *)
THEOREM OneExitOnly == Spec => []OneBracketExit
<1>1. ASSUME Inv PROVE OneBracketExit
  <2> SUFFICES ASSUME NEW id \in Ids, book[id].kind = "bracket"
               PROVE  executed[id][2] = 0 \/ executed[id][3] = 0
    BY DEF OneBracketExit
  <2>1. WellFormed(book[id]) /\ ExecutorInv(book[id], executed[id])
    BY <1>1, BookFacts DEF Inv, TypeOK, Consistent
  <2>2. LegCount(book[id].kind) = 3
    BY DEF LegCount
  <2>3. QED
    BY <2>1, <2>2 DEF ExecutorInv, LegsInv, BracketInv
<1>2. QED
  BY <1>1, Invariance, PTL

(* The status of an order that is not a bracket tells what it traded.      *)
THEOREM StatusTellsTrades == Spec => []CompletedMeansTraded
<1>1. ASSUME Inv PROVE CompletedMeansTraded
  <2> SUFFICES ASSUME NEW id \in Ids, book[id].kind # "bracket"
               PROVE  book[id].status = "COMPLETED" <=> TradedInFull(id)
    BY DEF CompletedMeansTraded
  <2>1. WellFormed(book[id]) /\ ExecutorInv(book[id], executed[id])
    BY <1>1, BookFacts DEF Inv, TypeOK, Consistent
  <2>2. book[id].kind \in {"single", "oco", "oto"}
    BY <2>1 DEF WellFormed, Executors, Kinds
  <2>3. QED
    BY <2>1, <2>2 DEF ExecutorInv, SingleInv, OCOInv, OTOInv, TradedInFull
<1>2. QED
  BY <1>1, Invariance, PTL

-----------------------------------------------------------------------------
(* A closed order stays as it is. No step touches a closed executor: the   *)
(* walk skips it, and cancel and modify leave it alone.                    *)
Frozen == \A id \in Ids : Closed(book[id].status) =>
            book'[id].status = book[id].status /\ executed'[id] = executed[id]

LEMMA OneExecutorFrozen ==
    ASSUME Inv, NEW id \in Ids, NEW n,
           Closed(book[id].status) => n = book[id],
           book' = [book EXCEPT ![id] = n], UNCHANGED executed
    PROVE  Frozen
<1>1. DOMAIN book = Ids
  BY DEF Inv, TypeOK, BookType, Ids
<1>2. QED
  BY <1>1 DEF Frozen

LEMMA NextFrozen == Inv /\ [Next]_vars => Frozen
<1> SUFFICES ASSUME Inv, [Next]_vars PROVE Frozen
  OBVIOUS
<1>1. ASSUME NEW o \in Catalogue, PlaceOrder(o) PROVE Frozen
  <2>1. /\ book \in Seq(Executors) /\ executed \in Seq([1..3 -> Int])
        /\ Len(executed) = Len(book) /\ Ids = 1..Len(book)
    BY DEF Inv, TypeOK, BookType, Ids
  <2>2. PICK e : book' = Append(book, e)
    BY <1>1 DEF PlaceOrder
  <2>3. \A id \in Ids : book'[id] = book[id]
    BY <2>1, <2>2
  <2>4. \A id \in Ids : executed'[id] = executed[id]
    BY <1>1, <2>1 DEF PlaceOrder
  <2>5. QED
    BY <2>3, <2>4 DEF Frozen
<1>2. ASSUME NEW id \in executors, NEW now \in lastUpdate..MaxWall, CancelOrder(id, now)
      PROVE  Frozen
  <2>1. id \in Ids
    BY DEF Inv, TypeOK, BookType
  <2>2. Closed(book[id].status) => Cancel(book[id], now) = book[id]
    BY DEF Cancel
  <2>3. QED
    BY <1>2, <2>1, <2>2, OneExecutorFrozen DEF CancelOrder
<1>3. ASSUME NEW id \in executors, NEW u \in Updates, NEW now \in lastUpdate..MaxWall,
             ModifyOrder(id, u, now)
      PROVE  Frozen
  <2>1. id \in Ids /\ now \in Nat
    BY BoundsAssumption DEF Inv, TypeOK, BookType, AccountType
  <2>2. WellFormed(book[id]) /\ executed[id] \in [1..3 -> Int]
    BY <2>1, BookFacts DEF Inv, TypeOK
  <2>3. ExecutorInv(book[id], executed[id]) /\ u.leg \in LegSpecs
    BY <2>1, OrderAssumption DEF Inv, Consistent
  <2>4. Closed(book[id].status) => Modify(book[id], u.leg, now) = book[id]
    BY <2>1, <2>2, <2>3, ModifyFacts DEF ExecutorKept
  <2>5. QED
    BY <1>3, <2>1, <2>4, OneExecutorFrozen DEF ModifyOrder
<1>4. ASSUME NEW id \in todo, ExecuteOrder(id) PROVE Frozen
  <2>1. id \in Ids /\ DOMAIN book = Ids /\ DOMAIN executed = Ids
    BY DEF Inv, TypeOK, BookType, WalkType, Ids
  <2>2. ~Closed(book[id].status)
    BY <1>4 DEF ExecuteOrder
  <2>3. \A j \in Ids \ {id} : book'[j] = book[j] /\ executed'[j] = executed[j]
    BY <1>4, <2>1 DEF ExecuteOrder, UpdateAccount
  <2>4. QED
    BY <2>2, <2>3 DEF Frozen
<1>5. CASE UNCHANGED <<book, executed>>
  BY <1>5 DEF Frozen
<1>6. ASSUME \/ \E e \in Events : StartSync(e)
             \/ \E id \in todo : SkipExecutor(id)
             \/ FinishSync
             \/ SyncAccount
             \/ Reset
             \/ UNCHANGED vars
      PROVE  UNCHANGED <<book, executed>>
  BY <1>6 DEF StartSync, SkipExecutor, FinishSync, SyncAccount, Reset, vars
<1>7. QED
  BY <1>1, <1>2, <1>3, <1>4, <1>5, <1>6 DEF Next

THEOREM ClosedIsFinal == Spec => ClosedOrdersStayClosed
<1>1. Inv /\ [Next]_vars => [Frozen]_vars
  BY NextFrozen
<1>2. Spec => [][Frozen]_vars
  BY <1>1, Invariance, PTL DEF Spec
<1>3. QED
  BY <1>2 DEF ClosedOrdersStayClosed, Frozen

-----------------------------------------------------------------------------
(* What the broker's lists say of its orders, and its trades of the time   *)
(* they happened at. Neither follows from what the two lists, or the       *)
(* trades, were before. Listed says of every order where it is, not only   *)
(* between two calls. ForceInv adds that a FOK order that was not executed *)
(* is not open any more, and that the order of a trade is closed: nothing  *)
(* changes it later.                                                       *)
Open(id) == book[id].frozen = {} /\ ~Closed(book[id].status)

Listed ==
    resets = 0 => \A id \in Ids : Open(id) => id \in accountOrders /\ id \in executors

-----------------------------------------------------------------------------
(* A call of an executor that leaves it open found it open.                *)
LEMMA ListedKept ==
    ASSUME Inv, Listed, NEW id \in Ids, NEW n,
           Closed(book[id].status) => n = book[id],
           n.frozen = {} => book[id].frozen = {},
           book' = [book EXCEPT ![id] = n],
           UNCHANGED <<accountOrders, executors, resets>>
    PROVE  Listed'
<1>1. DOMAIN book = Ids /\ Len(book) \in Nat
  BY DEF Inv, TypeOK, BookType, Ids
<1>2. book \in Seq(Executors)
  BY DEF Inv, TypeOK, BookType
<1>3. Ids' = Ids
  BY <1>1, <1>2 DEF Ids
<1>4. \A j \in Ids : Open(j)' => Open(j)
  BY <1>1 DEF Open
<1>5. QED
  BY <1>3, <1>4 DEF Listed

LEMMA NextListed == Inv /\ Listed /\ [Next]_vars => Listed'
<1> SUFFICES ASSUME Inv, Listed, [Next]_vars PROVE Listed'
  OBVIOUS
<1>1. ASSUME NEW o \in Catalogue, PlaceOrder(o) PROVE Listed'
  <2> DEFINE e == NewExecutor(o)
  <2>1. book' = Append(book, e) /\ UNCHANGED resets
    BY <1>1 DEF PlaceOrder
  <2> HIDE DEF e
  <2>2. book \in Seq(Executors) /\ Len(book) \in Nat
    BY DEF Inv, TypeOK, BookType
  <2>3. Len(book') = Len(book) + 1 /\ \A id \in Ids : book'[id] = book[id]
    BY <2>1, <2>2 DEF Ids
  <2>4. \A id \in Ids' : id \in Ids \/ id = Len(book) + 1
    BY <2>2, <2>3 DEF Ids
  <2>5. /\ accountOrders' = accountOrders \cup {Len(book) + 1}
        /\ executors' = executors \cup {Len(book) + 1}
    BY <1>1 DEF PlaceOrder
  <2>6. QED
    BY <2>1, <2>3, <2>4, <2>5 DEF Listed, Open
<1>2. ASSUME NEW id \in executors, NEW now \in lastUpdate..MaxWall, CancelOrder(id, now)
      PROVE  Listed'
  <2>1. id \in Ids
    BY DEF Inv, TypeOK, BookType
  <2>2. book[id] \in Executors
    BY <2>1, BookFacts DEF Inv, TypeOK, WellFormed
  <2>3. Closed(book[id].status) => Cancel(book[id], now) = book[id]
    BY DEF Cancel
  <2>4. Cancel(book[id], now).frozen = book[id].frozen
    BY <2>2 DEF Cancel, Executors
  <2>5. QED
    BY <1>2, <2>1, <2>3, <2>4, ListedKept DEF CancelOrder, account
<1>3. ASSUME NEW id \in executors, NEW u \in Updates, NEW now \in lastUpdate..MaxWall,
             ModifyOrder(id, u, now)
      PROVE  Listed'
  <2>1. id \in Ids /\ now \in Nat
    BY BoundsAssumption DEF Inv, TypeOK, BookType, AccountType
  <2>2. WellFormed(book[id]) /\ executed[id] \in [1..3 -> Int]
    BY <2>1, BookFacts DEF Inv, TypeOK
  <2>3. ExecutorInv(book[id], executed[id]) /\ u.leg \in LegSpecs
    BY <2>1, OrderAssumption DEF Inv, Consistent
  <2>4. Closed(book[id].status) => Modify(book[id], u.leg, now) = book[id]
    BY <2>1, <2>2, <2>3, ModifyFacts DEF ExecutorKept
  <2>5. Modify(book[id], u.leg, now).frozen = {} => book[id].frozen = {}
    BY <2>2 DEF Modify, WellFormed, Executors
  <2>6. QED
    BY <1>3, <2>1, <2>4, <2>5, ListedKept DEF ModifyOrder, account
<1>4. ASSUME NEW id \in todo, ExecuteOrder(id) PROVE Listed'
  <2>1. id \in Ids
    BY DEF Inv, TypeOK, BookType, WalkType
  <2>2. WellFormed(book[id]) /\ executed[id] \in [1..3 -> Int]
    BY <2>1, BookFacts DEF Inv, TypeOK
  <2>3. ExecutorInv(book[id], executed[id]) /\ book[id].asset \in Assets
    BY <2>1, <2>2 DEF Inv, Consistent, WellFormed, Executors
  <2>4. PICK price \in event.prices[book[id].asset] :
          book' = [book EXCEPT ![id] = Execute(book[id], price, event.time).executor]
    BY <1>4 DEF ExecuteOrder
  <2>5. price \in Nat /\ event.time \in Nat
    BY <2>3, BoundsAssumption DEF Inv, TypeOK, WalkType, Quotes
  <2>6. ~Closed(book[id].status)
    BY <1>4 DEF ExecuteOrder
  <2>7. Execute(book[id], price, event.time).executor.frozen = book[id].frozen
    <3> DEFINE r == Execute(book[id], price, event.time)
    <3>1. ExecutorStep(book[id], executed[id], r)
      BY <2>2, <2>3, <2>5, <2>6, ExecuteFacts
    <3> HIDE DEF r
    <3>2. r.executor.frozen = book[id].frozen
      BY <3>1 DEF ExecutorStep
    <3>3. QED
      BY <3>2 DEF r
  <2>8. UNCHANGED <<accountOrders, executors, resets>>
    BY <1>4 DEF ExecuteOrder
  <2>9. QED
    BY <2>1, <2>4, <2>6, <2>7, <2>8, ListedKept
(* An order leaves a list only when it is closed.                          *)
<1>5. CASE FinishSync
  BY <1>5 DEF FinishSync, CloseOrders, AccountClosed, AccountStatuses, Listed, Open, Ids
<1>6. CASE SyncAccount
  BY <1>6 DEF SyncAccount, CloseOrders, AccountClosed, AccountStatuses, Listed, Open, Ids
<1>7. CASE Reset
  BY <1>7 DEF Reset, Listed, Inv, TypeOK, AccountType
<1>8. ASSUME \/ \E e \in Events : StartSync(e)
             \/ \E id \in todo : SkipExecutor(id)
             \/ UNCHANGED vars
      PROVE  Listed'
  <2>1. UNCHANGED <<book, accountOrders, executors, resets>>
    BY <1>8 DEF StartSync, SkipExecutor, vars, account
  <2>2. QED
    BY <2>1 DEF Listed, Open, Ids
<1>9. QED
  BY <1>1, <1>2, <1>3, <1>4, <1>5, <1>6, <1>7, <1>8 DEF Next

(* Open orders and executors agree, whatever the broker was asked for.     *)
THEOREM ListsAgree == Spec => []OpenOrdersHaveExecutors
<1>1. Init => Listed
  BY DEF Init, Listed, Ids
<1>2. Inv /\ Listed => OpenOrdersHaveExecutors
  BY DEF Inv, TypeOK, BookType, Listed, Open, OpenOrdersHaveExecutors
<1>3. QED
  BY <1>1, <1>2, NextListed, Invariance, PTL DEF Spec
-----------------------------------------------------------------------------
(* Trades in force. A call that trades, trades within the time-in-force;   *)
(* one that leaves a FOK order without a trade has closed it.              *)
InForce(leg, time) ==
    /\ ~Expired(leg, time)
    /\ leg.tif.policy = "FOK" => time = leg.openedAt

Patient(leg) == leg.status = "ACCEPTED" => leg.tif.policy # "FOK"

LEMMA ExecuteLegForce ==
    ASSUME NEW leg \in Legs, ~Closed(leg.status), Patient(leg),
           NEW price \in Nat, NEW time \in Nat
    PROVE  LET r == ExecuteLeg(leg, price, time)
           IN  (r.size # 0 => InForce(r.leg, time)) /\ Patient(r.leg)
<1> DEFINE moved  == Ratchet(leg, price)
           opened == Accept(moved, time)
           ready  == Trigger(opened, price)
           fill   == NewFill(ready, price)
           filled == [ready EXCEPT !.fill = ready.fill + fill]
           r      == ExecuteLeg(leg, price, time)
<1>1. /\ moved \in Legs /\ moved.tif = leg.tif
      /\ moved.status = leg.status /\ moved.openedAt = leg.openedAt
  BY RatchetFacts
<1>2. r = Settle(ready, fill, time)
  BY DEF ExecuteLeg
<1> HIDE DEF moved, fill, r
<1>3. /\ opened \in Legs /\ opened.tif = leg.tif /\ ~Closed(opened.status)
      /\ opened.tif.policy = "FOK" => opened.openedAt = time
  <2>1. leg.status \in {"CREATED", "ACCEPTED"}
    BY DEF Legs, Statuses, Closed
  <2>2. QED
    BY <1>1, <2>1 DEF Accept, Legs, Statuses, Closed, Patient
<1> HIDE DEF opened
<1>4. /\ ready \in Legs /\ ready.tif = leg.tif /\ ~Closed(ready.status)
      /\ ready.tif.policy = "FOK" => ready.openedAt = time
  BY <1>3 DEF Trigger, Legs
<1> HIDE DEF ready
<1>5. /\ filled.tif = ready.tif /\ filled.openedAt = ready.openedAt
      /\ filled.status = ready.status /\ filled.size = ready.size
      /\ filled = [size |-> filled.size, tif |-> filled.tif, status |-> filled.status,
                   openedAt |-> filled.openedAt, fill |-> filled.fill,
                   trigger |-> filled.trigger, triggered |-> filled.triggered,
                   limit |-> filled.limit, trail |-> filled.trail,
                   offset |-> filled.offset]
  BY <1>4 DEF Legs
<1>6. CASE Expired(filled, time)
  <2>1. r.size = 0 /\ r.leg = [filled EXCEPT !.status = "EXPIRED"]
    BY <1>2, <1>6 DEF Settle
  <2> HIDE DEF filled
  <2>2. r.leg.status = "EXPIRED"
    BY <1>5, <2>1
  <2>3. QED
    BY <2>1, <2>2 DEF Patient, r
<1>7. CASE ~Expired(filled, time)
  <2>1. r.leg = IF Remaining(filled) = 0 THEN [filled EXCEPT !.status = "COMPLETED"]
                                         ELSE filled
    BY <1>2, <1>7 DEF Settle
  <2> HIDE DEF filled
  <2>2. /\ r.leg.tif = filled.tif /\ r.leg.openedAt = filled.openedAt
        /\ r.leg.size = filled.size /\ r.leg.fill = filled.fill
        /\ r.leg.status \in {"COMPLETED", filled.status}
        /\ Remaining(filled) = 0 => r.leg.status = "COMPLETED"
    BY <1>5, <2>1
  <2>3. Expired(r.leg, time) <=> Expired(filled, time)
    BY <2>2 DEF Expired, Remaining
  <2>4. InForce(r.leg, time)
    BY <1>4, <1>5, <1>7, <2>2, <2>3 DEF InForce
  <2>5. Patient(r.leg)
    BY <1>7, <2>2 DEF Expired, Patient
  <2>6. QED
    BY <2>4, <2>5 DEF r
<1>8. QED
  BY <1>6, <1>7

(* The leg that traded has its fill, and was in force when it traded.      *)
Timely(t) ==
    /\ t.executor \in Ids /\ t.leg \in 1..LegCount(book[t.executor].kind)
    /\ Filled(LegOf(t)) /\ ~Expired(LegOf(t), t.time)
    /\ book[t.executor].kind = "single" /\ LegOf(t).tif.policy = "FOK" =>
            t.time = LegOf(t).openedAt

ForceInv ==
    /\ \A id \in Ids : book[id].kind = "single" => Patient(book[id].legs[1])
    /\ \A i \in DOMAIN trades : Timely(trades[i])

LEMMA Concatenated ==
    ASSUME NEW S, NEW a \in Seq(S), NEW b \in Seq(S), NEW i \in DOMAIN (a \o b)
    PROVE  \/ i \in DOMAIN a /\ (a \o b)[i] = a[i]
           \/ \E j \in DOMAIN b : (a \o b)[i] = b[j]
<1>1. CASE i \in 1..Len(a)
  BY <1>1
<1>2. CASE i \notin 1..Len(a)
  <2>1. i - Len(a) \in DOMAIN b /\ (a \o b)[i] = b[i - Len(a)]
    BY <1>2
  <2>2. QED
    BY <2>1
<1>3. QED
  BY <1>1, <1>2

(* What keeps the filled legs of an executor keeps old trades timely.      *)
LEMMA StillTimely ==
    ASSUME Inv, NEW id \in Ids, NEW n, WellFormed(n), LegsKept(book[id], n),
           book' = [book EXCEPT ![id] = n]
    PROVE  Ids' = Ids /\ \A t : Timely(t) => Timely(t)'
<1>1. DOMAIN book = Ids /\ book \in Seq(Executors) /\ Len(book) \in Nat
  BY DEF Inv, TypeOK, BookType, Ids
<1>2. Ids' = Ids
  BY <1>1 DEF Ids
<1>3. \A j \in Ids : book'[j] = IF j = id THEN n ELSE book[j]
  BY <1>1
<1>4. ASSUME NEW t, Timely(t) PROVE Timely(t)'
  <2>1. CASE t.executor # id
    BY <1>2, <1>3, <1>4, <2>1 DEF Timely, LegOf
  <2>2. CASE t.executor = id
    <3> DEFINE old == book[id].legs[t.leg]
               new == n.legs[t.leg]
    <3>1. /\ t.leg \in 1..LegCount(book[id].kind) /\ Filled(old) /\ ~Expired(old, t.time)
          /\ book[id].kind = "single" /\ old.tif.policy = "FOK" => t.time = old.openedAt
      BY <1>4, <2>2 DEF Timely, LegOf
    <3>2. /\ n.kind = book[id].kind /\ Filled(new)
          /\ new.tif = old.tif /\ new.openedAt = old.openedAt
      BY <3>1 DEF LegsKept, Keeps
    <3>3. old \in Legs /\ new \in Legs
      <4>1. WellFormed(book[id])
        BY BookFacts DEF Inv, TypeOK
      <4>2. QED
        BY <3>1, <3>2, <4>1, LegTypes
    <3>4. LegOf(t)' = new /\ book'[t.executor] = n
      BY <1>3, <2>2 DEF LegOf
    <3> HIDE DEF old, new
    <3>5. ~Expired(new, t.time)
      BY <3>1, <3>2, <3>3 DEF Expired, Remaining, Filled, Legs
    <3>6. QED
      BY <1>2, <2>2, <3>1, <3>2, <3>4, <3>5 DEF Timely
  <2>3. QED
    BY <2>1, <2>2
<1>5. QED
  BY <1>2, <1>4

(* The trades of a call are of legs that the call has filled in time.      *)
LEMMA ExecuteOrderForce ==
    ASSUME Inv, ForceInv, NEW id \in todo, ExecuteOrder(id)
    PROVE  ForceInv'
<1>1. id \in Ids /\ DOMAIN book = Ids /\ book \in Seq(Executors) /\ Len(book) \in Nat
  BY DEF Inv, TypeOK, BookType, WalkType, Ids
<1>2. WellFormed(book[id]) /\ executed[id] \in [1..3 -> Int] /\ ~Closed(book[id].status)
  BY <1>1, BookFacts DEF Inv, TypeOK, ExecuteOrder
<1>3. ExecutorInv(book[id], executed[id]) /\ book[id].asset \in Assets
  BY <1>1, <1>2 DEF Inv, Consistent, WellFormed, Executors
<1>4. PICK price \in event.prices[book[id].asset] :
        /\ book' = [book EXCEPT ![id] = Execute(book[id], price, event.time).executor]
        /\ UpdateAccount(id, Execute(book[id], price, event.time).sizes, price)
  BY DEF ExecuteOrder
<1>5. price \in Prices /\ price \in Nat /\ event.time \in Nat
  BY <1>3, BoundsAssumption DEF Inv, TypeOK, WalkType, Quotes
<1> DEFINE r  == Execute(book[id], price, event.time)
           n  == r.executor
           p1 == Plus(positions[book[id].asset], r.sizes[1], price)
           p2 == Plus(p1, r.sizes[2], price)
           new1 == NewTrades(id, 1, positions[book[id].asset], r.sizes[1], price)
           new2 == NewTrades(id, 2, p1, r.sizes[2], price)
           new3 == NewTrades(id, 3, p2, r.sizes[3], price)
<1>6. /\ book' = [book EXCEPT ![id] = n]
      /\ trades' = trades \o new1 \o new2 \o new3
  BY <1>4 DEF UpdateAccount
<1>7. ExecutorStep(book[id], executed[id], r)
  BY <1>2, <1>3, <1>5, ExecuteFacts
<1>8. ASSUME book[id].kind = "single"
      PROVE  /\ Patient(n.legs[1])
             /\ r.sizes[1] # 0 => InForce(n.legs[1], event.time)
  <2> DEFINE l == ExecuteLeg(book[id].legs[1], price, event.time)
  <2>1. book[id].legs[1] \in Legs
    BY <1>2, <1>8, LegTypes
  <2>2. /\ book[id].status = book[id].legs[1].status /\ LegInv(book[id].legs[1])
    BY <1>3, <1>8 DEF ExecutorInv, SingleInv, LegsInv, LegCount
  <2>3. Patient(book[id].legs[1])
    BY <1>1, <1>8 DEF ForceInv
  <2>4. (l.size # 0 => InForce(l.leg, event.time)) /\ Patient(l.leg)
    BY <1>2, <1>5, <2>1, <2>2, <2>3, ExecuteLegForce
  <2>5. r = Result(book[id], <<l.leg>>, l.leg.status, book[id].active, <<l.size, 0, 0>>)
    BY <1>8 DEF Execute, ExecuteSingle
  <2> HIDE DEF l, r
  <2>6. n.legs[1] = l.leg /\ r.sizes = <<l.size, 0, 0>>
    BY <1>2, <2>5 DEF Result, WellFormed, Executors
  <2>7. QED
    BY <2>4, <2>6
<1>9. /\ n.kind = book[id].kind /\ WellFormed(n) /\ TradesOf(book[id], r, event.time)
      /\ LegsKept(book[id], n)
  <2>1. n.kind = book[id].kind /\ WellFormed(n)
    BY <1>7 DEF ExecutorStep
  <2>2. TradesOf(book[id], r, event.time)
    BY <1>2, <1>3, <1>5, ExecuteTrades DEF ExecutorInv
  <2>3. LegCount(book[id].kind) \in 1..3
    BY <1>2, LegTypes
  <2> HIDE DEF r
  <2>4. QED
    BY <2>1, <2>2, <2>3 DEF TradesOf, TradeStep, LegsKept
<1> HIDE DEF r, p1, p2
<1>10. Ids' = Ids /\ \A t : Timely(t) => Timely(t)'
  BY <1>1, <1>6, <1>9, StillTimely
<1>11. \A j \in Ids : book'[j] = IF j = id THEN n ELSE book[j]
  BY <1>1, <1>6
<1>12. \A j \in Ids' : book'[j].kind = "single" => Patient(book'[j].legs[1])
  <2> HIDE DEF n
  <2> QED
    BY <1>8, <1>9, <1>10, <1>11 DEF ForceInv
<1> DEFINE Good(q) == \A t : (\E i \in DOMAIN q : t = q[i]) => Timely(t)'
<1>13. ASSUME NEW i \in 1..3, NEW p PROVE Good(NewTrades(id, i, p, r.sizes[i], price))
  <2> SUFFICES ASSUME NEW t, NEW k \in DOMAIN NewTrades(id, i, p, r.sizes[i], price),
                      t = NewTrades(id, i, p, r.sizes[i], price)[k]
               PROVE  Timely(t)'
    OBVIOUS
  <2>1. r.sizes[i] # 0 /\ t.executor = id /\ t.leg = i /\ t.time = event.time
    BY DEF NewTrades
  <2>2. /\ LegCount(book[id].kind) \in 1..3
        /\ book[id].kind = "single" => LegCount(book[id].kind) = 1
    BY <1>2, LegTypes
  <2>3. /\ i \in 1..LegCount(book[id].kind)
        /\ TradeStep(book[id].legs[i], n.legs[i], r.sizes[i], event.time)
    BY <1>9, <2>1, <2>2 DEF TradesOf
  <2>4. Filled(n.legs[i]) /\ ~Expired(n.legs[i], event.time)
    BY <2>1, <2>3 DEF TradeStep
  <2>5. book[id].kind = "single" /\ n.legs[i].tif.policy = "FOK" => event.time = n.legs[i].openedAt
    BY <1>8, <2>1, <2>2, <2>3 DEF InForce
  <2> HIDE DEF n
  <2>6. book'[id] = n /\ LegOf(t)' = n.legs[i]
    BY <1>1, <1>11, <2>1 DEF LegOf
  <2>7. QED
    BY <1>1, <1>9, <1>10, <2>1, <2>3, <2>4, <2>5, <2>6 DEF Timely
<1> HIDE DEF n
<1>14. Good(new1) /\ Good(new2) /\ Good(new3)
  BY <1>13
<1>15. Good(trades)
  BY <1>10 DEF ForceInv
<1>16. PICK T : trades \in Seq(T)
  BY DEF Inv, TypeOK, AccountType
<1>17. PICK t1, t2, t3 : /\ new1 \in {<<>>, <<t1>>} /\ new2 \in {<<>>, <<t2>>}
                         /\ new3 \in {<<>>, <<t3>>}
  BY DEF NewTrades
<1> DEFINE S == T \cup {t1, t2, t3}
<1> HIDE DEF new1, new2, new3
<1>18. trades \in Seq(S) /\ new1 \in Seq(S) /\ new2 \in Seq(S) /\ new3 \in Seq(S)
  <2>1. trades \in Seq(S)
    BY <1>16, SeqMonotonic
  <2>2. t1 \in S /\ t2 \in S /\ t3 \in S
    OBVIOUS
  <2> HIDE DEF S
  <2>3. <<>> \in Seq(S)
    OBVIOUS
  <2>4. <<t1>> \in Seq(S) /\ <<t2>> \in Seq(S) /\ <<t3>> \in Seq(S)
    BY <2>2
  <2>5. QED
    BY <1>17, <2>1, <2>3, <2>4
<1> HIDE DEF S
<1>19. ASSUME NEW a \in Seq(S), NEW b \in Seq(S), Good(a), Good(b)
       PROVE  a \o b \in Seq(S) /\ Good(a \o b)
  <2>1. \A i \in DOMAIN (a \o b) :
            \/ i \in DOMAIN a /\ (a \o b)[i] = a[i]
            \/ \E j \in DOMAIN b : (a \o b)[i] = b[j]
    BY Concatenated
  <2>2. QED
    BY <1>19, <2>1
<1>20. trades \o new1 \in Seq(S) /\ Good(trades \o new1)
  BY <1>14, <1>15, <1>18, <1>19
<1>21. trades \o new1 \o new2 \in Seq(S) /\ Good(trades \o new1 \o new2)
  BY <1>14, <1>18, <1>19, <1>20
<1>22. Good(trades \o new1 \o new2 \o new3)
  BY <1>14, <1>18, <1>19, <1>21
<1>23. \A t : (\E i \in DOMAIN trades' : t = trades'[i]) => Timely(t)'
  BY <1>6, <1>22
<1>24. ASSUME NEW i \in DOMAIN trades' PROVE Timely(trades[i])'
  <2>1. PICK t : t = trades'[i]
    OBVIOUS
  <2>2. Timely(t)'
    BY <1>23, <2>1
  <2>3. QED
    BY <2>1, <2>2 DEF Timely
<1>25. QED
  BY <1>12, <1>24 DEF ForceInv

LEMMA NextForce == Inv /\ ForceInv /\ [Next]_vars => ForceInv'
<1> SUFFICES ASSUME Inv, ForceInv, [Next]_vars PROVE ForceInv'
  OBVIOUS
<1> DEFINE Open1 == \A id \in Ids : book[id].kind = "single" => Patient(book[id].legs[1])
           Past  == \A i \in DOMAIN trades : Timely(trades[i])
<1>1. DOMAIN book = Ids /\ book \in Seq(Executors) /\ Len(book) \in Nat
  BY DEF Inv, TypeOK, BookType, Ids
<1>2. ASSUME NEW o \in Catalogue, PlaceOrder(o) PROVE ForceInv'
  <2>1. PICK e : e = NewExecutor(o) /\ book' = Append(book, e)
    BY <1>2 DEF PlaceOrder
  <2>2. e.kind = "single" => Patient(e.legs[1])
    <3>1. e.kind = o.kind /\ e.legs = [i \in 1..LegCount(o.kind) |-> NewLeg(o.legs[i])]
      BY <2>1 DEF NewExecutor
    <3>2. e.kind = "single" => e.legs[1].status = "CREATED"
      BY <3>1 DEF LegCount, NewLeg
    <3>3. QED
      BY <3>2 DEF Patient
  <2>3. Len(book') = Len(book) + 1 /\ \A id \in Ids : book'[id] = book[id]
    BY <1>1, <2>1 DEF Ids
  <2>4. \A id \in Ids' : id \in Ids \/ (id = Len(book) + 1 /\ book'[id] = e)
    BY <1>1, <2>1, <2>3 DEF Ids
  <2>5. \A id \in Ids : id \in Ids'
    BY <1>1, <2>3 DEF Ids
  <2>6. Open1'
    BY <2>2, <2>3, <2>4 DEF ForceInv
  <2>7. UNCHANGED trades
    BY <1>2 DEF PlaceOrder
  <2>8. Past'
    BY <2>3, <2>5, <2>7 DEF ForceInv, Timely, LegOf
  <2>9. QED
    BY <2>6, <2>8 DEF ForceInv
<1>3. ASSUME NEW id \in Ids, NEW n, WellFormed(n), LegsKept(book[id], n),
             n.kind = "single" => Patient(n.legs[1]),
             book' = [book EXCEPT ![id] = n]
      PROVE  Open1' /\ \A t : Timely(t) => Timely(t)'
  <2>1. Ids' = Ids /\ \A t : Timely(t) => Timely(t)'
    BY <1>3, StillTimely
  <2>2. \A j \in Ids : book'[j] = IF j = id THEN n ELSE book[j]
    BY <1>1, <1>3
  <2>3. QED
    BY <1>3, <2>1, <2>2 DEF ForceInv
<1>4. ASSUME NEW id \in executors, NEW now \in lastUpdate..MaxWall, CancelOrder(id, now)
      PROVE  ForceInv'
  <2> DEFINE n == Cancel(book[id], now)
  <2>1. id \in Ids /\ now \in Nat
    BY BoundsAssumption DEF Inv, TypeOK, BookType, AccountType
  <2>2. WellFormed(n) /\ LegsKept(book[id], n) /\ (Closed(book[id].status) => n = book[id])
    <3>1. WellFormed(book[id]) /\ executed[id] \in [1..3 -> Int]
      BY <2>1, BookFacts DEF Inv, TypeOK
    <3>2. ExecutorInv(book[id], executed[id])
      BY <2>1 DEF Inv, Consistent
    <3>3. LegsKept(book[id], n)
      BY <2>1, <3>1, <3>2, CancelTrades DEF ExecutorInv
    <3>4. QED
      BY <2>1, <3>1, <3>2, <3>3, CancelFacts DEF ExecutorKept
  <2>3. n.kind = "single" => Patient(n.legs[1])
    <3>1. book[id] \in Executors
      BY <1>1, <2>1
    <3>2. CASE Closed(book[id].status)
      BY <2>1, <2>2, <3>2 DEF ForceInv
    <3>3. CASE ~Closed(book[id].status)
      <4> DEFINE legs == [i \in 1..LegCount(book[id].kind) |-> CancelLeg(book[id].legs[i], now)]
      <4>1. n.legs = legs /\ n.kind = book[id].kind
        BY <3>1, <3>3 DEF Cancel, Executors
      <4>2. book[id].kind = "single" => legs[1] = CancelLeg(book[id].legs[1], now)
        BY DEF LegCount
      <4>3. book[id].kind = "single" => book[id].legs[1] \in Legs
        BY <2>1, BookFacts, LegTypes DEF Inv, TypeOK
      <4>4. book[id].kind = "single" => CancelLeg(book[id].legs[1], now).status # "ACCEPTED"
        BY <4>3 DEF CancelLeg, Legs, Closed
      <4>5. QED
        BY <4>1, <4>2, <4>4 DEF Patient
    <3>4. QED
      BY <3>2, <3>3
  <2>4. book' = [book EXCEPT ![id] = n] /\ UNCHANGED trades
    BY <1>4 DEF CancelOrder
  <2> HIDE DEF n
  <2>5. QED
    BY <1>3, <2>1, <2>2, <2>3, <2>4 DEF ForceInv
<1>5. ASSUME NEW id \in executors, NEW u \in Updates, NEW now \in lastUpdate..MaxWall,
             ModifyOrder(id, u, now)
      PROVE  ForceInv'
  <2> DEFINE n == Modify(book[id], u.leg, now)
  <2>1. id \in Ids /\ now \in Nat
    BY BoundsAssumption DEF Inv, TypeOK, BookType, AccountType
  <2>2. WellFormed(book[id]) /\ executed[id] \in [1..3 -> Int]
    BY <2>1, BookFacts DEF Inv, TypeOK
  <2>3. ExecutorInv(book[id], executed[id]) /\ u.leg \in LegSpecs
    BY <2>1, OrderAssumption DEF Inv, Consistent
  <2>4. WellFormed(n) /\ LegsKept(book[id], n)
    <3>1. LegsKept(book[id], n)
      BY <2>1, <2>2, <2>3, ModifyTrades DEF ExecutorInv
    <3>2. QED
      BY <2>1, <2>2, <2>3, <3>1, ModifyFacts DEF ExecutorKept
  <2>5. n.kind = "single" => Patient(n.legs[1])
    <3>1. CASE n = book[id]
      BY <2>1, <3>1 DEF ForceInv
    <3>2. CASE n # book[id]
      <4>1. n.legs = <<ModifyLeg(book[id].legs[1], u.leg)>> /\ book[id].kind = "single"
        BY <2>2, <3>2 DEF Modify, WellFormed, Executors
      <4>2. book[id].legs[1] \in Legs
        BY <2>2, <4>1, LegTypes
      <4>3. ModifyLeg(book[id].legs[1], u.leg).status = "CREATED"
        BY <4>2 DEF ModifyLeg, Legs
      <4>4. QED
        BY <4>1, <4>3 DEF Patient
    <3>3. QED
      BY <3>1, <3>2
  <2>6. book' = [book EXCEPT ![id] = n] /\ UNCHANGED trades
    BY <1>5 DEF ModifyOrder
  <2> HIDE DEF n
  <2>7. QED
    BY <1>3, <2>1, <2>4, <2>5, <2>6 DEF ForceInv
<1>6. ASSUME NEW id \in todo, ExecuteOrder(id) PROVE ForceInv'
  BY <1>6, ExecuteOrderForce
<1>7. CASE Reset
  <2>1. trades' = <<>> /\ UNCHANGED book
    BY <1>7 DEF Reset
  <2>2. QED
    BY <2>1 DEF ForceInv, Ids
<1>8. CASE UNCHANGED <<book, trades>>
  BY <1>8 DEF ForceInv, Timely, LegOf, Ids
<1>9. ASSUME \/ \E e \in Events : StartSync(e)
             \/ \E id \in todo : SkipExecutor(id)
             \/ FinishSync
             \/ SyncAccount
             \/ UNCHANGED vars
      PROVE  UNCHANGED <<book, trades>>
  BY <1>9 DEF StartSync, SkipExecutor, FinishSync, SyncAccount, vars
<1>10. QED
  BY <1>2, <1>4, <1>5, <1>6, <1>7, <1>8, <1>9 DEF Next

(* Whatever is cancelled, modified or reset, a leg of an order, also of one*)
(* that was modified, trades while its time-in-force allows it.            *)
THEOREM TradesAreTimely == Spec => []TradesInForce
<1>1. Init => ForceInv
  BY DEF Init, ForceInv, Ids
<1>2. Inv /\ ForceInv => TradesInForce
  BY DEF ForceInv, Timely, TradesInForce
<1>3. QED
  BY <1>1, <1>2, NextForce, Invariance, PTL DEF Spec

-----------------------------------------------------------------------------
(* The ledger. The sums over the trades are recursive functions. What an   *)
(* append does to a sum needs induction on its length, which is done with  *)
(* sets: Induct follows from the least element of a set of numbers.        *)
(* LedgerInv is then inductive by itself; what a single execution does to  *)
(* it, OneExecution, is used for each of the three executions of a call.   *)

(* Induction on the natural numbers, for a set instead of a predicate.     *)
LEMMA LeastElement ==
    ASSUME NEW T, T \subseteq Nat, T # {}
    PROVE  \E x \in T : \A y \in T : x <= y
<1> DEFINE R == OpToRel(<, Nat)
<1>1. IsWellFoundedOn(R, Nat)
  BY NatLessThanWellFounded
<1>2. \A x, y \in Nat : x < y => <<x, y>> \in R
  BY DEF OpToRel
<1> HIDE DEF R
<1>3. PICK x \in T : \A y \in T : ~(<<y, x>> \in R)
  BY <1>1, WFMin
<1>4. ASSUME NEW y \in T PROVE x <= y
  <2>1. x \in Nat /\ y \in Nat
    OBVIOUS
  <2>2. ~(y < x)
    BY <1>2, <1>3, <2>1
  <2>3. QED
    BY <2>1, <2>2
<1>5. QED
  BY <1>4

LEMMA Induct ==
    ASSUME NEW S, 0 \in S, \A n \in Nat : n \in S => n + 1 \in S
    PROVE  Nat \subseteq S
<1> DEFINE T == {n \in Nat : n \notin S}
<1> SUFFICES ASSUME T # {} PROVE FALSE
  OBVIOUS
<1>1. PICK x \in T : \A y \in T : x <= y
  BY LeastElement
<1>2. x # 0 /\ x - 1 \in Nat
  OBVIOUS
<1>3. x - 1 \in S
  BY <1>1, <1>2
<1>4. QED
  BY <1>2, <1>3

-----------------------------------------------------------------------------
(* The sums of the first elements of a sequence of numbers.                *)
Sums(f, m, s) == f = [n \in 0..m |-> IF n = 0 THEN 0 ELSE f[n - 1] + s[n]]

LEMMA SumsStep ==
    ASSUME NEW s, NEW m \in Nat, NEW f, Sums(f, m, s), NEW n \in Nat, n + 1 <= m
    PROVE  f[n + 1] = f[n] + s[n + 1]
<1>1. n + 1 \in 0..m /\ n + 1 # 0 /\ (n + 1) - 1 = n
  OBVIOUS
<1> QED
  BY <1>1 DEF Sums

LEMMA SumsAgree ==
    ASSUME NEW s \in Seq(Int), NEW t \in Seq(Int),
           NEW m \in Nat, m <= Len(s), m <= Len(t),
           \A i \in 1..m : s[i] = t[i],
           NEW k \in Nat, m <= k, NEW l \in Nat, m <= l,
           NEW f, Sums(f, k, s), NEW g, Sums(g, l, t)
    PROVE  f[m] = g[m] /\ f[m] \in Int
<1> DEFINE S == {n \in Nat : n <= m => f[n] = g[n] /\ f[n] \in Int}
<1>1. 0 \in S
  <2>1. 0 \in 0..k /\ 0 \in 0..l
    OBVIOUS
  <2>2. f[0] = 0 /\ g[0] = 0
    BY <2>1 DEF Sums
  <2>3. QED
    BY <2>2
<1>2. ASSUME NEW n \in Nat, n \in S PROVE n + 1 \in S
  <2> SUFFICES ASSUME n + 1 <= m PROVE f[n + 1] = g[n + 1] /\ f[n + 1] \in Int
    OBVIOUS
  <2>1. f[n + 1] = f[n] + s[n + 1] /\ g[n + 1] = g[n] + t[n + 1]
    BY SumsStep
  <2>2. s[n + 1] = t[n + 1] /\ s[n + 1] \in Int
    <3>1. n + 1 \in 1..m /\ n + 1 \in 1..Len(s)
      OBVIOUS
    <3>2. QED
      BY <3>1
  <2>3. f[n] = g[n] /\ f[n] \in Int
    BY <1>2
  <2> HIDE DEF S
  <2>4. QED
    BY <2>1, <2>2, <2>3, SMTT(20)
<1> HIDE DEF S
<1>3. Nat \subseteq S
  BY <1>1, <1>2, Induct
<1>4. QED
  BY <1>3 DEF S

LEMMA SumsExist ==
    ASSUME NEW s, NEW m \in Nat
    PROVE  \E f : Sums(f, m, s)
<1> DEFINE S == {n \in Nat : \E f : Sums(f, n, s)}
<1>1. 0 \in S
  <2> DEFINE f == [n \in 0..0 |-> 0]
  <2>1. Sums(f, 0, s)
    BY DEF Sums
  <2>2. QED
    BY <2>1
<1>2. ASSUME NEW n \in Nat, n \in S PROVE n + 1 \in S
  <2>1. PICK f : Sums(f, n, s)
    BY <1>2
  <2> DEFINE g == [i \in 0..n + 1 |-> IF i = n + 1 THEN f[n] + s[n + 1] ELSE f[i]]
  <2>2. Sums(g, n + 1, s)
    <3>1. ASSUME NEW i \in 0..n + 1
          PROVE  g[i] = IF i = 0 THEN 0 ELSE g[i - 1] + s[i]
      <4>1. CASE i = 0
        BY <2>1, <4>1 DEF Sums
      <4>2. CASE i = n + 1
        BY <4>2
      <4>3. CASE i # 0 /\ i # n + 1
        <5>1. i \in 0..n /\ i - 1 \in 0..n + 1 /\ i - 1 # n + 1
          BY <4>3
        <5>2. g[i] = f[i] /\ g[i - 1] = f[i - 1]
          BY <4>3, <5>1
        <5>3. f[i] = f[i - 1] + s[i]
          BY <2>1, <4>3, <5>1 DEF Sums
        <5>4. QED
          BY <4>3, <5>2, <5>3
      <4>4. QED
        BY <4>1, <4>2, <4>3
    <3>2. g = [i \in 0..n + 1 |-> g[i]]
      OBVIOUS
    <3> HIDE DEF g
    <3>3. QED
      BY <3>1, <3>2 DEF Sums
  <2> HIDE DEF g
  <2>3. QED
    BY <2>2
<1> HIDE DEF S
<1>3. Nat \subseteq S
  BY <1>1, <1>2, Induct
<1>4. QED
  BY <1>3 DEF S

LEMMA TotalIsSum ==
    ASSUME NEW s \in Seq(Int)
    PROVE  \E f : Sums(f, Len(s), s) /\ Total(s) = f[Len(s)]
<1> DEFINE g == CHOOSE f : Sums(f, Len(s), s)
<1>1. Len(s) \in Nat
  OBVIOUS
<1>2. \E f : Sums(f, Len(s), s)
  BY <1>1, SumsExist
<1>3. Sums(g, Len(s), s)
  BY <1>2
<1>4. Total(s) = g[Len(s)]
  BY DEF Total, Sums
<1> HIDE DEF g
<1>5. QED
  BY <1>3, <1>4

(* The total of no numbers, and of one more.                               *)
LEMMA TotalOfNone == Total(<<>>) = 0
<1>1. <<>> \in Seq(Int) /\ Len(<<>>) = 0
  OBVIOUS
<1>2. PICK f : Sums(f, 0, <<>>) /\ Total(<<>>) = f[0]
  BY <1>1, TotalIsSum
<1>3. QED
  BY <1>2 DEF Sums

LEMMA TotalOfAppend ==
    ASSUME NEW s \in Seq(Int), NEW x \in Int
    PROVE  Total(s) \in Int /\ Total(Append(s, x)) = Total(s) + x
<1>1. PICK m, t : m = Len(s) /\ t = Append(s, x)
  OBVIOUS
<1>2. /\ t \in Seq(Int) /\ Len(t) = m + 1 /\ m \in Nat /\ t[m + 1] = x
      /\ \A i \in 1..m : s[i] = t[i]
  BY <1>1
<1>3. PICK f : Sums(f, m, s) /\ Total(s) = f[m]
  BY <1>1, TotalIsSum
<1>4. PICK k : k = m + 1
  OBVIOUS
<1>5. k \in Nat /\ m <= k /\ m <= m /\ m + 1 <= k /\ m <= Len(s) /\ m <= Len(t) /\ Len(t) = k
  BY <1>1, <1>2, <1>4
<1>6. PICK g : Sums(g, k, t) /\ Total(t) = g[k]
  BY <1>2, <1>5, TotalIsSum
<1>7. f[m] = g[m] /\ f[m] \in Int
  BY <1>2, <1>3, <1>5, <1>6, SumsAgree, SMTT(20)
<1>8. g[m + 1] = g[m] + t[m + 1]
  BY <1>2, <1>5, <1>6, SumsStep
<1>9. QED
  BY <1>1, <1>2, <1>3, <1>4, <1>6, <1>7, <1>8
-----------------------------------------------------------------------------
(* The same for a sequence of fractions.                                   *)
FractionSums(f, m, s) == f = [n \in 0..m |-> IF n = 0 THEN Whole(0) ELSE PlusFraction(f[n - 1], s[n])]

LEMMA FractionSumsStep ==
    ASSUME NEW s, NEW m \in Nat, NEW f, FractionSums(f, m, s), NEW n \in Nat, n + 1 <= m
    PROVE  f[n + 1] = PlusFraction(f[n], s[n + 1])
<1>1. n + 1 \in 0..m /\ n + 1 # 0 /\ (n + 1) - 1 = n
  OBVIOUS
<1> QED
  BY <1>1 DEF FractionSums

LEMMA FractionSumsAgree ==
    ASSUME NEW s \in Seq(Fractions), NEW t \in Seq(Fractions),
           NEW m \in Nat, m <= Len(s), m <= Len(t),
           \A i \in 1..m : s[i] = t[i],
           NEW k \in Nat, m <= k, NEW l \in Nat, m <= l,
           NEW f, FractionSums(f, k, s), NEW g, FractionSums(g, l, t)
    PROVE  f[m] = g[m] /\ f[m] \in Fractions
<1> DEFINE S == {n \in Nat : n <= m => f[n] = g[n] /\ f[n] \in Fractions}
<1>1. 0 \in S
  <2>1. 0 \in 0..k /\ 0 \in 0..l
    OBVIOUS
  <2>2. f[0] = Whole(0) /\ g[0] = Whole(0) /\ Whole(0) \in Fractions
    BY <2>1 DEF FractionSums, Whole, Fractions
  <2>3. QED
    BY <2>2
<1>2. ASSUME NEW n \in Nat, n \in S PROVE n + 1 \in S
  <2> SUFFICES ASSUME n + 1 <= m PROVE f[n + 1] = g[n + 1] /\ f[n + 1] \in Fractions
    OBVIOUS
  <2>1. f[n + 1] = PlusFraction(f[n], s[n + 1]) /\ g[n + 1] = PlusFraction(g[n], t[n + 1])
    BY FractionSumsStep
  <2>2. s[n + 1] = t[n + 1] /\ s[n + 1] \in Fractions
    <3>1. n + 1 \in 1..m /\ n + 1 \in 1..Len(s)
      OBVIOUS
    <3>2. QED
      BY <3>1
  <2>3. f[n] = g[n] /\ f[n] \in Fractions
    BY <1>2
  <2> HIDE DEF S
  <2>4. QED
    BY <2>1, <2>2, <2>3, FractionFacts
<1> HIDE DEF S
<1>3. Nat \subseteq S
  BY <1>1, <1>2, Induct
<1>4. QED
  BY <1>3 DEF S

LEMMA FractionSumsExist ==
    ASSUME NEW s, NEW m \in Nat
    PROVE  \E f : FractionSums(f, m, s)
<1> DEFINE S == {n \in Nat : \E f : FractionSums(f, n, s)}
<1>1. 0 \in S
  <2> DEFINE f == [n \in 0..0 |-> Whole(0)]
  <2>1. FractionSums(f, 0, s)
    BY DEF FractionSums
  <2>2. QED
    BY <2>1
<1>2. ASSUME NEW n \in Nat, n \in S PROVE n + 1 \in S
  <2>1. PICK f : FractionSums(f, n, s)
    BY <1>2
  <2> DEFINE g == [i \in 0..n + 1 |-> IF i = n + 1 THEN PlusFraction(f[n], s[n + 1]) ELSE f[i]]
  <2>2. FractionSums(g, n + 1, s)
    <3>1. ASSUME NEW i \in 0..n + 1
          PROVE  g[i] = IF i = 0 THEN Whole(0) ELSE PlusFraction(g[i - 1], s[i])
      <4>1. CASE i = 0
        BY <2>1, <4>1 DEF FractionSums
      <4>2. CASE i = n + 1
        BY <4>2
      <4>3. CASE i # 0 /\ i # n + 1
        <5>1. i \in 0..n /\ i - 1 \in 0..n + 1 /\ i - 1 # n + 1
          BY <4>3
        <5>2. g[i] = f[i] /\ g[i - 1] = f[i - 1]
          BY <4>3, <5>1
        <5>3. f[i] = PlusFraction(f[i - 1], s[i])
          BY <2>1, <4>3, <5>1 DEF FractionSums
        <5>4. QED
          BY <4>3, <5>2, <5>3
      <4>4. QED
        BY <4>1, <4>2, <4>3
    <3>2. g = [i \in 0..n + 1 |-> g[i]]
      OBVIOUS
    <3> HIDE DEF g
    <3>3. QED
      BY <3>1, <3>2 DEF FractionSums
  <2> HIDE DEF g
  <2>3. QED
    BY <2>2
<1> HIDE DEF S
<1>3. Nat \subseteq S
  BY <1>1, <1>2, Induct
<1>4. QED
  BY <1>3 DEF S

LEMMA FractionTotalIsSum ==
    ASSUME NEW s \in Seq(Fractions)
    PROVE  \E f : FractionSums(f, Len(s), s) /\ TotalFraction(s) = f[Len(s)]
<1> DEFINE g == CHOOSE f : FractionSums(f, Len(s), s)
<1>1. Len(s) \in Nat
  OBVIOUS
<1>2. \E f : FractionSums(f, Len(s), s)
  BY <1>1, FractionSumsExist
<1>3. FractionSums(g, Len(s), s)
  BY <1>2
<1>4. TotalFraction(s) = g[Len(s)]
  BY DEF TotalFraction, FractionSums
<1> HIDE DEF g
<1>5. QED
  BY <1>3, <1>4

(* The total of no fractions, and of one more.                             *)
LEMMA FractionTotalOfNone == TotalFraction(<<>>) = Whole(0)
<1>1. <<>> \in Seq(Fractions) /\ Len(<<>>) = 0
  OBVIOUS
<1>2. PICK f : FractionSums(f, 0, <<>>) /\ TotalFraction(<<>>) = f[0]
  BY <1>1, FractionTotalIsSum
<1>3. QED
  BY <1>2 DEF FractionSums

LEMMA FractionTotalOfAppend ==
    ASSUME NEW s \in Seq(Fractions), NEW x \in Fractions
    PROVE  TotalFraction(s) \in Fractions /\ TotalFraction(Append(s, x)) = PlusFraction(TotalFraction(s), x)
<1>1. PICK m, t : m = Len(s) /\ t = Append(s, x)
  OBVIOUS
<1>2. /\ t \in Seq(Fractions) /\ Len(t) = m + 1 /\ m \in Nat /\ t[m + 1] = x
      /\ \A i \in 1..m : s[i] = t[i]
  BY <1>1
<1>3. PICK f : FractionSums(f, m, s) /\ TotalFraction(s) = f[m]
  BY <1>1, FractionTotalIsSum
<1>4. PICK k : k = m + 1
  OBVIOUS
<1>5. k \in Nat /\ m <= k /\ m <= m /\ m + 1 <= k /\ m <= Len(s) /\ m <= Len(t) /\ Len(t) = k
  BY <1>1, <1>2, <1>4
<1>6. PICK g : FractionSums(g, k, t) /\ TotalFraction(t) = g[k]
  BY <1>2, <1>5, FractionTotalIsSum
<1>7. f[m] = g[m] /\ f[m] \in Fractions
  BY <1>2, <1>3, <1>5, <1>6, FractionSumsAgree
<1>8. g[m + 1] = PlusFraction(g[m], t[m + 1])
  BY <1>2, <1>5, <1>6, FractionSumsStep
<1>9. QED
  BY <1>1, <1>2, <1>3, <1>4, <1>6, <1>7, <1>8

-----------------------------------------------------------------------------
(* Fractions that are equal, whatever their form.                          *)
LEMMA Cancel3 ==
    ASSUME NEW a \in Int, NEW b \in Int, NEW c \in Int, c # 0, a * c = b * c
    PROVE  a = b
OBVIOUS

LEMMA EqualTransitive ==
    ASSUME NEW x \in Fractions, NEW y \in Fractions, NEW z \in Fractions,
           Equal(x, y), Equal(y, z)
    PROVE  Equal(x, z)
<1>1. PICK a \in Int, b \in Nat \ {0} : a = x.num /\ b = x.den
  BY DEF Fractions
<1>2. PICK c \in Int, d \in Nat \ {0} : c = y.num /\ d = y.den
  BY DEF Fractions
<1>3. PICK e \in Int, f \in Nat \ {0} : e = z.num /\ f = z.den
  BY DEF Fractions
<1>4. a * d = c * b /\ c * f = e * d
  BY <1>1, <1>2, <1>3 DEF Equal
<1>5. (a * f) * d = (e * b) * d
  <2>1. (a * f) * d = (a * d) * f
    OBVIOUS
  <2>2. (c * b) * f = (c * f) * b
    OBVIOUS
  <2>3. (e * d) * b = (e * b) * d
    OBVIOUS
  <2>4. QED
    BY <1>4, <2>1, <2>2, <2>3
<1>6. a * f \in Int /\ e * b \in Int
  OBVIOUS
<1>7. a * f = e * b
  BY <1>5, <1>6, Cancel3
<1>8. QED
  BY <1>1, <1>3, <1>7 DEF Equal

LEMMA EqualPlus ==
    ASSUME NEW x \in Fractions, NEW y \in Fractions, NEW z \in Fractions, Equal(x, y)
    PROVE  Equal(PlusFraction(x, z), PlusFraction(y, z))
<1>1. PICK a \in Int, b \in Nat \ {0} : a = x.num /\ b = x.den
  BY DEF Fractions
<1>2. PICK c \in Int, d \in Nat \ {0} : c = y.num /\ d = y.den
  BY DEF Fractions
<1>3. PICK e \in Int, f \in Nat \ {0} : e = z.num /\ f = z.den
  BY DEF Fractions
<1>4. a * d = c * b
  BY <1>1, <1>2 DEF Equal
<1>5. (a * f + e * b) * (d * f) = (c * f + e * d) * (b * f)
  <2>1. (a * f + e * b) * (d * f) = (a * d) * (f * f) + (e * f) * (b * d)
    OBVIOUS
  <2>2. (c * f + e * d) * (b * f) = (c * b) * (f * f) + (e * f) * (b * d)
    OBVIOUS
  <2>3. QED
    BY <1>4, <2>1, <2>2
<1>6. QED
  BY <1>1, <1>2, <1>3, <1>5 DEF Equal, PlusFraction

(* What an execution costs without the fee, and what it realizes without   *)
(* it, is what it adds to the price paid for the position.                 *)
LEMMA PaidByExecution ==
    ASSUME NEW p \in PositionSpecs, NEW size \in Int, NEW price \in Int,
           NEW q, q = Plus(p, size, price)
    PROVE  Equal(PlusFraction(Times(p.size, p.avgPrice),
                              PlusFraction(Whole(size * price), RealizedPNL(p, size, price))),
                 Times(q.size, q.avgPrice))
<1>1. PICK P \in Int, a \in Int, b \in Nat \ {0} :
        P = p.size /\ a = p.avgPrice.num /\ b = p.avgPrice.den
  BY DEF PositionSpecs, Fractions
<1>2. PICK n \in Int : n = P + size
  OBVIOUS
<1>3. Times(p.size, p.avgPrice) = [num |-> P * a, den |-> b]
  BY <1>1 DEF Times
<1> DEFINE R == RealizedPNL(p, size, price)
           gain == Minus(Whole(price), p.avgPrice)
           same == Direction(P) = Direction(n)
<1>4. gain = [num |-> price * b - a, den |-> b]
  BY <1>1 DEF Minus, Whole, PlusFraction, Times
<1> DEFINE Gain(m) == m * (price * b - a)
           Sum(m) == (P * a) * b + (size * price * b + Gain(m)) * b
<1>5. ASSUME NEW m \in Int, NEW r \in Fractions, r = [num |-> Gain(m), den |-> b],
             NEW c \in Int, NEW d \in Nat \ {0}, q.size * q.avgPrice.num = c, q.avgPrice.den = d,
             Sum(m) * d = c * (b * b)
      PROVE  Equal(PlusFraction(Times(p.size, p.avgPrice),
                                PlusFraction(Whole(size * price), r)),
                   Times(q.size, q.avgPrice))
  <2>1. PlusFraction(Whole(size * price), r) =
            [num |-> (size * price) * b + (m * (price * b - a)) * 1, den |-> 1 * b]
    BY <1>5 DEF PlusFraction, Whole
  <2>2. (m * (price * b - a)) * 1 = m * (price * b - a) /\ 1 * b = b
    OBVIOUS
  <2>3. PlusFraction(Whole(size * price), r) =
            [num |-> (size * price) * b + m * (price * b - a), den |-> b]
    BY <2>1, <2>2
  <2>4. PlusFraction(Times(p.size, p.avgPrice), PlusFraction(Whole(size * price), r)) =
            [num |-> (P * a) * b + ((size * price) * b + m * (price * b - a)) * b,
             den |-> b * b]
    BY <1>3, <2>3 DEF PlusFraction
  <2>5. Times(q.size, q.avgPrice) = [num |-> c, den |-> d]
    BY <1>5 DEF Times
  <2>6. QED
    BY <1>5, <2>4, <2>5 DEF Equal
<1>6. \A m \in Int : Times(m, gain) = [num |-> Gain(m), den |-> b]
                     /\ [num |-> Gain(m), den |-> b] \in Fractions
  BY <1>4 DEF Times, Fractions
<1> HIDE DEF gain, Gain, Sum
<1>7. CASE ~same
  <2>1. R = Times(P, gain)
    BY <1>1, <1>2, <1>7 DEF RealizedPNL, gain
  <2>2. R = [num |-> Gain(P), den |-> b] /\ R \in Fractions
    BY <1>6, <2>1
  <2>3. q.size = n /\ n * q.avgPrice.num = n * price /\ q.avgPrice.den = 1
    BY <1>1, <1>2, <1>7 DEF Plus, Empty, Whole
  <2>4. Sum(P) * 1 = (n * price) * (b * b)
    BY <1>2 DEF Sum, Gain
  <2> HIDE DEF R
  <2>5. n * price \in Int /\ 1 \in Nat \ {0}
    OBVIOUS
  <2>6. QED
    BY <1>5, <2>2, <2>3, <2>4, <2>5 DEF R
<1>8. CASE same /\ Size(n) > Size(P)
  <2>1. R = Whole(0)
    BY <1>1, <1>2, <1>8 DEF RealizedPNL
  <2>2. n # 0 /\ n * Direction(n) = Size(n) /\ Size(n) \in Nat
    BY <1>8 DEF Direction, Size
  <2>3. q = [size |-> n, avgPrice |-> AvgPrice(p, size, price)]
    BY <1>1, <1>2, <1>8, <2>2 DEF Plus
  <2> DEFINE t == P * a + (size * price) * b
  <2>4. t \in Int
    OBVIOUS
  <2>5. PlusFraction(Times(p.size, p.avgPrice), Whole(size * price)) = [num |-> t, den |-> b]
    BY <1>3 DEF PlusFraction, Whole
  <2> HIDE DEF t
  <2>6. q.avgPrice = [num |-> Direction(n) * t, den |-> Size(n) * b]
    BY <1>1, <1>2, <2>3, <2>5 DEF AvgPrice
  <2>7. PlusFraction(Whole(size * price), R) = Whole(size * price)
    BY <2>1 DEF PlusFraction, Whole
  <2>8. (n * (Direction(n) * t)) * b = t * (Size(n) * b)
    <3>1. Direction(n) \in Int
      BY DEF Direction
    <3>2. (n * (Direction(n) * t)) * b = ((n * Direction(n)) * t) * b
      BY <2>4, <3>1
    <3>3. (Size(n) * t) * b = t * (Size(n) * b)
      BY <2>2, <2>4
    <3>4. QED
      BY <2>2, <3>2, <3>3
  <2>9. QED
    BY <2>3, <2>5, <2>6, <2>7, <2>8 DEF Equal, Times
<1>9. CASE same /\ ~(Size(n) > Size(P))
  <2>1. R = Times(-size, gain)
    BY <1>1, <1>2, <1>9 DEF RealizedPNL, gain
  <2>2. R = [num |-> Gain(-size), den |-> b] /\ R \in Fractions
    BY <1>6, <2>1
  <2>3. CASE n = 0
    <3>1. P = 0 /\ size = 0
      BY <1>2, <1>9, <2>3 DEF Direction
    <3>2. q.size * q.avgPrice.num = 0 /\ q.avgPrice.den = 1
      BY <1>1, <1>2, <2>3 DEF Plus, Empty, Whole
    <3>3. Sum(-size) * 1 = 0 * (b * b)
      BY <3>1 DEF Sum, Gain
    <3> HIDE DEF R
    <3>4. -size \in Int /\ 0 \in Int /\ 1 \in Nat \ {0}
      OBVIOUS
    <3>5. QED
      BY <1>5, <2>2, <3>2, <3>3, <3>4 DEF R
  <2>4. CASE n # 0
    <3>1. q = [p EXCEPT !.size = n]
      BY <1>1, <1>2, <1>9, <2>4 DEF Plus
    <3>2. q.size * q.avgPrice.num = n * a /\ q.avgPrice.den = b
      BY <1>1, <3>1 DEF PositionSpecs
    <3>3. Sum(-size) * b = (n * a) * (b * b)
      BY <1>2 DEF Sum, Gain
    <3> HIDE DEF R
    <3>4. n * a \in Int
      OBVIOUS
    <3>5. QED
      BY <1>5, <2>2, <3>2, <3>3, <3>4 DEF R
  <2>5. QED
    BY <2>3, <2>4
<1>10. QED
  BY <1>7, <1>8, <1>9

(* The trade of an execution records all of it, including the fee.         *)
LEMMA ValueOfExecution ==
    ASSUME NEW p \in PositionSpecs, NEW size \in Int, NEW price \in Nat,
           NEW q, q = Plus(p, size, price),
           NEW pnl, pnl = Minus(RealizedPNL(p, size, price), Whole(Fee(size, price))),
           NEW x \in Fractions, Equal(x, Times(p.size, p.avgPrice))
    PROVE  Equal(PlusFraction(x, PlusFraction(Whole(TotalCost(size, price)), pnl)),
                 Times(q.size, q.avgPrice))
<1>1. PICK fee \in Int : fee = Fee(size, price) /\ TotalCost(size, price) = size * price + fee
  BY CostType DEF TotalCost
<1>2. PICK R : R = RealizedPNL(p, size, price)
  OBVIOUS
<1>3. q \in PositionSpecs /\ R \in Fractions /\ price \in Int
  BY <1>2, PositionFacts
<1>4. PICK r \in Int, d \in Nat \ {0} : R = [num |-> r, den |-> d]
  BY <1>3 DEF Fractions
<1>5. PICK v : v = PlusFraction(Whole(size * price), R)
  OBVIOUS
<1>6. PlusFraction(Whole(TotalCost(size, price)), pnl) = v
  <2>1. pnl = [num |-> r - fee * d, den |-> d]
    BY <1>1, <1>2, <1>4 DEF Minus, PlusFraction, Times, Whole
  <2>2. size * price \in Int
    OBVIOUS
  <2>3. (size * price + fee) * d + (r - fee * d) * 1 = (size * price) * d + r * 1
    <3>1. (size * price + fee) * d = (size * price) * d + fee * d
      BY <2>2
    <3>2. (size * price) * d \in Int /\ fee * d \in Int
      BY <2>2
    <3>3. QED
      BY <3>1, <3>2
  <2>4. QED
    BY <1>1, <1>4, <1>5, <2>1, <2>3 DEF PlusFraction, Whole
<1>7. PICK V : V = Times(p.size, p.avgPrice)
  OBVIOUS
<1>8. PICK W : W = Times(q.size, q.avgPrice)
  OBVIOUS
<1>9. Equal(PlusFraction(V, v), W)
  BY <1>2, <1>3, <1>5, <1>7, <1>8, PaidByExecution
<1>10. /\ v \in Fractions /\ V \in Fractions /\ W \in Fractions
       /\ PlusFraction(V, v) \in Fractions /\ PlusFraction(x, v) \in Fractions
  <2>1. size * price \in Int
    OBVIOUS
  <2>2. v \in Fractions
    BY <1>3, <1>5, <2>1, FractionFacts
  <2>3. V \in Fractions /\ W \in Fractions
    BY <1>3, <1>7, <1>8, FractionFacts DEF PositionSpecs
  <2>4. QED
    BY <2>2, <2>3, FractionFacts
<1>11. Equal(PlusFraction(x, v), PlusFraction(V, v))
  BY <1>7, <1>10, EqualPlus
<1>12. Equal(PlusFraction(x, v), W)
  BY <1>9, <1>10, <1>11, EqualTransitive
<1>13. QED
  BY <1>6, <1>8, <1>12

-----------------------------------------------------------------------------
(* The ledger, for any list of trades, positions and cash.                 *)
Trades == [executor : Nat, leg : 1..3, asset : Assets, size : Int, price : Prices,
           time : Nat, pnl : Fractions]

Balances(ts, pos, money) ==
    /\ money = Deposit - Total(Costs(ts))
    /\ \A a \in Assets : pos[a].size = Total(Sizes(ts, a))
    /\ \A a \in Assets : Equal(TotalFraction(Values(ts, a)),
                               Times(pos[a].size, pos[a].avgPrice))

Value(t) == PlusFraction(Whole(TotalCost(t.size, t.price)), t.pnl)

LEMMA TradeTypes ==
    ASSUME NEW t \in Trades
    PROVE  /\ t.size \in Int /\ t.price \in Nat /\ t.asset \in Assets
           /\ TotalCost(t.size, t.price) \in Int
           /\ Value(t) \in Fractions /\ Whole(0) \in Fractions
<1>1. t.size \in Int /\ t.price \in Nat /\ t.asset \in Assets /\ t.pnl \in Fractions
  BY BoundsAssumption DEF Trades
<1>2. TotalCost(t.size, t.price) \in Int
  BY <1>1, CostType
<1>3. Value(t) \in Fractions /\ Whole(0) \in Fractions
  BY <1>1, <1>2, FractionFacts DEF Value
<1>4. QED
  BY <1>1, <1>2, <1>3

(* A sequence with one more element, mapped.                               *)
Mapped(f, s) == [i \in DOMAIN s |-> f[s[i]]]

LEMMA MappedAppend ==
    ASSUME NEW T, NEW f, NEW s \in Seq(T), NEW t \in T
    PROVE  Mapped(f, Append(s, t)) = Append(Mapped(f, s), f[t])
<1> DEFINE S == {f[x] : x \in T}
<1> HIDE DEF S
<1>1. PICK u : u = Append(s, t)
  OBVIOUS
<1>2. /\ Len(s) \in Nat /\ DOMAIN s = 1..Len(s) /\ DOMAIN u = 1..Len(s) + 1
      /\ \A i \in 1..Len(s) : s[i] \in T /\ u[i] = s[i]
      /\ u[Len(s) + 1] = t
  BY <1>1
<1>3. Mapped(f, s) = [i \in 1..Len(s) |-> f[s[i]]]
  BY <1>2 DEF Mapped
<1>4. Mapped(f, u) = [i \in 1..Len(s) + 1 |-> f[u[i]]]
  BY <1>2 DEF Mapped
<1>5. Mapped(f, s) \in Seq(S) /\ Len(Mapped(f, s)) = Len(s) /\ f[t] \in S
  <2>1. f[t] \in S /\ \A i \in 1..Len(s) : f[s[i]] \in S
    BY <1>2 DEF S
  <2>2. QED
    BY <1>2, <1>3, <2>1
<1>6. PICK v : v = Append(Mapped(f, s), f[t])
  OBVIOUS
<1>7. v \in Seq(S) /\ DOMAIN v = 1..Len(s) + 1
  BY <1>2, <1>5, <1>6
<1>8. \A i \in 1..Len(s) + 1 : v[i] = IF i <= Len(s) THEN f[s[i]] ELSE f[t]
  BY <1>2, <1>3, <1>5, <1>6
<1>9. \A i \in 1..Len(s) + 1 : v[i] = f[u[i]]
  <2> SUFFICES ASSUME NEW i \in 1..Len(s) + 1 PROVE v[i] = f[u[i]]
    OBVIOUS
  <2>1. i \in 1..Len(s) \/ i = Len(s) + 1
    BY <1>2
  <2>2. QED
    BY <1>2, <1>8, <2>1
<1>10. v = [i \in 1..Len(s) + 1 |-> f[u[i]]]
  <2>1. v = [i \in 1..Len(s) + 1 |-> v[i]]
    BY <1>7
  <2>2. QED
    BY <1>9, <2>1
<1>11. QED
  BY <1>1, <1>4, <1>6, <1>10

LEMMA MappedType ==
    ASSUME NEW S, NEW T, NEW f, NEW s \in Seq(T), \A x \in T : f[x] \in S
    PROVE  Mapped(f, s) \in Seq(S)
BY DEF Mapped

(* What one more trade does to the sums.                                   *)
LEMMA OneMoreTrade ==
    ASSUME NEW ts \in Seq(Trades), NEW t \in Trades, NEW a \in Assets
    PROVE  /\ Total(Costs(ts)) \in Int /\ Total(Sizes(ts, a)) \in Int
           /\ TotalFraction(Values(ts, a)) \in Fractions
           /\ Total(Costs(Append(ts, t))) = Total(Costs(ts)) + TotalCost(t.size, t.price)
           /\ Total(Sizes(Append(ts, t), a)) =
                Total(Sizes(ts, a)) + (IF t.asset = a THEN t.size ELSE 0)
           /\ TotalFraction(Values(Append(ts, t), a)) =
                IF t.asset = a THEN PlusFraction(TotalFraction(Values(ts, a)), Value(t))
                ELSE TotalFraction(Values(ts, a))
<1> DEFINE cost  == [x \in Trades |-> TotalCost(x.size, x.price)]
           size  == [x \in Trades |-> IF x.asset = a THEN x.size ELSE 0]
           value == [x \in Trades |-> IF x.asset = a THEN Value(x) ELSE Whole(0)]
<1>1. \A x \in Trades : cost[x] \in Int /\ size[x] \in Int /\ value[x] \in Fractions
  BY TradeTypes
<1>2. ASSUME NEW s \in Seq(Trades)
      PROVE  /\ Costs(s) = Mapped(cost, s)
             /\ Sizes(s, a) = Mapped(size, s)
             /\ Values(s, a) = Mapped(value, s)
  <2>1. \A i \in DOMAIN s : s[i] \in Trades
    OBVIOUS
  <2>2. \A i \in DOMAIN s : /\ cost[s[i]] = TotalCost(s[i].size, s[i].price)
                            /\ size[s[i]] = IF s[i].asset = a THEN s[i].size ELSE 0
                            /\ value[s[i]] = IF s[i].asset = a THEN Value(s[i]) ELSE Whole(0)
    BY <2>1
  <2> HIDE DEF cost, size, value
  <2>3. QED
    BY <2>2 DEF Costs, Sizes, Values, Value, Mapped
<1>3. Append(ts, t) \in Seq(Trades)
  OBVIOUS
<1>4. /\ cost[t] = TotalCost(t.size, t.price)
      /\ size[t] = IF t.asset = a THEN t.size ELSE 0
      /\ value[t] = IF t.asset = a THEN Value(t) ELSE Whole(0)
  OBVIOUS
<1> HIDE DEF cost, size, value
<1>5. /\ Costs(ts) \in Seq(Int) /\ cost[t] \in Int
      /\ Costs(Append(ts, t)) = Append(Costs(ts), cost[t])
  <2>1. Mapped(cost, ts) \in Seq(Int) /\ cost[t] \in Int
    BY <1>1, MappedType
  <2>2. Mapped(cost, Append(ts, t)) = Append(Mapped(cost, ts), cost[t])
    BY MappedAppend
  <2>3. QED
    BY <1>2, <1>3, <2>1, <2>2
<1>6. /\ Sizes(ts, a) \in Seq(Int) /\ size[t] \in Int
      /\ Sizes(Append(ts, t), a) = Append(Sizes(ts, a), size[t])
  <2>1. Mapped(size, ts) \in Seq(Int) /\ size[t] \in Int
    BY <1>1, MappedType
  <2>2. Mapped(size, Append(ts, t)) = Append(Mapped(size, ts), size[t])
    BY MappedAppend
  <2>3. QED
    BY <1>2, <1>3, <2>1, <2>2
<1>7. /\ Values(ts, a) \in Seq(Fractions) /\ value[t] \in Fractions
      /\ Values(Append(ts, t), a) = Append(Values(ts, a), value[t])
  <2>1. Mapped(value, ts) \in Seq(Fractions) /\ value[t] \in Fractions
    BY <1>1, MappedType
  <2>2. Mapped(value, Append(ts, t)) = Append(Mapped(value, ts), value[t])
    BY MappedAppend
  <2>3. QED
    BY <1>2, <1>3, <2>1, <2>2
<1>8. \A x \in Fractions : PlusFraction(x, Whole(0)) = x
  BY DEF PlusFraction, Whole, Fractions
<1>9. /\ Total(Costs(ts)) \in Int
      /\ Total(Costs(Append(ts, t))) = Total(Costs(ts)) + TotalCost(t.size, t.price)
  BY <1>4, <1>5, TotalOfAppend
<1>10. /\ Total(Sizes(ts, a)) \in Int
       /\ Total(Sizes(Append(ts, t), a)) =
            Total(Sizes(ts, a)) + (IF t.asset = a THEN t.size ELSE 0)
  BY <1>4, <1>6, TotalOfAppend
<1>11. /\ TotalFraction(Values(ts, a)) \in Fractions
       /\ TotalFraction(Values(Append(ts, t), a)) =
            PlusFraction(TotalFraction(Values(ts, a)), value[t])
  BY <1>7, FractionTotalOfAppend
<1>12. QED
  BY <1>4, <1>8, <1>9, <1>10, <1>11

LEMMA ValuesType ==
    ASSUME NEW ts \in Seq(Trades), NEW a \in Assets
    PROVE  TotalFraction(Values(ts, a)) \in Fractions
<1>1. ts \in [1..Len(ts) -> Trades] /\ Len(ts) \in Nat
  OBVIOUS
<1> DEFINE v == [i \in 1..Len(ts) |-> IF ts[i].asset = a THEN Value(ts[i]) ELSE Whole(0)]
<1>2. v \in [1..Len(ts) -> Fractions]
  BY <1>1, TradeTypes
<1>3. Values(ts, a) = v
  BY <1>1 DEF Values, Value
<1> HIDE DEF v
<1>4. Whole(0) \in Fractions
  BY DEF Whole, Fractions
<1>5. v \in Seq(Fractions)
  <2> HIDE DEF Fractions
  <2>1. QED
    BY <1>1, <1>2
<1>6. QED
  BY <1>3, <1>4, <1>5, FractionTotalOfAppend

(* What an execution does to the ledger. One of size 0 does nothing: it is *)
(* what an executor returns for a leg that does not trade.                 *)
LEMMA OneExecution ==
    ASSUME NEW ts \in Seq(Trades), NEW pos \in [Assets -> PositionSpecs], NEW money \in Int,
           Balances(ts, pos, money), Inv,
           NEW id \in Ids, NEW a \in Assets, a = book[id].asset,
           NEW i \in 1..3, NEW size \in Int, NEW price \in Prices
    PROVE  /\ ts \o NewTrades(id, i, pos[a], size, price) \in Seq(Trades)
           /\ [pos EXCEPT ![a] = Plus(pos[a], size, price)] \in [Assets -> PositionSpecs]
           /\ money - TotalCost(size, price) \in Int
           /\ Balances(ts \o NewTrades(id, i, pos[a], size, price),
                       [pos EXCEPT ![a] = Plus(pos[a], size, price)],
                       money - TotalCost(size, price))
<1>1. price \in Nat /\ price \in Int
  BY BoundsAssumption
<1>2. pos[a] \in PositionSpecs /\ pos[a].size \in Int
  BY DEF PositionSpecs
<1>3. PICK q : q = Plus(pos[a], size, price)
  OBVIOUS
<1>4. PICK c \in Int : c = TotalCost(size, price)
  BY <1>1, CostType
<1>5. q \in PositionSpecs
  BY <1>1, <1>2, <1>3, PositionFacts
<1>6. q.size = pos[a].size + size
  BY <1>2, <1>3 DEF Plus, Empty, PositionSpecs
<1>7. PICK ns : ns = [pos EXCEPT ![a] = q]
  OBVIOUS
<1>8. ns \in [Assets -> PositionSpecs] /\ \A b \in Assets : ns[b] = IF b = a THEN q ELSE pos[b]
  BY <1>5, <1>7
<1>9. PICK new : new = NewTrades(id, i, pos[a], size, price)
  OBVIOUS
<1>10. CASE size = 0
  <2>1. new = <<>>
    BY <1>9, <1>10 DEF NewTrades
  <2>2. ts \o new = ts
    BY <2>1
  <2>3. c = 0
    BY <1>1, <1>4, <1>10, BoundsAssumption DEF TotalCost, Fee, Abs
  <2>4. Equal(TotalFraction(Values(ts, a)), Times(q.size, q.avgPrice))
    <3>1. Equal(TotalFraction(Values(ts, a)), Times(pos[a].size, pos[a].avgPrice))
      BY DEF Balances
    <3>2. CASE pos[a].size = 0
      <4>1. q = Empty
        BY <1>3, <1>10, <3>2 DEF Plus
      <4>2. TotalFraction(Values(ts, a)).num = 0
        <5>1. PICK x \in Int, d \in Nat \ {0}, n \in Int, e \in Nat \ {0} :
                /\ x = TotalFraction(Values(ts, a)).num
                /\ d = TotalFraction(Values(ts, a)).den
                /\ n = pos[a].avgPrice.num /\ e = pos[a].avgPrice.den
          <6>1. TotalFraction(Values(ts, a)) \in Fractions
            BY ValuesType
          <6>2. QED
            BY <1>2, <6>1 DEF Fractions, PositionSpecs
        <5>2. x * e = (0 * n) * d
          BY <3>1, <3>2, <5>1 DEF Equal, Times
        <5>3. x = 0
          BY <5>2
        <5>4. QED
          BY <5>1, <5>3
      <4>3. QED
        BY <4>1, <4>2, ValuesType DEF Equal, Times, Empty, Whole, Fractions
    <3>3. CASE pos[a].size # 0
      <4>1. q = [pos[a] EXCEPT !.size = pos[a].size]
        <5>1. PICK p \in PositionSpecs : p = pos[a] /\ p.size \in Int /\ p.size # 0
          BY <1>2, <3>3
        <5>2. q = Plus(p, 0, price) /\ p.size + 0 = p.size /\ ~(Size(p.size) > Size(p.size))
          BY <1>3, <1>10, <5>1 DEF Size
        <5>3. Plus(p, 0, price) = [p EXCEPT !.size = p.size]
          BY <5>1, <5>2 DEF Plus
        <5>4. QED
          BY <5>1, <5>2, <5>3
      <4>2. q = pos[a]
        BY <1>2, <4>1 DEF PositionSpecs
      <4>3. QED
        BY <3>1, <4>2
    <3>4. QED
      BY <3>2, <3>3
  <2>5. \A b \in Assets : /\ ns[b].size = Total(Sizes(ts, b))
                          /\ Equal(TotalFraction(Values(ts, b)),
                                   Times(ns[b].size, ns[b].avgPrice))
    <3>1. ASSUME NEW b \in Assets
          PROVE  /\ pos[b].size = Total(Sizes(ts, b))
                 /\ Equal(TotalFraction(Values(ts, b)), Times(pos[b].size, pos[b].avgPrice))
      BY DEF Balances
    <3>2. q.size = pos[a].size
      BY <1>2, <1>6, <1>10
    <3>3. QED
      BY <1>8, <2>4, <3>1, <3>2
  <2>6. Balances(ts \o new, ns, money - c)
    BY <2>2, <2>3, <2>5 DEF Balances
  <2>7. QED
    BY <1>3, <1>4, <1>7, <1>8, <1>9, <2>2, <2>6
<1>11. CASE size # 0
  <2>1. PICK t : /\ new = <<t>>
                 /\ t = [executor |-> id, leg |-> i, asset |-> a, size |-> size,
                         price |-> price, time |-> event.time,
                         pnl |-> Minus(RealizedPNL(pos[a], size, price),
                                       Whole(Fee(size, price)))]
    BY <1>9, <1>11 DEF NewTrades
  <2>2. t \in Trades
    <3>1. id \in Nat /\ event.time \in Nat
      BY DEF Ids, Inv, TypeOK, WalkType
    <3>2. Minus(RealizedPNL(pos[a], size, price), Whole(Fee(size, price))) \in Fractions
      <4>1. PICK r \in Fractions : r = RealizedPNL(pos[a], size, price)
        BY <1>1, <1>2, PositionFacts
      <4>2. PICK w \in Fractions : w = Whole(Fee(size, price))
        BY <1>1, <4>1, CostType, FractionFacts
      <4>3. QED
        BY <4>1, <4>2, FractionFacts
    <3>3. QED
      BY <2>1, <3>1, <3>2 DEF Trades
  <2>3. ts \o new = Append(ts, t) /\ Append(ts, t) \in Seq(Trades)
    BY <2>1, <2>2
  <2>4. t.asset = a /\ t.size = size /\ t.price = price
        /\ t.pnl = Minus(RealizedPNL(pos[a], size, price), Whole(Fee(size, price)))
    BY <2>1
  <2>5. ASSUME NEW b \in Assets
        PROVE  /\ ns[b].size = Total(Sizes(Append(ts, t), b))
               /\ Equal(TotalFraction(Values(Append(ts, t), b)),
                        Times(ns[b].size, ns[b].avgPrice))
    <3>1. /\ pos[b].size = Total(Sizes(ts, b))
          /\ Equal(TotalFraction(Values(ts, b)), Times(pos[b].size, pos[b].avgPrice))
      BY DEF Balances
    <3>2. /\ TotalFraction(Values(ts, b)) \in Fractions
          /\ Total(Sizes(Append(ts, t), b)) =
                Total(Sizes(ts, b)) + (IF t.asset = b THEN t.size ELSE 0)
          /\ TotalFraction(Values(Append(ts, t), b)) =
                IF t.asset = b THEN PlusFraction(TotalFraction(Values(ts, b)), Value(t))
                ELSE TotalFraction(Values(ts, b))
      BY <2>2, OneMoreTrade
    <3>3. CASE b = a
      <4>1. Equal(PlusFraction(TotalFraction(Values(ts, b)), Value(t)),
                  Times(q.size, q.avgPrice))
        BY <1>1, <1>2, <1>3, <2>4, <3>1, <3>2, <3>3, ValueOfExecution DEF Value
      <4>2. QED
        BY <1>6, <1>8, <2>4, <3>1, <3>2, <3>3, <4>1
    <3>4. CASE b # a
      <4>1. ns[b] = pos[b] /\ pos[b].size \in Int
        BY <1>8, <3>4 DEF PositionSpecs
      <4>2. QED
        BY <2>4, <3>1, <3>2, <3>4, <4>1
    <3>5. QED
      BY <3>3, <3>4
  <2>6. /\ Total(Costs(ts)) \in Int
        /\ Total(Costs(Append(ts, t))) = Total(Costs(ts)) + c
    BY <1>4, <2>2, <2>4, OneMoreTrade
  <2>7. money - c = Deposit - Total(Costs(Append(ts, t)))
    BY <2>6, BoundsAssumption DEF Balances
  <2>8. Balances(ts \o new, ns, money - c)
    BY <2>3, <2>5, <2>7 DEF Balances
  <2>9. QED
    BY <1>3, <1>4, <1>7, <1>8, <1>9, <2>3, <2>8
<1>12. QED
  BY <1>10, <1>11

-----------------------------------------------------------------------------
LedgerInv == Balances(trades, positions, cash)

LEMMA NoTrades ==
    Balances(<<>>, [a \in Assets |-> Empty], Deposit)
<1>1. Costs(<<>>) = <<>> /\ \A a \in Assets : Sizes(<<>>, a) = <<>> /\ Values(<<>>, a) = <<>>
  BY DEF Costs, Sizes, Values
<1>2. Equal(Whole(0), Times(0, Whole(0)))
  BY DEF Equal, Times, Whole
<1>3. Empty.size = 0 /\ Empty.avgPrice = Whole(0)
  BY DEF Empty
<1>4. Deposit = Deposit - 0
  BY BoundsAssumption
<1> QED
  BY <1>1, <1>2, <1>3, <1>4, TotalOfNone, FractionTotalOfNone DEF Balances

(* A typed ledger that balances.                                           *)
Ledger(ts, pos, money) ==
    /\ ts \in Seq(Trades)
    /\ pos \in [Assets -> PositionSpecs]
    /\ money \in Int
    /\ Balances(ts, pos, money)

(* The execution of one leg leads from one balanced ledger to another.     *)
LegExecution(id, i, a, size, price, ts, pos, money, ts2, pos2, money2) ==
    /\ ts2 = ts \o NewTrades(id, i, pos[a], size, price)
    /\ pos2 = [pos EXCEPT ![a] = Plus(pos[a], size, price)]
    /\ money2 = money - TotalCost(size, price)

(* One leg's execution keeps the ledger balanced.                          *)
LEMMA LegLedger ==
    ASSUME Inv, NEW id \in Ids, NEW a \in Assets, a = book[id].asset,
           NEW i \in 1..3, NEW size \in Int, NEW price \in Prices,
           NEW ts, NEW pos, NEW money, Ledger(ts, pos, money),
           NEW ts2, NEW pos2, NEW money2,
           LegExecution(id, i, a, size, price, ts, pos, money, ts2, pos2, money2)
    PROVE  Ledger(ts2, pos2, money2)
BY OneExecution DEF Ledger, LegExecution

LEMMA ExecuteOrderLedger ==
    ASSUME Inv, LedgerInv, NEW id \in todo, ExecuteOrder(id)
    PROVE  LedgerInv'
<1>1. id \in Ids
  BY DEF Inv, TypeOK, BookType, WalkType
<1>2. WellFormed(book[id]) /\ executed[id] \in [1..3 -> Int]
  BY <1>1, BookFacts DEF Inv, TypeOK
<1>3. ExecutorInv(book[id], executed[id]) /\ book[id].asset \in Assets
  BY <1>1, <1>2 DEF Inv, Consistent, WellFormed, Executors
<1>4. PICK price \in event.prices[book[id].asset] :
        UpdateAccount(id, Execute(book[id], price, event.time).sizes, price)
  BY DEF ExecuteOrder
<1>5. price \in Prices /\ price \in Nat /\ event.time \in Nat
  BY <1>3, BoundsAssumption DEF Inv, TypeOK, WalkType, Quotes
<1>6. PICK s : s = Execute(book[id], price, event.time).sizes
  OBVIOUS
<1>7. s[1] \in Int /\ s[2] \in Int /\ s[3] \in Int
  <2>1. ExecutorStep(book[id], executed[id], Execute(book[id], price, event.time))
    BY <1>2, <1>3, <1>5, ExecuteFacts DEF ExecuteOrder
  <2>2. QED
    BY <1>6, <2>1 DEF ExecutorStep
<1>8. PICK a \in Assets : a = book[id].asset
  BY <1>3
<1>9. PICK p0, p1, p2, p3 :
        /\ p0 = positions[a] /\ p1 = Plus(p0, s[1], price)
        /\ p2 = Plus(p1, s[2], price) /\ p3 = Plus(p2, s[3], price)
  OBVIOUS
<1>10. PICK t1, t2, t3 :
        /\ t1 = trades \o NewTrades(id, 1, p0, s[1], price)
        /\ t2 = t1 \o NewTrades(id, 2, p1, s[2], price)
        /\ t3 = t2 \o NewTrades(id, 3, p2, s[3], price)
  OBVIOUS
<1>11. PICK c1, c2, c3 :
        /\ c1 = cash - TotalCost(s[1], price) /\ c2 = c1 - TotalCost(s[2], price)
        /\ c3 = c2 - TotalCost(s[3], price)
  OBVIOUS
<1>12. trades' = t3 /\ positions' = [positions EXCEPT ![a] = p3] /\ cash' = c3
  BY <1>4, <1>6, <1>8, <1>9, <1>10, <1>11 DEF UpdateAccount
<1>13. trades \in Seq(Trades) /\ positions \in [Assets -> PositionSpecs] /\ cash \in Int
  BY DEF Inv, TypeOK, AccountType, Trades
<1>14. PICK m1, m2, m3 :
        /\ m1 = [positions EXCEPT ![a] = p1] /\ m2 = [m1 EXCEPT ![a] = p2]
        /\ m3 = [m2 EXCEPT ![a] = p3]
  OBVIOUS
<1>15. m1[a] = p1 /\ m2[a] = p2 /\ m3 = [positions EXCEPT ![a] = p3]
  BY <1>8, <1>13, <1>14
<1>16. Ledger(trades, positions, cash)
  BY <1>13 DEF LedgerInv, Ledger
<1>17. Ledger(t1, m1, c1)
  <2>1. LegExecution(id, 1, a, s[1], price, trades, positions, cash, t1, m1, c1)
    BY <1>9, <1>10, <1>11, <1>14 DEF LegExecution
  <2>2. 1 \in 1..3
    OBVIOUS
  <2>3. QED
    BY <1>1, <1>5, <1>7, <1>8, <1>16, <2>1, <2>2, LegLedger
<1>18. Ledger(t2, m2, c2)
  <2>1. LegExecution(id, 2, a, s[2], price, t1, m1, c1, t2, m2, c2)
    BY <1>9, <1>10, <1>11, <1>14, <1>15 DEF LegExecution
  <2>2. 2 \in 1..3
    OBVIOUS
  <2>3. QED
    BY <1>1, <1>5, <1>7, <1>8, <1>17, <2>1, <2>2, LegLedger
<1>19. Ledger(t3, m3, c3)
  <2>1. LegExecution(id, 3, a, s[3], price, t2, m2, c2, t3, m3, c3)
    BY <1>9, <1>10, <1>11, <1>14, <1>15 DEF LegExecution
  <2>2. 3 \in 1..3
    OBVIOUS
  <2>3. QED
    BY <1>1, <1>5, <1>7, <1>8, <1>18, <2>1, <2>2, LegLedger
<1>20. QED
  BY <1>12, <1>15, <1>19 DEF LedgerInv, Ledger, Balances

LEMMA NextLedger == Inv /\ LedgerInv /\ [Next]_vars => LedgerInv'
<1> SUFFICES ASSUME Inv, LedgerInv, [Next]_vars PROVE LedgerInv'
  OBVIOUS
<1>1. ASSUME NEW id \in todo, ExecuteOrder(id) PROVE LedgerInv'
  BY <1>1, ExecuteOrderLedger
<1>2. CASE Reset
  <2>1. trades' = <<>> /\ positions' = [a \in Assets |-> Empty] /\ cash' = Deposit
    BY <1>2 DEF Reset
  <2>2. QED
    BY <2>1, NoTrades DEF LedgerInv
<1>3. ASSUME UNCHANGED <<trades, positions, cash>> PROVE LedgerInv'
  BY <1>3 DEF LedgerInv, Balances
<1>4. ASSUME NEW o \in Catalogue, PlaceOrder(o) PROVE LedgerInv'
  BY <1>3, <1>4 DEF PlaceOrder
<1>5. ASSUME NEW id \in executors, NEW now \in lastUpdate..MaxWall, CancelOrder(id, now)
      PROVE  LedgerInv'
  BY <1>3, <1>5 DEF CancelOrder, account
<1>6. ASSUME NEW id \in executors, NEW u \in Updates, NEW now \in lastUpdate..MaxWall,
             ModifyOrder(id, u, now)
      PROVE  LedgerInv'
  BY <1>3, <1>6 DEF ModifyOrder, account
<1>7. ASSUME \/ \E e \in Events : StartSync(e)
             \/ \E id \in todo : SkipExecutor(id)
             \/ FinishSync
             \/ SyncAccount
             \/ UNCHANGED vars
      PROVE  LedgerInv'
  BY <1>3, <1>7 DEF StartSync, SkipExecutor, FinishSync, SyncAccount, vars, account
<1>8. QED
  BY <1>1, <1>2, <1>4, <1>5, <1>6, <1>7 DEF Next

(* The ledger balances in every reachable state.                           *)
THEOREM LedgerInvariance == Spec => []LedgerInv
<1>1. Init => LedgerInv
  <2> SUFFICES ASSUME Init PROVE LedgerInv
    OBVIOUS
  <2>1. trades = <<>> /\ positions = [a \in Assets |-> Empty] /\ cash = Deposit
    BY DEF Init
  <2>2. QED
    BY <2>1, NoTrades DEF LedgerInv
<1>2. Inv /\ LedgerInv /\ [Next]_vars => LedgerInv'
  BY NextLedger
<1>3. QED
  BY <1>1, <1>2, Invariance, PTL DEF Spec

(* Nothing is bought or paid that no trade records, and no trade is        *)
(* recorded that was not, whatever is placed, executed or reset.           *)
THEOREM LedgerIsBalanced == Spec => []LedgerBalances
<1>1. LedgerInv => LedgerBalances
  BY DEF LedgerInv, Balances, LedgerBalances
<1>2. QED
  BY <1>1, LedgerInvariance, PTL

(* The realized profit of the trades and the price paid for the positions  *)
(* are what the trades cost.                                               *)
THEOREM ProfitIsComplete == Spec => []ProfitAddsUp
<1>1. LedgerInv => ProfitAddsUp
  BY DEF LedgerInv, Balances, ProfitAddsUp
<1>2. QED
  BY <1>1, LedgerInvariance, PTL
=============================================================================
