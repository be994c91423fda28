------------------------ MODULE OrderExecutionProofs ------------------------
(***************************************************************************)
(* What a call of a single executor returns, for every order, price and    *)
(* time. The proofs about the broker cite these lemmas, never the          *)
(* definition of an executor's method.                                     *)
(***************************************************************************)
EXTENDS OrderExecution, TLAPS

(* A fill is all or nothing, and an order that is still open has none.     *)
LegInv(leg) ==
    /\ leg.fill \in {0, leg.size}
    /\ ~Closed(leg.status) => leg.fill = 0

(* Everything about a call's result r on leg that the other proofs need.   *)
LegStep(leg, r) ==
    /\ r.leg \in Legs /\ LegInv(r.leg) /\ r.leg.size = leg.size
    /\ r.size \in {0, leg.size}
    /\ leg.fill # 0 => r.leg.fill = leg.fill /\ r.size = 0
    /\ r.size # 0 => r.leg.status = "COMPLETED" /\ r.leg.fill = leg.size
    /\ ~Closed(leg.status) => (r.leg.status = "COMPLETED" <=> r.size # 0)
    /\ r.leg.status # "CANCELLED" \/ leg.status = "CANCELLED"

-----------------------------------------------------------------------------
(* The ratchet moves the trigger and the limit, nothing else.              *)
LEMMA RatchetFacts ==
    ASSUME NEW leg \in Legs, NEW price \in Nat
    PROVE  LET n == Ratchet(leg, price)
           IN  /\ n \in Legs
               /\ n.size = leg.size /\ n.tif = leg.tif /\ n.fill = leg.fill
               /\ n.status = leg.status /\ n.openedAt = leg.openedAt
<1> DEFINE candidates == leg.trigger \cup TrailCandidates(leg, price)
           best == {t \in candidates :
                      \A c \in candidates : IF Buy(leg) THEN t <= c ELSE t >= c}
           limit == {t + o : t \in best, o \in leg.offset}
<1>1. TrailCandidates(leg, price) \subseteq Int
  BY DEF TrailCandidates, Legs
<1>2. best \in SUBSET Int
  BY <1>1 DEF Legs
<1>3. limit \in SUBSET Int
  BY <1>2 DEF Legs
<1>4. Ratchet(leg, price) \in {leg, [leg EXCEPT !.trigger = best, !.limit = limit]}
  BY DEF Ratchet
<1> HIDE DEF best, limit
<1>5. QED
  BY <1>2, <1>3, <1>4 DEF Legs

(* Opening and triggering an order leave its size and its fill alone.      *)
LEMMA AcceptFacts ==
    ASSUME NEW leg \in Legs, NEW time \in Nat
    PROVE  LET n == Accept(leg, time)
           IN  /\ n \in Legs /\ n.status # "CREATED"
               /\ n.size = leg.size /\ n.fill = leg.fill
               /\ leg.status # "CREATED" => n.status = leg.status
               /\ leg.status = "CREATED" => n.status = "ACCEPTED"
BY DEF Accept, Legs, Statuses

LEMMA TriggerFacts ==
    ASSUME NEW leg \in Legs, NEW price \in Nat
    PROVE  LET n == Trigger(leg, price)
           IN  /\ n \in Legs /\ n.status = leg.status
               /\ n.size = leg.size /\ n.fill = leg.fill
BY DEF Trigger, Legs

LEMMA SettleFacts ==
    ASSUME NEW leg \in Legs, LegInv(leg), NEW time \in Nat,
           NEW newFill \in {0, Remaining(leg)}
    PROVE  LegStep(leg, Settle(leg, newFill, time))
<1> DEFINE filled == [leg EXCEPT !.fill = leg.fill + newFill]
           r == Settle(leg, newFill, time)
<1>1. /\ leg.size \in Int /\ leg.size # 0 /\ leg.fill \in Int
      /\ leg.status \in Statuses /\ leg.fill \in {0, leg.size}
  BY DEF Legs, LegInv
<1>2. newFill \in {0, leg.size} /\ (leg.fill # 0 => newFill = 0)
  BY <1>1 DEF Remaining
<1>3. /\ filled \in Legs /\ filled.fill = leg.fill + newFill
      /\ filled.size = leg.size /\ filled.status = leg.status
  BY <1>1, <1>2 DEF Legs
<1>4. /\ filled.fill \in {0, leg.size} /\ Remaining(filled) = leg.size - filled.fill
      /\ newFill # 0 => filled.fill = leg.size
  BY <1>1, <1>2, <1>3 DEF Remaining
<1>5. /\ [filled EXCEPT !.status = "EXPIRED"] \in Legs
      /\ [filled EXCEPT !.status = "COMPLETED"] \in Legs
  BY <1>3 DEF Legs, Statuses
<1>6. \/ r = [leg |-> [filled EXCEPT !.status = "EXPIRED"], size |-> 0]
      \/ /\ Remaining(filled) = 0
         /\ r = [leg |-> [filled EXCEPT !.status = "COMPLETED"], size |-> newFill]
      \/ Remaining(filled) # 0 /\ r = [leg |-> filled, size |-> newFill]
  BY DEF Settle
<1>7. r = Settle(leg, newFill, time)
  OBVIOUS
<1> HIDE DEF filled, r
<1>8. SUFFICES LegStep(leg, r)
  BY <1>7
<1>9. CASE r = [leg |-> [filled EXCEPT !.status = "EXPIRED"], size |-> 0]
  <2>1. /\ r.leg \in Legs /\ r.leg.status = "EXPIRED" /\ r.leg.fill = filled.fill
        /\ r.leg.size = leg.size /\ r.size = 0
    BY <1>3, <1>5, <1>9 DEF Legs
  <2>2. QED
    BY <2>1, <1>1, <1>2, <1>3, <1>4 DEF LegStep, LegInv, Closed
<1>10. CASE /\ Remaining(filled) = 0
           /\ r = [leg |-> [filled EXCEPT !.status = "COMPLETED"], size |-> newFill]
  <2>1. /\ r.leg \in Legs /\ r.leg.status = "COMPLETED" /\ r.leg.fill = filled.fill
        /\ r.leg.size = leg.size /\ r.size = newFill /\ filled.fill = leg.size
    BY <1>1, <1>3, <1>4, <1>5, <1>10 DEF Legs
  <2>2. ~Closed(leg.status) => newFill # 0
    BY <2>1, <1>1, <1>3 DEF LegInv
  <2>3. QED
    BY <2>1, <2>2, <1>1, <1>2 DEF LegStep, LegInv, Closed
<1>11. CASE Remaining(filled) # 0 /\ r = [leg |-> filled, size |-> newFill]
  <2>1. newFill = 0 /\ filled.fill = 0 /\ leg.fill = 0
    BY <1>1, <1>2, <1>3, <1>4, <1>11
  <2>2. r.leg \in Legs /\ r.leg = filled /\ r.size = 0
    BY <2>1, <1>3, <1>11
  <2>3. ~Closed(leg.status) => leg.status # "COMPLETED"
    BY DEF Closed
  <2>4. QED
    BY <2>1, <2>2, <2>3, <1>1, <1>3 DEF LegStep, LegInv
<1>12. QED
  BY <1>6, <1>9, <1>10, <1>11

(* A call of execute() on a single executor.                               *)
LEMMA ExecuteLegFacts ==
    ASSUME NEW leg \in Legs, LegInv(leg), NEW price \in Nat, NEW time \in Nat
    PROVE  LegStep(leg, ExecuteLeg(leg, price, time))
<1> DEFINE moved  == Ratchet(leg, price)
           opened == Accept(moved, time)
           ready  == Trigger(Accept(Ratchet(leg, price), time), price)
<1>1. /\ ready \in Legs /\ ready.size = leg.size /\ ready.fill = leg.fill
      /\ leg.status # "CREATED" => ready.status = leg.status
      /\ leg.status = "CREATED" => ready.status = "ACCEPTED"
  <2>1. /\ moved \in Legs /\ moved.size = leg.size /\ moved.fill = leg.fill
        /\ moved.status = leg.status
    BY RatchetFacts
  <2> HIDE DEF moved
  <2>2. /\ opened \in Legs /\ opened.size = moved.size /\ opened.fill = moved.fill
        /\ moved.status # "CREATED" => opened.status = moved.status
        /\ moved.status = "CREATED" => opened.status = "ACCEPTED"
    BY <2>1, AcceptFacts
  <2> HIDE DEF opened
  <2>3. LET n == Trigger(opened, price)
        IN  /\ n \in Legs /\ n.status = opened.status
            /\ n.size = opened.size /\ n.fill = opened.fill
    BY <2>2, TriggerFacts
  <2>4. ready = Trigger(opened, price)
    BY DEF moved, opened
  <2>5. QED
    BY <2>1, <2>2, <2>3, <2>4
<1>2. LegInv(ready)
  BY <1>1 DEF LegInv, Closed
<1>3. NewFill(ready, price) \in {0, Remaining(ready)}
  BY DEF NewFill
<1>4. LegStep(ready, Settle(ready, NewFill(ready, price), time))
  BY <1>1, <1>2, <1>3, SettleFacts
<1>5. ExecuteLeg(leg, price, time) = Settle(ready, NewFill(ready, price), time)
  BY DEF ExecuteLeg
<1>6. QED
  BY <1>1, <1>4, <1>5 DEF LegStep, Closed

(* A cancelled order keeps its fill; it never becomes COMPLETED.           *)
LEMMA CancelLegFacts ==
    ASSUME NEW leg \in Legs, LegInv(leg), NEW time \in Nat
    PROVE  LET n == CancelLeg(leg, time)
           IN  /\ n \in Legs /\ LegInv(n) /\ Closed(n.status)
               /\ n.size = leg.size /\ n.fill = leg.fill
               /\ n.status = "COMPLETED" <=> leg.status = "COMPLETED"
BY DEF CancelLeg, Legs, LegInv, Closed, Statuses
-----------------------------------------------------------------------------
(* Executors. x[i] is what leg i has traded so far.                        *)

WellFormed(e) == e \in Executors /\ Len(e.legs) = LegCount(e.kind)

LegsInv(e, x) ==
    \A i \in 1..LegCount(e.kind) : LegInv(e.legs[i]) /\ x[i] \in {0, e.legs[i].fill}

SingleInv(e, x) ==
    /\ e.status = e.legs[1].status
    /\ e.status = "COMPLETED" <=> x[1] # 0

(* An exit that has a fill shuts the other one out.                        *)
BracketInv(e, x) == e.legs[2].fill = 0 \/ e.legs[3].fill = 0

OCOInv(e, x) ==
    /\ x[1] = 0 \/ x[2] = 0
    /\ e.status = "COMPLETED" <=> x[1] # 0 \/ x[2] # 0

(* The secondary order is open as long as the OTO is.                      *)
OTOInv(e, x) ==
    /\ e.legs[1].status = "COMPLETED" <=> x[1] # 0
    /\ x[2] # 0 => x[1] # 0
    /\ ~Closed(e.status) => ~Closed(e.legs[2].status)
    /\ e.status = "COMPLETED" <=> x[1] # 0 /\ x[2] # 0

ExecutorInv(e, x) ==
    /\ LegsInv(e, x)
    /\ e.kind = "single"  => SingleInv(e, x)
    /\ e.kind = "bracket" => BracketInv(e, x)
    /\ e.kind = "oco"     => OCOInv(e, x)
    /\ e.kind = "oto"     => OTOInv(e, x)

Added(x, s) == [i \in 1..3 |-> x[i] + s[i]]

(* A call of an executor keeps its identity and its invariant.             *)
ExecutorStep(e, x, r) ==
    /\ WellFormed(r.executor) /\ r.executor.kind = e.kind
    /\ r.executor.asset = e.asset /\ r.executor.frozen = e.frozen
    /\ r.sizes \in [1..3 -> Int]
    /\ ExecutorInv(r.executor, Added(x, r.sizes))

LEMMA LegTypes ==
    ASSUME NEW e, WellFormed(e)
    PROVE  /\ e.kind \in Kinds /\ LegCount(e.kind) \in 1..3
           /\ \A i \in 1..LegCount(e.kind) : e.legs[i] \in Legs
           /\ e.kind = "single"  => LegCount(e.kind) = 1
           /\ e.kind = "bracket" => LegCount(e.kind) = 3
           /\ e.kind = "oco"     => LegCount(e.kind) = 2
           /\ e.kind = "oto"     => LegCount(e.kind) = 2
<1>1. e.kind \in Kinds /\ e.legs \in Seq(Legs) /\ Len(e.legs) = LegCount(e.kind)
  BY DEF WellFormed, Executors
<1>2. QED
  BY <1>1 DEF LegCount, Kinds

LEMMA ExecuteSingleFacts ==
    ASSUME NEW e, WellFormed(e), NEW x \in [1..3 -> Int], ExecutorInv(e, x),
           e.kind = "single", ~Closed(e.status), NEW price \in Nat, NEW time \in Nat
    PROVE  ExecutorStep(e, x, ExecuteSingle(e, price, time))
<1> DEFINE r == ExecuteLeg(e.legs[1], price, time)
           legs == <<r.leg>>
           sizes == <<r.size, 0, 0>>
           n == Result(e, legs, r.leg.status, e.active, sizes)
<1>1. e.legs[1] \in Legs /\ LegCount(e.kind) = 1
  BY LegTypes
<1>2. /\ LegInv(e.legs[1]) /\ x[1] \in {0, e.legs[1].fill}
      /\ e.status = e.legs[1].status
  BY <1>1 DEF ExecutorInv, LegsInv, SingleInv
<1>3. LegStep(e.legs[1], r)
  BY <1>1, <1>2, ExecuteLegFacts
<1>4. ExecuteSingle(e, price, time) = n
  BY DEF ExecuteSingle
<1>5. /\ r.leg \in Legs /\ r.leg.status \in Statuses /\ r.size \in Int
      /\ legs \in Seq(Legs) /\ Len(legs) = 1 /\ sizes \in [1..3 -> Int]
      /\ e.active \in 0..2
  BY <1>1, <1>3, SMTT(20) DEF LegStep, Legs, WellFormed, Executors
<1> HIDE DEF r, legs, sizes
<1>6. /\ WellFormed(n.executor) /\ n.sizes = sizes
      /\ n.executor.kind = e.kind /\ n.executor.asset = e.asset
      /\ n.executor.frozen = e.frozen /\ n.executor.legs = legs
      /\ n.executor.status = r.leg.status
  <2>1. Len(legs) = LegCount(e.kind)
    BY <1>1, <1>5
  <2>2. QED
    BY <2>1, <1>5 DEF Result, WellFormed, Executors
<1> HIDE DEF n
<1>7. x[1] = 0 /\ e.legs[1].fill = 0
  BY <1>2 DEF LegInv
<1>8. Added(x, sizes)[1] = r.size
  BY <1>5, <1>7 DEF Added, sizes
<1>9. LegsInv(n.executor, Added(x, sizes))
  BY <1>1, <1>3, <1>6, <1>8 DEF LegsInv, LegStep, LegInv, legs
<1>10. SingleInv(n.executor, Added(x, sizes))
  BY <1>2, <1>3, <1>6, <1>8 DEF SingleInv, LegStep, legs
<1>11. QED
  BY <1>4, <1>5, <1>6, <1>9, <1>10 DEF ExecutorStep, ExecutorInv

LEMMA ExecuteEntryFacts ==
    ASSUME NEW e, WellFormed(e), NEW x \in [1..3 -> Int], ExecutorInv(e, x),
           e.kind = "bracket", ~Closed(e.legs[1].status), NEW price \in Nat, NEW time \in Nat
    PROVE  ExecutorStep(e, x, ExecuteEntry(e, price, time))
<1> DEFINE r == ExecuteLeg(e.legs[1], price, time)
           legs == <<r.leg, e.legs[2], e.legs[3]>>
           sizes == <<r.size, 0, 0>>
           n == Result(e, legs, "ACCEPTED", e.active, sizes)
<1>1. LegCount(e.kind) = 3 /\ \A i \in 1..3 : e.legs[i] \in Legs
  BY LegTypes
<1>2. /\ \A i \in 1..3 : LegInv(e.legs[i]) /\ x[i] \in {0, e.legs[i].fill}
      /\ BracketInv(e, x)
  BY <1>1 DEF ExecutorInv, LegsInv
<1>3. LegStep(e.legs[1], r)
  BY <1>1, <1>2, ExecuteLegFacts
<1>4. ExecuteEntry(e, price, time) = n
  BY DEF ExecuteEntry
<1>5. r.leg \in Legs /\ r.size \in Int
  BY <1>1, <1>3 DEF LegStep, Legs
<1>6. e.legs[1].fill = 0 /\ x[1] = 0
  BY <1>2 DEF LegInv
<1> HIDE DEF r
<1>7. legs \in Seq(Legs) /\ Len(legs) = 3 /\ sizes \in [1..3 -> Int]
  BY <1>1, <1>5
<1> HIDE DEF legs, sizes
<1>8. /\ WellFormed(n.executor) /\ n.sizes = sizes
      /\ n.executor.kind = e.kind /\ n.executor.asset = e.asset
      /\ n.executor.frozen = e.frozen /\ n.executor.legs = legs
  BY <1>1, <1>7 DEF Result, WellFormed, Executors, Statuses
<1> HIDE DEF n
<1>9. /\ Added(x, sizes)[1] = r.size
      /\ Added(x, sizes)[2] = x[2] /\ Added(x, sizes)[3] = x[3]
  BY <1>5, <1>6 DEF Added, sizes
<1>10. LegsInv(n.executor, Added(x, sizes))
  BY <1>1, <1>2, <1>3, <1>5, <1>6, <1>8, <1>9 DEF LegsInv, LegStep, LegInv, Legs, legs
<1>11. BracketInv(n.executor, Added(x, sizes))
  BY <1>2, <1>8 DEF BracketInv, legs
<1>12. QED
  BY <1>4, <1>7, <1>8, <1>10, <1>11 DEF ExecutorStep, ExecutorInv

LEMMA ExecuteExitsFacts ==
    ASSUME NEW e, WellFormed(e), NEW x \in [1..3 -> Int], ExecutorInv(e, x),
           e.kind = "bracket", NEW price \in Nat, NEW time \in Nat
    PROVE  ExecutorStep(e, x, ExecuteExits(e, price, time))
<1> DEFINE profit == IF e.legs[3].fill = 0 THEN ExecuteLeg(e.legs[2], price, time)
                                           ELSE Untouched(e.legs[2])
           loss   == IF profit.leg.fill = 0 THEN ExecuteLeg(e.legs[3], price, time)
                                            ELSE Untouched(e.legs[3])
           remaining == e.legs[1].size + loss.leg.fill + profit.leg.fill
           legs == <<e.legs[1], profit.leg, loss.leg>>
           sizes == <<0, profit.size, loss.size>>
           n == Result(e, legs, IF remaining = 0 THEN "COMPLETED" ELSE "ACCEPTED",
                       e.active, sizes)
<1>1. LegCount(e.kind) = 3 /\ \A i \in 1..3 : e.legs[i] \in Legs
  BY LegTypes
<1>2. /\ \A i \in 1..3 : LegInv(e.legs[i]) /\ x[i] \in {0, e.legs[i].fill}
      /\ BracketInv(e, x)
  BY <1>1 DEF ExecutorInv, LegsInv
<1>3. LegStep(e.legs[2], ExecuteLeg(e.legs[2], price, time))
  BY <1>1, <1>2, ExecuteLegFacts
<1>4. LegStep(e.legs[3], ExecuteLeg(e.legs[3], price, time))
  BY <1>1, <1>2, ExecuteLegFacts
<1>5. ExecuteExits(e, price, time) = n
  BY DEF ExecuteExits
(* Whether an exit was executed or passed over, its trades match its fill. *)
<1>6. /\ profit.leg \in Legs /\ LegInv(profit.leg) /\ profit.size \in Int
      /\ x[2] + profit.size \in {0, profit.leg.fill}
      /\ profit.leg.fill # 0 => e.legs[3].fill = 0 \/ profit.leg = e.legs[2]
  BY <1>1, <1>2, <1>3 DEF Untouched, LegStep, LegInv, Legs
<1>7. profit.leg.fill = 0 \/ e.legs[3].fill = 0
  BY <1>2, <1>6 DEF BracketInv
<1>8. profit.leg.fill \in Int
  BY <1>6 DEF Legs
<1> HIDE DEF profit
<1>9. /\ loss.leg \in Legs /\ LegInv(loss.leg) /\ loss.size \in Int
      /\ x[3] + loss.size \in {0, loss.leg.fill}
      /\ profit.leg.fill # 0 => loss.leg.fill = 0
  BY <1>1, <1>2, <1>4, <1>7, SMTT(20) DEF Untouched, LegStep, LegInv, Legs
<1> HIDE DEF loss
<1>10. legs \in Seq(Legs) /\ Len(legs) = 3 /\ sizes \in [1..3 -> Int]
  BY <1>1, <1>6, <1>9
<1> HIDE DEF legs, sizes, remaining
<1>11. /\ WellFormed(n.executor) /\ n.sizes = sizes
       /\ n.executor.kind = e.kind /\ n.executor.asset = e.asset
       /\ n.executor.frozen = e.frozen /\ n.executor.legs = legs
  BY <1>1, <1>10 DEF Result, WellFormed, Executors, Statuses
<1> HIDE DEF n
<1>12. /\ Added(x, sizes)[1] = x[1]
       /\ Added(x, sizes)[2] = x[2] + profit.size
       /\ Added(x, sizes)[3] = x[3] + loss.size
  BY <1>6, <1>9 DEF Added, sizes
<1>13. LegsInv(n.executor, Added(x, sizes))
  <2>1. /\ legs[1] = e.legs[1] /\ legs[2] = profit.leg /\ legs[3] = loss.leg
    BY DEF legs
  <2>2. /\ LegInv(legs[1]) /\ Added(x, sizes)[1] \in {0, legs[1].fill}
        /\ LegInv(legs[2]) /\ Added(x, sizes)[2] \in {0, legs[2].fill}
        /\ LegInv(legs[3]) /\ Added(x, sizes)[3] \in {0, legs[3].fill}
    BY <2>1, <1>2, <1>6, <1>9, <1>12
  <2>3. QED
    <3>1. \A i \in 1..3 : i = 1 \/ i = 2 \/ i = 3
      OBVIOUS
    <3>2. \A i \in 1..3 : LegInv(legs[i]) /\ Added(x, sizes)[i] \in {0, legs[i].fill}
      BY <2>2, <3>1
    <3>3. QED
      BY <3>2, <1>1, <1>11 DEF LegsInv
<1>14. BracketInv(n.executor, Added(x, sizes))
  BY <1>9, <1>11 DEF BracketInv, legs
<1>15. QED
  BY <1>5, <1>10, <1>11, <1>13, <1>14 DEF ExecutorStep, ExecutorInv

LEMMA ExecuteOCOFacts ==
    ASSUME NEW e, WellFormed(e), NEW x \in [1..3 -> Int], ExecutorInv(e, x),
           e.kind = "oco", ~Closed(e.status), NEW price \in Nat, NEW time \in Nat
    PROVE  ExecutorStep(e, x, ExecuteOCO(e, price, time))
<1> DEFINE first  == IF e.active \in {0, 1} THEN ExecuteLeg(e.legs[1], price, time)
                                            ELSE Untouched(e.legs[1])
           second == IF e.active \in {0, 2} THEN ExecuteLeg(e.legs[2], price, time)
                                            ELSE Untouched(e.legs[2])
           other1 == CancelLeg(first.leg, time)
           other2 == CancelLeg(e.legs[2], time)
           r == ExecuteOCO(e, price, time)
<1>1. LegCount(e.kind) = 2 /\ e.legs[1] \in Legs /\ e.legs[2] \in Legs
  BY LegTypes
<1>2. /\ LegInv(e.legs[1]) /\ LegInv(e.legs[2])
      /\ x[1] \in {0, e.legs[1].fill} /\ x[2] \in {0, e.legs[2].fill}
      /\ x[1] = 0 /\ x[2] = 0
  BY <1>1 DEF ExecutorInv, LegsInv, OCOInv, Closed
<1>3. LegStep(e.legs[1], ExecuteLeg(e.legs[1], price, time))
  BY <1>1, <1>2, ExecuteLegFacts
<1>4. LegStep(e.legs[2], ExecuteLeg(e.legs[2], price, time))
  BY <1>1, <1>2, ExecuteLegFacts
<1>5. /\ first.leg \in Legs /\ LegInv(first.leg) /\ first.size \in {0, first.leg.fill}
      /\ first.size # 0 => first.leg.status = "COMPLETED"
  BY <1>1, <1>2, <1>3 DEF Untouched, LegStep, LegInv
<1>6. /\ second.leg \in Legs /\ LegInv(second.leg) /\ second.size \in {0, second.leg.fill}
      /\ second.size # 0 => second.leg.status = "COMPLETED"
  BY <1>1, <1>2, <1>4 DEF Untouched, LegStep, LegInv
<1>7. first.size \in Int /\ second.size \in Int
  BY <1>5, <1>6 DEF Legs
<1>8. \/ /\ first.size # 0
         /\ r = Result(e, <<first.leg, other2>>, first.leg.status, 1, <<first.size, 0, 0>>)
      \/ /\ second.size # 0
         /\ r = Result(e, <<other1, second.leg>>, second.leg.status, 2, <<0, second.size, 0>>)
      \/ r = Result(e, <<first.leg, second.leg>>, "ACCEPTED", e.active, <<0, 0, 0>>)
  BY DEF ExecuteOCO
<1> HIDE DEF first, second
<1>9. other1 \in Legs /\ LegInv(other1)
  BY <1>5, CancelLegFacts
<1>10. other2 \in Legs /\ LegInv(other2)
  BY <1>1, <1>2, CancelLegFacts
<1>11. r = ExecuteOCO(e, price, time)
  OBVIOUS
<1> HIDE DEF other1, other2, r
<1>12. SUFFICES ExecutorStep(e, x, r)
  BY <1>11
<1>13. \A i \in 1..2 : i = 1 \/ i = 2
  OBVIOUS
<1>14. CASE /\ first.size # 0
            /\ r = Result(e, <<first.leg, other2>>, first.leg.status, 1, <<first.size, 0, 0>>)
  <2> DEFINE legs == <<first.leg, other2>>
             sizes == <<first.size, 0, 0>>
  <2>1. /\ legs \in Seq(Legs) /\ Len(legs) = 2 /\ sizes \in [1..3 -> Int]
        /\ legs[1] = first.leg /\ legs[2] = other2
    BY <1>5, <1>7, <1>10
  <2>2. Added(x, sizes)[1] = first.size /\ Added(x, sizes)[2] = 0
    BY <1>2, <1>7 DEF Added
  <2> HIDE DEF legs, sizes
  <2>3. r = Result(e, legs, "COMPLETED", 1, sizes)
    BY <1>5, <1>14 DEF legs, sizes
  <2>4. /\ WellFormed(r.executor) /\ r.sizes = sizes
        /\ r.executor.kind = e.kind /\ r.executor.asset = e.asset
        /\ r.executor.frozen = e.frozen /\ r.executor.legs = legs
        /\ r.executor.status = "COMPLETED"
    <3>1. e \in Executors /\ 1 \in 0..2 /\ 2 \in 0..2 /\ "COMPLETED" \in Statuses
      BY DEF WellFormed, Statuses
    <3>2. r.executor \in Executors
      BY <2>1, <2>3, <3>1 DEF Result, Executors
    <3>3. QED
      BY <2>1, <2>3, <3>1, <3>2, <1>1 DEF Result, WellFormed, Executors
  <2>5. LegsInv(r.executor, Added(x, sizes))
    BY <2>1, <2>2, <2>4, <1>1, <1>5, <1>10, <1>13 DEF LegsInv
  <2>6. OCOInv(r.executor, Added(x, sizes))
    BY <2>2, <2>4, <1>14 DEF OCOInv
  <2>7. QED
    BY <2>1, <2>4, <2>5, <2>6 DEF ExecutorStep, ExecutorInv
<1>15. CASE /\ second.size # 0
            /\ r = Result(e, <<other1, second.leg>>, second.leg.status, 2, <<0, second.size, 0>>)
  <2> DEFINE legs == <<other1, second.leg>>
             sizes == <<0, second.size, 0>>
  <2>1. /\ legs \in Seq(Legs) /\ Len(legs) = 2 /\ sizes \in [1..3 -> Int]
        /\ legs[1] = other1 /\ legs[2] = second.leg
    BY <1>6, <1>7, <1>9
  <2>2. Added(x, sizes)[1] = 0 /\ Added(x, sizes)[2] = second.size
    BY <1>2, <1>7 DEF Added
  <2> HIDE DEF legs, sizes
  <2>3. r = Result(e, legs, "COMPLETED", 2, sizes)
    BY <1>6, <1>15 DEF legs, sizes
  <2>4. /\ WellFormed(r.executor) /\ r.sizes = sizes
        /\ r.executor.kind = e.kind /\ r.executor.asset = e.asset
        /\ r.executor.frozen = e.frozen /\ r.executor.legs = legs
        /\ r.executor.status = "COMPLETED"
    <3>1. e \in Executors /\ 1 \in 0..2 /\ 2 \in 0..2 /\ "COMPLETED" \in Statuses
      BY DEF WellFormed, Statuses
    <3>2. r.executor \in Executors
      BY <2>1, <2>3, <3>1 DEF Result, Executors
    <3>3. QED
      BY <2>1, <2>3, <3>1, <3>2, <1>1 DEF Result, WellFormed, Executors
  <2>5. LegsInv(r.executor, Added(x, sizes))
    BY <2>1, <2>2, <2>4, <1>1, <1>6, <1>9, <1>13 DEF LegsInv
  <2>6. OCOInv(r.executor, Added(x, sizes))
    BY <2>2, <2>4, <1>15 DEF OCOInv
  <2>7. QED
    BY <2>1, <2>4, <2>5, <2>6 DEF ExecutorStep, ExecutorInv
<1>16. CASE r = Result(e, <<first.leg, second.leg>>, "ACCEPTED", e.active, <<0, 0, 0>>)
  <2> DEFINE legs == <<first.leg, second.leg>>
             sizes == <<0, 0, 0>>
  <2>1. /\ legs \in Seq(Legs) /\ Len(legs) = 2 /\ sizes \in [1..3 -> Int]
        /\ legs[1] = first.leg /\ legs[2] = second.leg
    BY <1>5, <1>6
  <2>2. Added(x, sizes)[1] = 0 /\ Added(x, sizes)[2] = 0
    BY <1>2 DEF Added
  <2> HIDE DEF legs, sizes
  <2>3. r = Result(e, legs, "ACCEPTED", e.active, sizes)
    BY <1>16 DEF legs, sizes
  <2>4. /\ WellFormed(r.executor) /\ r.sizes = sizes
        /\ r.executor.kind = e.kind /\ r.executor.asset = e.asset
        /\ r.executor.frozen = e.frozen /\ r.executor.legs = legs
        /\ r.executor.status = "ACCEPTED"
    BY <2>1, <2>3, <1>1 DEF Result, WellFormed, Executors, Statuses
  <2>5. LegsInv(r.executor, Added(x, sizes))
    BY <2>1, <2>2, <2>4, <1>1, <1>5, <1>6, <1>13 DEF LegsInv
  <2>6. OCOInv(r.executor, Added(x, sizes))
    BY <2>2, <2>4 DEF OCOInv
  <2>7. QED
    BY <2>1, <2>4, <2>5, <2>6 DEF ExecutorStep, ExecutorInv
<1>17. QED
  BY <1>8, <1>14, <1>15, <1>16

LEMMA ExecuteOTOFacts ==
    ASSUME NEW e, WellFormed(e), NEW x \in [1..3 -> Int], ExecutorInv(e, x),
           e.kind = "oto", ~Closed(e.status), NEW price \in Nat, NEW time \in Nat
    PROVE  ExecutorStep(e, x, ExecuteOTO(e, price, time))
<1> DEFINE first  == IF Closed(e.legs[1].status) THEN Untouched(e.legs[1])
                                                ELSE ExecuteLeg(e.legs[1], price, time)
           second == IF first.leg.status = "COMPLETED"
                     THEN ExecuteLeg(e.legs[2], price, time)
                     ELSE Untouched(e.legs[2])
           status == IF first.leg.status = "COMPLETED" THEN second.leg.status
                     ELSE IF ~Closed(e.legs[1].status) /\ Aborted(first.leg.status)
                     THEN first.leg.status
                     ELSE "ACCEPTED"
           legs == <<first.leg, second.leg>>
           sizes == <<first.size, second.size, 0>>
           n == Result(e, legs, status, e.active, sizes)
<1>1. LegCount(e.kind) = 2 /\ e.legs[1] \in Legs /\ e.legs[2] \in Legs
  BY LegTypes
<1>2. /\ LegInv(e.legs[1]) /\ LegInv(e.legs[2])
      /\ x[1] \in {0, e.legs[1].fill} /\ x[2] \in {0, e.legs[2].fill}
      /\ e.legs[1].status = "COMPLETED" <=> x[1] # 0
      /\ ~Closed(e.legs[2].status) /\ e.legs[2].fill = 0 /\ x[2] = 0
  BY <1>1 DEF ExecutorInv, LegsInv, OTOInv, LegInv
<1>3. LegStep(e.legs[1], ExecuteLeg(e.legs[1], price, time))
  BY <1>1, <1>2, ExecuteLegFacts
<1>4. LegStep(e.legs[2], ExecuteLeg(e.legs[2], price, time))
  BY <1>1, <1>2, ExecuteLegFacts
<1>5. ExecuteOTO(e, price, time) = n
  BY DEF ExecuteOTO
<1>6. /\ first.leg \in Legs /\ LegInv(first.leg) /\ first.size \in Int
      /\ x[1] + first.size \in {0, first.leg.fill}
      /\ first.leg.status = "COMPLETED" <=> x[1] + first.size # 0
  <2>1. CASE Closed(e.legs[1].status)
    BY <2>1, <1>1, <1>2 DEF Untouched, Legs
  <2>2. CASE ~Closed(e.legs[1].status)
    <3>1. e.legs[1].fill = 0 /\ x[1] = 0
      BY <2>2, <1>2 DEF LegInv
    <3>2. QED
      BY <3>1, <2>2, <1>1, <1>3 DEF LegStep, LegInv, Legs
  <2>3. QED
    BY <2>1, <2>2
<1> HIDE DEF first
<1>7. /\ second.leg \in Legs /\ LegInv(second.leg) /\ second.size \in Int
      /\ second.size \in {0, second.leg.fill}
      /\ second.size # 0 => first.leg.status = "COMPLETED"
      /\ second.leg.status = "COMPLETED" <=> second.size # 0
      /\ first.leg.status # "COMPLETED" => ~Closed(second.leg.status)
  BY <1>1, <1>2, <1>4 DEF Untouched, LegStep, LegInv, Legs, Closed
<1> HIDE DEF second
<1>8. /\ status \in Statuses
      /\ status = "COMPLETED" <=> second.leg.status = "COMPLETED" /\ second.size # 0
      /\ ~Closed(status) => ~Closed(second.leg.status)
  BY <1>6, <1>7 DEF Statuses, Closed, Aborted, Legs
<1>9. /\ legs \in Seq(Legs) /\ Len(legs) = 2 /\ sizes \in [1..3 -> Int]
      /\ legs[1] = first.leg /\ legs[2] = second.leg
  BY <1>6, <1>7
<1>10. /\ Added(x, sizes)[1] = x[1] + first.size
       /\ Added(x, sizes)[2] = second.size
  BY <1>2, <1>6, <1>7 DEF Added
<1> HIDE DEF legs, sizes, status
<1>11. /\ WellFormed(n.executor) /\ n.sizes = sizes
       /\ n.executor.kind = e.kind /\ n.executor.asset = e.asset
       /\ n.executor.frozen = e.frozen /\ n.executor.legs = legs
       /\ n.executor.status = status
  BY <1>1, <1>8, <1>9 DEF Result, WellFormed, Executors
<1> HIDE DEF n
<1>12. \A i \in 1..2 : i = 1 \/ i = 2
  OBVIOUS
<1>13. LegsInv(n.executor, Added(x, sizes))
  BY <1>1, <1>6, <1>7, <1>9, <1>10, <1>11, <1>12 DEF LegsInv
<1>14. OTOInv(n.executor, Added(x, sizes))
  BY <1>6, <1>7, <1>8, <1>9, <1>10, <1>11 DEF OTOInv
<1>15. QED
  BY <1>5, <1>9, <1>11, <1>13, <1>14 DEF ExecutorStep, ExecutorInv

(* A call of execute() on an executor of any kind that is not closed.      *)
LEMMA ExecuteFacts ==
    ASSUME NEW e, WellFormed(e), NEW x \in [1..3 -> Int], ExecutorInv(e, x),
           ~Closed(e.status), NEW price \in Nat, NEW time \in Nat
    PROVE  ExecutorStep(e, x, Execute(e, price, time))
<1>1. CASE e.kind = "single"
  <2>1. Execute(e, price, time) = ExecuteSingle(e, price, time)
    BY <1>1 DEF Execute
  <2>2. QED
    BY <2>1, <1>1, ExecuteSingleFacts
<1>2. CASE e.kind = "bracket"
  <2>1. Execute(e, price, time) = IF Closed(e.legs[1].status) THEN ExecuteExits(e, price, time)
                                                              ELSE ExecuteEntry(e, price, time)
    BY <1>2 DEF Execute, ExecuteBracket
  <2>2. QED
    BY <2>1, <1>2, ExecuteEntryFacts, ExecuteExitsFacts
<1>3. CASE e.kind = "oco"
  <2>1. Execute(e, price, time) = ExecuteOCO(e, price, time)
    BY <1>3 DEF Execute
  <2>2. QED
    BY <2>1, <1>3, ExecuteOCOFacts
<1>4. CASE e.kind = "oto"
  <2>1. Execute(e, price, time) = ExecuteOTO(e, price, time)
    BY <1>4 DEF Execute
  <2>2. QED
    BY <2>1, <1>4, ExecuteOTOFacts
<1>5. QED
  BY <1>1, <1>2, <1>3, <1>4 DEF WellFormed, Executors, Kinds

(* What cancelling or modifying an executor leaves as it was.              *)
ExecutorKept(e, x, n) ==
    /\ WellFormed(n) /\ n.kind = e.kind /\ n.asset = e.asset
    /\ ExecutorInv(n, x)
    /\ Closed(e.status) => n = e

LEMMA CancelFacts ==
    ASSUME NEW e, WellFormed(e), NEW x \in [1..3 -> Int], ExecutorInv(e, x),
           NEW time \in Nat
    PROVE  ExecutorKept(e, x, Cancel(e, time))
<1> DEFINE legs == [i \in 1..LegCount(e.kind) |-> CancelLeg(e.legs[i], time)]
           n == Cancel(e, time)
<1> SUFFICES ExecutorKept(e, x, n)
  OBVIOUS
<1>1. CASE Closed(e.status)
  BY <1>1 DEF Cancel, ExecutorKept
<1>2. CASE ~Closed(e.status)
  <2>1. /\ LegCount(e.kind) \in 1..3 /\ e.kind \in Kinds
        /\ \A i \in 1..LegCount(e.kind) :
              /\ e.legs[i] \in Legs /\ LegInv(e.legs[i]) /\ x[i] \in {0, e.legs[i].fill}
    BY LegTypes DEF ExecutorInv, LegsInv
  <2>2. \A i \in 1..LegCount(e.kind) :
          /\ legs[i] \in Legs /\ LegInv(legs[i]) /\ Closed(legs[i].status)
          /\ legs[i].fill = e.legs[i].fill
          /\ legs[i].status = "COMPLETED" <=> e.legs[i].status = "COMPLETED"
    BY <2>1, CancelLegFacts
  <2>3. legs \in Seq(Legs) /\ Len(legs) = LegCount(e.kind)
    BY <2>1, <2>2
  <2>4. legs[1] \in Legs
    BY <2>1, <2>2
  <2> HIDE DEF legs
  <2>5. n = [e EXCEPT !.legs = legs,
                      !.status = IF e.kind = "single" THEN legs[1].status ELSE "CANCELLED"]
    BY <1>2 DEF Cancel, legs
  <2>6. /\ WellFormed(n) /\ n.kind = e.kind /\ n.asset = e.asset /\ n.legs = legs
        /\ n.status = IF e.kind = "single" THEN legs[1].status ELSE "CANCELLED"
    <3>1. PICK s \in Statuses : s = IF e.kind = "single" THEN legs[1].status ELSE "CANCELLED"
      BY <2>4 DEF Legs, Statuses
    <3> DEFINE k == [e EXCEPT !.legs = legs, !.status = s]
    <3>2. n = k
      BY <2>5, <3>1
    <3>3. e \in Executors
      BY DEF WellFormed
    <3> HIDE DEF n
    <3>4. /\ k \in Executors /\ k.kind = e.kind /\ k.asset = e.asset /\ k.legs = legs
          /\ k.status = s
      BY <2>3, <3>3 DEF Executors
    <3> HIDE DEF k
    <3>5. QED
      BY <2>3, <3>1, <3>2, <3>4 DEF WellFormed
  <2> HIDE DEF n
  <2>7. LegsInv(n, x)
    BY <2>1, <2>2, <2>6 DEF LegsInv
  <2>8. ASSUME e.kind = "single" PROVE SingleInv(n, x)
    <3>1. LegCount(e.kind) = 1 /\ SingleInv(e, x)
      BY <2>8, LegTypes DEF ExecutorInv
    <3>2. QED
      BY <3>1, <2>2, <2>6, <2>8 DEF SingleInv
  <2>9. ASSUME e.kind = "bracket" PROVE BracketInv(n, x)
    <3>1. LegCount(e.kind) = 3 /\ BracketInv(e, x)
      BY <2>9, LegTypes DEF ExecutorInv
    <3>2. QED
      BY <3>1, <2>2, <2>6 DEF BracketInv
  <2>10. ASSUME e.kind = "oco" PROVE OCOInv(n, x)
    BY <2>6, <2>10, <1>2 DEF ExecutorInv, OCOInv, Closed
  <2>11. ASSUME e.kind = "oto" PROVE OTOInv(n, x)
    <3>1. LegCount(e.kind) = 2 /\ OTOInv(e, x)
      BY <2>11, LegTypes DEF ExecutorInv
    <3>2. n.status = "CANCELLED" /\ Closed(n.status)
      BY <2>6, <2>11 DEF Closed
    <3>3. x[2] = 0
      BY <3>1, <1>2 DEF OTOInv, Closed
    <3>4. QED
      BY <3>1, <3>2, <3>3, <2>2, <2>6 DEF OTOInv
  <2>12. QED
    BY <2>6, <2>7, <2>8, <2>9, <2>10, <2>11, <1>2 DEF ExecutorKept, ExecutorInv
<1>3. QED
  BY <1>1, <1>2

LEMMA ModifyFacts ==
    ASSUME NEW e, WellFormed(e), NEW x \in [1..3 -> Int], ExecutorInv(e, x),
           NEW o \in LegSpecs, NEW time \in Nat
    PROVE  ExecutorKept(e, x, Modify(e, o, time))
<1> DEFINE n == Modify(e, o, time)
           leg == ModifyLeg(e.legs[1], o)
<1> SUFFICES ExecutorKept(e, x, n)
  OBVIOUS
<1>1. CASE e.kind = "single" /\ CanModify(e.legs[1], o, time)
  <2>1. LegCount(e.kind) = 1 /\ e.legs[1] \in Legs
    BY <1>1, LegTypes
  <2>2. /\ LegInv(e.legs[1]) /\ x[1] \in {0, e.legs[1].fill}
        /\ e.status = e.legs[1].status /\ ~Closed(e.status)
    BY <1>1, <2>1 DEF ExecutorInv, LegsInv, SingleInv, CanModify
  <2>3. /\ leg \in Legs /\ leg.fill = e.legs[1].fill /\ leg.size = e.legs[1].size
        /\ leg.status = "CREATED"
    BY <2>1 DEF ModifyLeg, Legs, LegSpecs, Statuses
  <2> HIDE DEF leg
  <2>4. n = [e EXCEPT !.legs = <<leg>>, !.status = "CREATED",
                      !.frozen = IF e.frozen = {} THEN {e.status} ELSE e.frozen]
    BY <1>1 DEF Modify, leg
  <2>5. /\ WellFormed(n) /\ n.kind = e.kind /\ n.asset = e.asset
        /\ n.legs[1] = leg /\ n.status = "CREATED"
    <3>1. e \in Executors /\ Len(e.legs) = 1 /\ "CREATED" \in Statuses
      BY <2>1 DEF WellFormed, Statuses
    <3>2. <<leg>> \in Seq(Legs) /\ Len(<<leg>>) = 1 /\ <<leg>>[1] = leg
      BY <2>3
    <3>3. (IF e.frozen = {} THEN {e.status} ELSE e.frozen) \in SUBSET Statuses
      BY <3>1 DEF Executors
    <3>4. n \in Executors /\ n.kind = e.kind /\ n.asset = e.asset
          /\ n.legs = <<leg>> /\ n.status = "CREATED"
      BY <2>4, <3>1, <3>2, <3>3 DEF Executors
    <3>5. QED
      BY <3>2, <3>4, <2>1 DEF WellFormed
  <2> HIDE DEF n
  <2>6. x[1] = 0 /\ e.legs[1].fill = 0
    BY <2>2 DEF LegInv
  <2>7. LegsInv(n, x)
    BY <2>1, <2>2, <2>3, <2>5, <2>6 DEF LegsInv, LegInv
  <2>8. SingleInv(n, x)
    BY <2>3, <2>5, <2>6 DEF SingleInv
  <2>9. QED
    BY <1>1, <2>2, <2>5, <2>7, <2>8 DEF ExecutorKept, ExecutorInv
<1>2. CASE ~(e.kind = "single" /\ CanModify(e.legs[1], o, time))
  BY <1>2 DEF Modify, ExecutorKept
<1>3. QED
  BY <1>1, <1>2

-----------------------------------------------------------------------------
(* Trades in force. A leg that has its fill is never opened anew, and its  *)
(* time-in-force and opening time stay what they were when it traded.      *)
Filled(leg) == leg.status # "CREATED" /\ leg.fill = leg.size

Keeps(leg, n) ==
    Filled(leg) => Filled(n) /\ n.tif = leg.tif /\ n.openedAt = leg.openedAt

TradeStep(leg, n, size, time) ==
    /\ n \in Legs /\ Keeps(leg, n)
    /\ size # 0 => Filled(n) /\ ~Expired(n, time)

LEMMA ExecuteLegTrades ==
    ASSUME NEW leg \in Legs, LegInv(leg), NEW price \in Nat, NEW time \in Nat
    PROVE  LET r == ExecuteLeg(leg, price, time) IN TradeStep(leg, r.leg, r.size, time)
<1> DEFINE moved  == Ratchet(leg, price)
           opened == Accept(moved, time)
           ready  == Trigger(opened, price)
           fill   == NewFill(ready, price)
           filled == [ready EXCEPT !.fill = ready.fill + fill]
           r      == ExecuteLeg(leg, price, time)
<1>1. /\ moved \in Legs /\ moved.tif = leg.tif /\ moved.openedAt = leg.openedAt
      /\ moved.status = leg.status
  BY RatchetFacts
<1>2. r = Settle(ready, fill, time) /\ LegStep(leg, r)
  BY ExecuteLegFacts DEF ExecuteLeg
<1> HIDE DEF moved, fill, r
<1>3. /\ opened \in Legs /\ opened.tif = leg.tif /\ opened.status # "CREATED"
      /\ leg.status # "CREATED" => opened.openedAt = leg.openedAt
  BY <1>1, AcceptFacts DEF Accept, Legs
<1> HIDE DEF opened
<1>4. /\ ready \in Legs /\ ready.tif = leg.tif /\ ready.status # "CREATED"
      /\ leg.status # "CREATED" => ready.openedAt = leg.openedAt
  BY <1>3 DEF Trigger, Legs
<1> HIDE DEF ready
<1>5. /\ filled.tif = ready.tif /\ filled.openedAt = ready.openedAt
      /\ filled.status = ready.status /\ filled.size = ready.size
      /\ filled = [size |-> filled.size, tif |-> filled.tif, status |-> filled.status,
                   openedAt |-> filled.openedAt, fill |-> filled.fill,
                   trigger |-> filled.trigger, triggered |-> filled.triggered,
                   limit |-> filled.limit, trail |-> filled.trail,
                   offset |-> filled.offset]
  BY <1>4 DEF Legs
<1>6. \/ r = [leg |-> [filled EXCEPT !.status = "EXPIRED"], size |-> 0]
      \/ /\ ~Expired(filled, time)
         /\ r.leg \in {filled, [filled EXCEPT !.status = "COMPLETED"]}
  BY <1>2 DEF Settle
<1> HIDE DEF filled
<1>7. /\ r.leg.tif = filled.tif /\ r.leg.openedAt = filled.openedAt
      /\ r.leg.size = filled.size /\ r.leg.fill = filled.fill
      /\ r.leg.status # "CREATED"
  BY <1>4, <1>5, <1>6
<1>8. r.size # 0 => ~Expired(r.leg, time)
  <2>1. Expired(r.leg, time) <=> Expired(filled, time)
    BY <1>7 DEF Expired, Remaining
  <2>2. QED
    BY <1>6, <2>1
<1>9. r.size # 0 => r.leg.fill = r.leg.size
  BY <1>2 DEF LegStep
<1>10. Filled(leg) => r.leg.fill = r.leg.size
  BY <1>2 DEF LegStep, Filled, Legs
<1>11. Keeps(leg, r.leg)
  BY <1>4, <1>5, <1>7, <1>10 DEF Keeps, Filled
<1>12. r.leg \in Legs
  BY <1>2 DEF LegStep
<1>13. QED
  BY <1>7, <1>8, <1>9, <1>11, <1>12 DEF TradeStep, Filled, r

LEMMA CancelLegTrades ==
    ASSUME NEW leg \in Legs, LegInv(leg), NEW time \in Nat
    PROVE  TradeStep(leg, CancelLeg(leg, time), 0, time)
<1>1. CancelLeg(leg, time) \in Legs
  BY CancelLegFacts
<1>2. Keeps(leg, CancelLeg(leg, time))
  BY DEF CancelLeg, Keeps, Filled, Legs, Closed
<1>3. QED
  BY <1>1, <1>2 DEF TradeStep

(* A leg that is executed, did not trade, and is cancelled.                *)
LEMMA TradeStepTwice ==
    ASSUME NEW leg, NEW m, NEW n, NEW time,
           TradeStep(leg, m, 0, time), TradeStep(m, n, 0, time)
    PROVE  TradeStep(leg, n, 0, time)
BY DEF TradeStep, Keeps

(* A call of execute() on an executor of any kind, leg by leg.             *)
TradesOf(e, r, time) ==
    \A i \in 1..3 :
        /\ i > LegCount(e.kind) => r.sizes[i] = 0
        /\ i <= LegCount(e.kind) =>
                TradeStep(e.legs[i], r.executor.legs[i], r.sizes[i], time)

LEMMA ResultTrades ==
    ASSUME NEW e, WellFormed(e), NEW legs, NEW status, NEW active, NEW sizes, NEW time,
           \A i \in 1..3 :
                /\ i > LegCount(e.kind) => sizes[i] = 0
                /\ i <= LegCount(e.kind) => TradeStep(e.legs[i], legs[i], sizes[i], time)
    PROVE  TradesOf(e, Result(e, legs, status, active, sizes), time)
<1>1. PICK r : r = Result(e, legs, status, active, sizes)
  OBVIOUS
<1>2. r.executor.legs = legs /\ r.sizes = sizes
  BY <1>1 DEF Result, WellFormed, Executors
<1>3. QED
  BY <1>1, <1>2 DEF TradesOf

LEMMA ExecuteTrades ==
    ASSUME NEW e, WellFormed(e), NEW x, LegsInv(e, x), NEW price \in Nat, NEW time \in Nat
    PROVE  TradesOf(e, Execute(e, price, time), time)
<1> DEFINE Leg(i) == ExecuteLeg(e.legs[i], price, time)
           Maybe(i, c) == IF c THEN Leg(i) ELSE Untouched(e.legs[i])
           Goal == TradesOf(e, Execute(e, price, time), time)
<1>1. ASSUME NEW i \in 1..LegCount(e.kind)
      PROVE  /\ e.legs[i] \in Legs /\ LegInv(e.legs[i])
             /\ TradeStep(e.legs[i], Leg(i).leg, Leg(i).size, time)
             /\ TradeStep(e.legs[i], e.legs[i], 0, time)
             /\ TradeStep(e.legs[i], CancelLeg(e.legs[i], time), 0, time)
             /\ Leg(i).size = 0 =>
                    TradeStep(e.legs[i], CancelLeg(Leg(i).leg, time), 0, time)
  <2>1. e.legs[i] \in Legs /\ LegInv(e.legs[i])
    BY LegTypes DEF LegsInv
  <2>2. TradeStep(e.legs[i], Leg(i).leg, Leg(i).size, time) /\ LegStep(e.legs[i], Leg(i))
    BY <2>1, ExecuteLegTrades, ExecuteLegFacts
  <2>3. TradeStep(e.legs[i], e.legs[i], 0, time)
    BY <2>1 DEF TradeStep, Keeps
  <2>4. TradeStep(e.legs[i], CancelLeg(e.legs[i], time), 0, time)
    BY <2>1, CancelLegTrades
  <2>5. Leg(i).leg \in Legs /\ LegInv(Leg(i).leg)
    BY <2>2 DEF LegStep
  <2>6. TradeStep(Leg(i).leg, CancelLeg(Leg(i).leg, time), 0, time)
    BY <2>5, CancelLegTrades
  <2> HIDE DEF Leg
  <2>7. QED
    BY <2>1, <2>2, <2>3, <2>4, <2>6, TradeStepTwice
<1>2. ASSUME NEW i \in 1..LegCount(e.kind), NEW c
      PROVE  /\ TradeStep(e.legs[i], Maybe(i, c).leg, Maybe(i, c).size, time)
             /\ Maybe(i, c).size = 0 =>
                    TradeStep(e.legs[i], CancelLeg(Maybe(i, c).leg, time), 0, time)
  BY <1>1 DEF Untouched
<1>3. CASE e.kind = "single"
  <2> DEFINE r == Leg(1)
  <2>1. Execute(e, price, time) = Result(e, <<r.leg>>, r.leg.status, e.active, <<r.size, 0, 0>>)
    BY <1>3 DEF Execute, ExecuteSingle
  <2>2. LegCount(e.kind) = 1 /\ TradeStep(e.legs[1], r.leg, r.size, time)
    BY <1>1, <1>3, LegTypes
  <2> HIDE DEF r
  <2>3. QED
    BY <2>1, <2>2, ResultTrades
<1>4. CASE e.kind = "bracket" /\ ~Closed(e.legs[1].status)
  <2> DEFINE r == Leg(1)
  <2>1. Execute(e, price, time) = Result(e, <<r.leg, e.legs[2], e.legs[3]>>, "ACCEPTED",
                                         e.active, <<r.size, 0, 0>>)
    BY <1>4 DEF Execute, ExecuteBracket, ExecuteEntry
  <2>2. /\ LegCount(e.kind) = 3 /\ TradeStep(e.legs[1], r.leg, r.size, time)
        /\ TradeStep(e.legs[2], e.legs[2], 0, time) /\ TradeStep(e.legs[3], e.legs[3], 0, time)
    BY <1>1, <1>4, LegTypes
  <2> HIDE DEF r
  <2>3. QED
    BY <2>1, <2>2, ResultTrades
<1>5. CASE e.kind = "bracket" /\ Closed(e.legs[1].status)
  <2> DEFINE profit == Maybe(2, e.legs[3].fill = 0)
             loss   == Maybe(3, profit.leg.fill = 0)
  <2>1. PICK status :
          Execute(e, price, time) = Result(e, <<e.legs[1], profit.leg, loss.leg>>, status,
                                           e.active, <<0, profit.size, loss.size>>)
    BY <1>5 DEF Execute, ExecuteBracket, ExecuteExits
  <2>2. LegCount(e.kind) = 3
    BY <1>5, LegTypes
  <2>3. /\ TradeStep(e.legs[1], e.legs[1], 0, time)
        /\ TradeStep(e.legs[2], profit.leg, profit.size, time)
        /\ TradeStep(e.legs[3], loss.leg, loss.size, time)
    <3>1. TradeStep(e.legs[1], e.legs[1], 0, time)
      BY <1>1, <2>2
    <3>2. TradeStep(e.legs[2], profit.leg, profit.size, time)
      BY <1>2, <2>2
    <3>3. TradeStep(e.legs[3], loss.leg, loss.size, time)
      <4> HIDE DEF profit
      <4>1. QED
        BY <1>2, <2>2
    <3>4. QED
      BY <3>1, <3>2, <3>3
  <2> HIDE DEF profit, loss
  <2>4. QED
    BY <2>1, <2>2, <2>3, ResultTrades
<1>6. CASE e.kind = "oco"
  <2> DEFINE first  == Maybe(1, e.active \in {0, 1})
             second == Maybe(2, e.active \in {0, 2})
             other1 == CancelLeg(first.leg, time)
             other2 == CancelLeg(e.legs[2], time)
             r == Execute(e, price, time)
  <2>1. \/ \E status : r = Result(e, <<first.leg, other2>>, status, 1, <<first.size, 0, 0>>)
        \/ /\ first.size = 0
           /\ \E status : r = Result(e, <<other1, second.leg>>, status, 2, <<0, second.size, 0>>)
        \/ /\ first.size = 0 /\ second.size = 0
           /\ r = Result(e, <<first.leg, second.leg>>, "ACCEPTED", e.active, <<0, 0, 0>>)
    BY <1>6 DEF Execute, ExecuteOCO
  <2>2. LegCount(e.kind) = 2
    BY <1>6, LegTypes
  <2>3. /\ TradeStep(e.legs[1], first.leg, first.size, time)
        /\ TradeStep(e.legs[2], second.leg, second.size, time)
        /\ TradeStep(e.legs[2], other2, 0, time)
        /\ first.size = 0 => TradeStep(e.legs[1], other1, 0, time)
    BY <1>1, <1>2, <2>2
  <2>4. r = Execute(e, price, time)
    OBVIOUS
  <2> HIDE DEF first, second, other1, other2, r
  <2>5. CASE \E status : r = Result(e, <<first.leg, other2>>, status, 1, <<first.size, 0, 0>>)
    BY <2>2, <2>3, <2>4, <2>5, ResultTrades
  <2>6. CASE /\ first.size = 0
             /\ \E status : r = Result(e, <<other1, second.leg>>, status, 2,
                                       <<0, second.size, 0>>)
    BY <2>2, <2>3, <2>4, <2>6, ResultTrades
  <2>7. CASE /\ first.size = 0 /\ second.size = 0
             /\ r = Result(e, <<first.leg, second.leg>>, "ACCEPTED", e.active, <<0, 0, 0>>)
    BY <2>2, <2>3, <2>4, <2>7, ResultTrades
  <2>8. QED
    BY <2>1, <2>5, <2>6, <2>7
<1>7. CASE e.kind = "oto"
  <2> DEFINE first  == Maybe(1, ~Closed(e.legs[1].status))
             second == Maybe(2, first.leg.status = "COMPLETED")
  <2>1. PICK status :
          Execute(e, price, time) = Result(e, <<first.leg, second.leg>>, status, e.active,
                                           <<first.size, second.size, 0>>)
    BY <1>7 DEF Execute, ExecuteOTO
  <2>2. LegCount(e.kind) = 2
    BY <1>7, LegTypes
  <2>3. /\ TradeStep(e.legs[1], first.leg, first.size, time)
        /\ TradeStep(e.legs[2], second.leg, second.size, time)
    BY <1>2, <2>2
  <2> HIDE DEF first, second
  <2>4. QED
    BY <2>1, <2>2, <2>3, ResultTrades
<1>8. QED
  BY <1>3, <1>4, <1>5, <1>6, <1>7 DEF WellFormed, Executors, Kinds

(* A cancellation and a modification leave filled legs as they are.        *)
LegsKept(e, n) ==
    /\ n.kind = e.kind
    /\ \A i \in 1..LegCount(e.kind) : Keeps(e.legs[i], n.legs[i])

LEMMA CancelTrades ==
    ASSUME NEW e, WellFormed(e), NEW x, LegsInv(e, x), NEW time \in Nat
    PROVE  LegsKept(e, Cancel(e, time))
<1> DEFINE legs == [i \in 1..LegCount(e.kind) |-> CancelLeg(e.legs[i], time)]
<1>1. CASE Closed(e.status)
  BY <1>1 DEF Cancel, LegsKept, Keeps
<1>2. CASE ~Closed(e.status)
  <2>1. Cancel(e, time).legs = legs /\ Cancel(e, time).kind = e.kind
    BY <1>2 DEF Cancel, WellFormed, Executors
  <2>2. \A i \in 1..LegCount(e.kind) : TradeStep(e.legs[i], legs[i], 0, time)
    BY LegTypes, CancelLegTrades DEF LegsInv
  <2>3. QED
    BY <2>1, <2>2 DEF LegsKept, TradeStep
<1>3. QED
  BY <1>1, <1>2

(* The order of a modification is new, but only an open one is modified.   *)
LEMMA ModifyTrades ==
    ASSUME NEW e, WellFormed(e), NEW x, LegsInv(e, x), NEW o, NEW time \in Nat
    PROVE  LegsKept(e, Modify(e, o, time))
<1>1. CASE e.kind = "single" /\ CanModify(e.legs[1], o, time)
  <2>1. e.legs[1] \in Legs /\ LegInv(e.legs[1]) /\ LegCount(e.kind) = 1
    BY <1>1, LegTypes DEF LegsInv
  <2>2. ~Filled(e.legs[1])
    BY <1>1, <2>1 DEF CanModify, LegInv, Filled, Legs
  <2>3. Modify(e, o, time).kind = e.kind
    BY <1>1 DEF Modify, WellFormed, Executors
  <2>4. QED
    BY <2>1, <2>2, <2>3 DEF LegsKept, Keeps
<1>2. CASE ~(e.kind = "single" /\ CanModify(e.legs[1], o, time))
  BY <1>2 DEF Modify, LegsKept, Keeps
<1>3. QED
  BY <1>1, <1>2
=============================================================================
