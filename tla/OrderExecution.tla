--------------------------- MODULE OrderExecution ---------------------------
(***************************************************************************)
(* The order executors of the simulated broker                             *)
(* (brokers/sim/execution): SingleOrderExecutor and its six subclasses,    *)
(* and the bracket, OCO and OTO executors that combine single ones.        *)
(*                                                                         *)
(* An executor is a value. Every method of the code that changes one is an *)
(* operator here that returns the executor after the call, together with   *)
(* the sizes of the Execution objects the call returned.                   *)
(*                                                                         *)
(* A nullable field of the code (trigger, limit, trail percentage, limit   *)
(* offset) is a set with at most one member: {} is null. "null means no    *)
(* restriction" is then a universally quantified condition.                *)
(***************************************************************************)
EXTENDS Integers, Sequences

CONSTANTS
    Assets,        \* the assets orders are for
    DayLength      \* the 24 hours a DAY order lives, in units of event time

ASSUME DayLengthAssumption == DayLength \in Nat \ {0}

(* REJECTED is left out: the simulated broker never rejects an order.      *)
Statuses  == {"CREATED", "ACCEPTED", "COMPLETED", "CANCELLED", "EXPIRED"}
Closed(s) == s \in {"COMPLETED", "CANCELLED", "EXPIRED"}
Aborted(s) == s \in {"CANCELLED", "EXPIRED"}

Kinds == {"single", "bracket", "oco", "oto"}

(* Time-in-force policies; arg is the lifetime of GTC and the date of GTD. *)
Tifs == [policy : {"GTC", "DAY", "FOK", "GTD", "IOC"}, arg : Nat]

(* openedAt = 0 stands for Timeframe.MIN: the order was not opened yet.    *)
Legs == [size : Int \ {0}, tif : Tifs, status : Statuses, openedAt : Nat,
         fill : Int, trigger : SUBSET Int, triggered : BOOLEAN,
         limit : SUBSET Int, trail : SUBSET Int, offset : SUBSET Int]

LegCount(kind) == CASE kind = "single"  -> 1
                    [] kind = "bracket" -> 3
                    [] OTHER            -> 2

-----------------------------------------------------------------------------
(* Single orders                                                           *)

(* What a caller chooses when creating a single order.                     *)
LegSpecs == [size : Int \ {0}, tif : Tifs, trigger : SUBSET Int,
             limit : SUBSET Int, trail : SUBSET Int, offset : SUBSET Int]

NewLeg(o) ==
    [size |-> o.size, tif |-> o.tif, status |-> "CREATED", openedAt |-> 0,
     fill |-> 0, trigger |-> o.trigger, triggered |-> FALSE,
     limit |-> o.limit, trail |-> o.trail, offset |-> o.offset]

Buy(leg) == leg.size > 0

(* Mutant: what was filled is not subtracted.                              *)
RemainingIgnoresFill(leg) == leg.size

Remaining(leg) == leg.size - leg.fill

Expired(leg, time) ==
    \/ leg.tif.policy = "GTC" /\ time > leg.openedAt + leg.tif.arg
    \/ leg.tif.policy = "DAY" /\ time - leg.openedAt >= DayLength
    \/ leg.tif.policy = "FOK" /\ Remaining(leg) # 0
    \/ leg.tif.policy = "GTD" /\ time > leg.tif.arg
    \/ leg.tif.policy = "IOC" /\ time > leg.openedAt

IsTriggered(leg, price) ==
    \A t \in leg.trigger : IF Buy(leg) THEN price >= t ELSE price <= t

ReachedLimit(leg, price) ==
    \A l \in leg.limit : IF Buy(leg) THEN price <= l ELSE price >= l

(* determineTrail and its two callers: as long as a trail order has not    *)
(* triggered, its trigger follows the best price, and a limit offset, if   *)
(* there is one, follows the trigger.                                      *)
TrailCandidates(leg, price) ==
    {(price * (IF Buy(leg) THEN 100 + p ELSE 100 - p)) \div 100 : p \in leg.trail}

Ratchet(leg, price) ==
    LET candidates == leg.trigger \cup TrailCandidates(leg, price)
        best == {t \in candidates :
                    \A c \in candidates : IF Buy(leg) THEN t <= c ELSE t >= c}
    IN  IF leg.trail = {} \/ leg.triggered
        THEN leg
        ELSE [leg EXCEPT !.trigger = best,
                         !.limit = {t + o : t \in best, o \in leg.offset}]

(* A leg after a call, and the size of the execution the call returned; 0  *)
(* stands for an empty list (an Execution cannot have size 0).             *)
Untouched(leg) == [leg |-> leg, size |-> 0]

Accept(leg, time) ==
    IF leg.status = "CREATED"
    THEN [leg EXCEPT !.status = "ACCEPTED", !.openedAt = time]
    ELSE leg

Trigger(leg, price) ==
    [leg EXCEPT !.triggered = leg.triggered \/ IsTriggered(leg, price)]

NewFill(leg, price) ==
    IF leg.triggered /\ ReachedLimit(leg, price) THEN Remaining(leg) ELSE 0

(* Mutants: an order that expires on the event that fills it is COMPLETED  *)
(* without an execution; an order that is filled does not expire.          *)
SettleCompletesFirst(leg, newFill, time) ==
    LET filled == [leg EXCEPT !.fill = leg.fill + newFill]
        done   == Remaining(filled) = 0
        late   == Expired(filled, time)
    IN  [leg |-> [filled EXCEPT !.status = IF done THEN "COMPLETED"
                                           ELSE IF late THEN "EXPIRED" ELSE @],
         size |-> IF late THEN 0 ELSE newFill]

SettleIgnoresTime(leg, newFill, time) ==
    LET filled == [leg EXCEPT !.fill = leg.fill + newFill]
    IN  [leg |-> [filled EXCEPT !.status = IF Remaining(filled) = 0 THEN "COMPLETED"
                                           ELSE IF Expired(filled, time) THEN "EXPIRED"
                                           ELSE @],
         size |-> newFill]

(* The fill is counted before the time-in-force is tested, so an order     *)
(* that expires on this very event has a fill and no execution.            *)
Settle(leg, newFill, time) ==
    LET filled == [leg EXCEPT !.fill = leg.fill + newFill]
    IN  IF Expired(filled, time)
        THEN [leg |-> [filled EXCEPT !.status = "EXPIRED"], size |-> 0]
        ELSE [leg |-> IF Remaining(filled) = 0
                      THEN [filled EXCEPT !.status = "COMPLETED"]
                      ELSE filled,
              size |-> newFill]

ExecuteLeg(leg, price, time) ==
    LET ready == Trigger(Accept(Ratchet(leg, price), time), price)
    IN  Settle(ready, NewFill(ready, price), time)

CancelLeg(leg, time) ==
    IF leg.status = "ACCEPTED" /\ Expired(leg, time)
    THEN [leg EXCEPT !.status = "EXPIRED"]
    ELSE IF Closed(leg.status) THEN leg
    ELSE [leg EXCEPT !.status = "CANCELLED"]

CanModify(leg, o, time) ==
    /\ ~(leg.status = "ACCEPTED" /\ Expired(leg, time))
    /\ ~Closed(leg.status)
    /\ o.size = leg.size

(* update() makes the new order the executor's order. What the executor    *)
(* took from the first order when it was created (trigger and limit) is    *)
(* not taken from the new one; what it reads from its order at every call  *)
(* (time-in-force, trail) is.                                              *)
ModifyLeg(leg, o) ==
    [leg EXCEPT !.tif = o.tif, !.status = "CREATED", !.openedAt = 0,
                !.trail = o.trail, !.offset = o.offset]

-----------------------------------------------------------------------------
(* Executors. status is the status of the order the executor holds, active *)
(* the leg an OCO executor has chosen. frozen is {} while the account      *)
(* lists the same order object the executor holds; after a modification    *)
(* the account keeps the replaced object, and frozen holds its status.     *)

Executors == [kind : Kinds, asset : Assets, legs : Seq(Legs),
              status : Statuses, active : 0..2, frozen : SUBSET Statuses]

NewExecutor(o) ==
    [kind |-> o.kind, asset |-> o.asset,
     legs |-> [i \in 1..LegCount(o.kind) |-> NewLeg(o.legs[i])],
     status |-> "CREATED", active |-> 0, frozen |-> {}]

(* A call's result: the executor, and the execution size of each leg.      *)
Result(e, legs, status, active, sizes) ==
    [executor |-> [e EXCEPT !.legs = legs, !.status = status, !.active = active],
     sizes |-> sizes]

ExecuteSingle(e, price, time) ==
    LET r == ExecuteLeg(e.legs[1], price, time)
    IN  Result(e, <<r.leg>>, r.leg.status, e.active, <<r.size, 0, 0>>)

(* Leg 1 is the entry, leg 2 the take-profit, leg 3 the stop-loss order.   *)
ExecuteEntry(e, price, time) ==
    LET r == ExecuteLeg(e.legs[1], price, time)
    IN  Result(e, <<r.leg, e.legs[2], e.legs[3]>>, "ACCEPTED", e.active,
               <<r.size, 0, 0>>)

(* Mutant: both exits are tried on every event.                            *)
ExecuteBothExits(e, price, time) ==
    LET profit == ExecuteLeg(e.legs[2], price, time)
        loss   == ExecuteLeg(e.legs[3], price, time)
        remaining == e.legs[1].size + loss.leg.fill + profit.leg.fill
    IN  Result(e, <<e.legs[1], profit.leg, loss.leg>>,
               IF remaining = 0 THEN "COMPLETED" ELSE "ACCEPTED", e.active,
               <<0, profit.size, loss.size>>)

ExecuteExits(e, price, time) ==
    LET profit == IF e.legs[3].fill = 0 THEN ExecuteLeg(e.legs[2], price, time)
                                        ELSE Untouched(e.legs[2])
        loss   == IF profit.leg.fill = 0 THEN ExecuteLeg(e.legs[3], price, time)
                                         ELSE Untouched(e.legs[3])
        remaining == e.legs[1].size + loss.leg.fill + profit.leg.fill
    IN  Result(e, <<e.legs[1], profit.leg, loss.leg>>,
               IF remaining = 0 THEN "COMPLETED" ELSE "ACCEPTED", e.active,
               <<0, profit.size, loss.size>>)

ExecuteBracket(e, price, time) ==
    IF Closed(e.legs[1].status) THEN ExecuteExits(e, price, time)
                                ELSE ExecuteEntry(e, price, time)

(* Mutant: the first order's execution does not keep the second one from   *)
(* being tried on the same event.                                          *)
ExecuteOCOBoth(e, price, time) ==
    LET first  == ExecuteLeg(e.legs[1], price, time)
        second == ExecuteLeg(e.legs[2], price, time)
    IN  Result(e, <<first.leg, second.leg>>,
               IF first.size # 0 THEN first.leg.status
               ELSE IF second.size # 0 THEN second.leg.status ELSE "ACCEPTED",
               e.active, <<first.size, second.size, 0>>)

ExecuteOCO(e, price, time) ==
    LET first  == IF e.active \in {0, 1} THEN ExecuteLeg(e.legs[1], price, time)
                                         ELSE Untouched(e.legs[1])
        second == IF e.active \in {0, 2} THEN ExecuteLeg(e.legs[2], price, time)
                                         ELSE Untouched(e.legs[2])
    IN  IF first.size # 0
        THEN Result(e, <<first.leg, CancelLeg(e.legs[2], time)>>,
                    first.leg.status, 1, <<first.size, 0, 0>>)
        ELSE IF second.size # 0
        THEN Result(e, <<CancelLeg(first.leg, time), second.leg>>,
                    second.leg.status, 2, <<0, second.size, 0>>)
        ELSE Result(e, <<first.leg, second.leg>>, "ACCEPTED", e.active,
                    <<0, 0, 0>>)

(* Mutant: the secondary order follows a primary order that is closed for  *)
(* whatever reason.                                                        *)
ExecuteOTOAfterClosed(e, price, time) ==
    LET first  == IF Closed(e.legs[1].status) THEN Untouched(e.legs[1])
                                              ELSE ExecuteLeg(e.legs[1], price, time)
        second == IF Closed(first.leg.status) THEN ExecuteLeg(e.legs[2], price, time)
                                              ELSE Untouched(e.legs[2])
    IN  Result(e, <<first.leg, second.leg>>,
               IF Closed(first.leg.status) THEN second.leg.status ELSE "ACCEPTED",
               e.active, <<first.size, second.size, 0>>)

ExecuteOTO(e, price, time) ==
    LET first  == IF Closed(e.legs[1].status) THEN Untouched(e.legs[1])
                                              ELSE ExecuteLeg(e.legs[1], price, time)
        second == IF first.leg.status = "COMPLETED"
                  THEN ExecuteLeg(e.legs[2], price, time)
                  ELSE Untouched(e.legs[2])
        status == IF first.leg.status = "COMPLETED" THEN second.leg.status
                  ELSE IF ~Closed(e.legs[1].status) /\ Aborted(first.leg.status)
                  THEN first.leg.status
                  ELSE "ACCEPTED"
    IN  Result(e, <<first.leg, second.leg>>, status, e.active,
               <<first.size, second.size, 0>>)

Execute(e, price, time) ==
    CASE e.kind = "single"  -> ExecuteSingle(e, price, time)
      [] e.kind = "bracket" -> ExecuteBracket(e, price, time)
      [] e.kind = "oco"     -> ExecuteOCO(e, price, time)
      [] e.kind = "oto"     -> ExecuteOTO(e, price, time)

(* A single order that turns out to have expired is closed as EXPIRED; a   *)
(* combined order is CANCELLED whatever its legs answer.                   *)
Cancel(e, time) ==
    LET legs == [i \in 1..LegCount(e.kind) |-> CancelLeg(e.legs[i], time)]
    IN  IF Closed(e.status) THEN e
        ELSE [e EXCEPT !.legs = legs,
                       !.status = IF e.kind = "single" THEN legs[1].status
                                                       ELSE "CANCELLED"]

(* Combined orders inherit OrderExecutor.modify, which refuses.            *)
Modify(e, o, time) ==
    IF e.kind = "single" /\ CanModify(e.legs[1], o, time)
    THEN [e EXCEPT !.legs = <<ModifyLeg(e.legs[1], o)>>,
                   !.status = "CREATED",
                   !.frozen = IF e.frozen = {} THEN {e.status} ELSE e.frozen]
    ELSE e
=============================================================================
