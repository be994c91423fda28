------------------------------ MODULE Positions ------------------------------
(***************************************************************************)
(* A position in an asset (brokers/Position.kt): its size and the average  *)
(* price paid for it, what it becomes with an execution, and the profit or *)
(* loss that execution realizes.                                           *)
(*                                                                         *)
(* An average of prices is a fraction, of any form: a numerator and a      *)
(* denominator. The code computes it in double precision.                  *)
(***************************************************************************)
EXTENDS Integers

Fractions == [num : Int, den : Nat \ {0}]

Whole(n)         == [num |-> n, den |-> 1]
PlusFraction(x, y) == [num |-> x.num * y.den + y.num * x.den, den |-> x.den * y.den]
Times(n, x)      == [num |-> n * x.num, den |-> x.den]
Minus(x, y)      == PlusFraction(x, Times(-1, y))
Equal(x, y)      == x.num * y.den = y.num * x.den

Size(n)      == IF n < 0 THEN -n ELSE n
Direction(n) == IF n < 0 THEN -1 ELSE IF n = 0 THEN 0 ELSE 1

PositionSpecs == [size : Int, avgPrice : Fractions]

(* Position.empty, and what a position is that is not in the account.      *)
Empty == [size |-> 0, avgPrice |-> Whole(0)]

(* The average price of two positions in the same direction.               *)
AvgPrice(p, size, price) ==
    LET total == PlusFraction(Times(p.size, p.avgPrice), Whole(size * price))
        newSize == p.size + size
    IN  [num |-> Direction(newSize) * total.num, den |-> Size(newSize) * total.den]

(* Mutant: a position that changes sign keeps its average price.           *)
PlusKeepsPrice(p, size, price) ==
    LET newSize == p.size + size
    IN  CASE newSize = 0 -> Empty
          [] newSize # 0 /\ Size(newSize) > Size(p.size) ->
                [size |-> newSize, avgPrice |-> AvgPrice(p, size, price)]
          [] OTHER -> [p EXCEPT !.size = newSize]

(* plus; an account does not keep a position that is closed.               *)
Plus(p, size, price) ==
    LET newSize == p.size + size
    IN  CASE newSize = 0 -> Empty
          [] newSize # 0 /\ Direction(p.size) # Direction(newSize) ->
                [size |-> newSize, avgPrice |-> Whole(price)]
          [] newSize # 0 /\ Direction(p.size) = Direction(newSize)
                         /\ Size(newSize) > Size(p.size) ->
                [size |-> newSize, avgPrice |-> AvgPrice(p, size, price)]
          [] OTHER -> [p EXCEPT !.size = newSize]

(* realizedPNL                                                             *)
RealizedPNL(p, size, price) ==
    LET newSize == p.size + size
        gain    == Minus(Whole(price), p.avgPrice)
    IN  CASE Direction(p.size) # Direction(newSize) -> Times(p.size, gain)
          [] Direction(p.size) = Direction(newSize) /\ Size(newSize) > Size(p.size) -> Whole(0)
          [] OTHER -> Times(-size, gain)
=============================================================================
