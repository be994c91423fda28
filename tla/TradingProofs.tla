---------------------------- MODULE TradingProofs ----------------------------
(***************************************************************************)
(* What a run does with its events: the account is not overdrawn, a trader *)
(* with oneOrderOnly opens and closes positions in turn, and the batches   *)
(* of a CircuitBreaker stay within its limit.                              *)
(*                                                                         *)
(* What the orders add up to, which of them wait, and the orders created   *)
(* for a list of signals are recursive functions. Recursion says that such *)
(* a function exists, Along what holds along it.                           *)
(***************************************************************************)
EXTENDS Trading, FiniteSetTheorems, WellFoundedInduction, TLAPS

-----------------------------------------------------------------------------
(* Induction on the natural numbers, for a set instead of a predicate.     *)
LEMMA LeastElement ==
    ASSUME NEW T, T \subseteq Nat, T # {}
    PROVE  \E x \in T : \A y \in T : x <= y
<1> DEFINE R == OpToRel(<, Nat)
<1>1. IsWellFoundedOn(R, Nat)
  BY NatLessThanWellFounded
<1>2. \A x, y \in Nat : x < y => <<x, y>> \in R
  BY DEF OpToRel
<1> HIDE DEF R
<1>3. PICK x \in T : \A y \in T : ~(<<y, x>> \in R)
  BY <1>1, WFMin
<1>4. ASSUME NEW y \in T PROVE x <= y
  <2>1. x \in Nat /\ y \in Nat
    OBVIOUS
  <2>2. ~(y < x)
    BY <1>2, <1>3, <2>1
  <2>3. QED
    BY <2>1, <2>2
<1>5. QED
  BY <1>4

LEMMA Induct ==
    ASSUME NEW S, 0 \in S, \A n \in Nat : n \in S => n + 1 \in S
    PROVE  Nat \subseteq S
<1> DEFINE T == {n \in Nat : n \notin S}
<1> SUFFICES ASSUME T # {} PROVE FALSE
  OBVIOUS
<1>1. PICK x \in T : \A y \in T : x <= y
  BY LeastElement
<1>2. x # 0 /\ x - 1 \in Nat
  OBVIOUS
<1>3. x - 1 \in S
  BY <1>1, <1>2
<1>4. QED
  BY <1>2, <1>3

(* The same up to m.                                                       *)
LEMMA Along ==
    ASSUME NEW S, NEW m \in Nat, 0 \in S, \A n \in 1..m : n - 1 \in S => n \in S
    PROVE  0..m \subseteq S
<1> DEFINE T == {n \in Nat : n <= m => n \in S}
<1>1. 0 \in T
  OBVIOUS
<1>2. ASSUME NEW n \in Nat, n \in T PROVE n + 1 \in T
  <2> SUFFICES ASSUME n + 1 <= m PROVE n + 1 \in S
    OBVIOUS
  <2>1. n \in S /\ n + 1 \in 1..m /\ (n + 1) - 1 = n
    BY <1>2
  <2>2. QED
    BY <2>1
<1> HIDE DEF T
<1>3. Nat \subseteq T
  BY <1>1, <1>2, Induct
<1>4. QED
  BY <1>3 DEF T

(* A function on 0..m that is defined by recursion, with the steps given   *)
(* by a function.                                                          *)
LEMMA Recursion ==
    ASSUME NEW S, NEW b \in S, NEW m \in Nat, NEW step \in [1..m -> [S -> S]]
    PROVE  \E g \in [0..m -> S] : g[0] = b /\ \A i \in 1..m : g[i] = step[i][g[i - 1]]
<1> DEFINE N == {n \in Nat : \E g \in [0..m -> S] :
                    g[0] = b /\ \A i \in 1..m : i <= n => g[i] = step[i][g[i - 1]]}
<1>1. 0 \in N
  <2> DEFINE g == [i \in 0..m |-> b]
  <2>1. g \in [0..m -> S] /\ g[0] = b /\ \A i \in 1..m : ~(i <= 0)
    OBVIOUS
  <2> HIDE DEF g
  <2>2. QED
    BY <2>1
<1>2. ASSUME NEW n \in 1..m, n - 1 \in N PROVE n \in N
  <2>1. PICK g \in [0..m -> S] :
            g[0] = b /\ \A i \in 1..m : i <= n - 1 => g[i] = step[i][g[i - 1]]
    BY <1>2
  <2> DEFINE h == [g EXCEPT ![n] = step[n][g[n - 1]]]
  <2>2. g[n - 1] \in S /\ n \in 0..m /\ n # 0
    OBVIOUS
  <2>3. h \in [0..m -> S] /\ h[0] = b
    BY <2>1, <2>2
  <2>4. ASSUME NEW i \in 1..m, i <= n PROVE h[i] = step[i][h[i - 1]]
    <3>1. i \in 0..m /\ i - 1 \in 0..m /\ i - 1 # n
      BY <2>4
    <3>2. h[i - 1] = g[i - 1] /\ h[i] = IF i = n THEN step[n][g[n - 1]] ELSE g[i]
      BY <3>1
    <3>3. CASE i = n
      BY <3>2, <3>3
    <3>4. CASE i # n
      <4>1. i <= n - 1
        BY <2>4, <3>4
      <4>2. QED
        BY <2>1, <3>2, <3>4, <4>1
    <3>5. QED
      BY <3>3, <3>4
  <2> HIDE DEF h
  <2>5. QED
    BY <2>3, <2>4
<1> HIDE DEF N
<1>3. 0..m \subseteq N
  BY <1>1, <1>2, Along
<1>4. m \in N
  BY <1>3
<1>5. QED
  BY <1>4 DEF N

-----------------------------------------------------------------------------
(* Total adds up the numbers of a sequence.                                *)
Sums(f, m, s) == f = [n \in 0..m |-> IF n = 0 THEN 0 ELSE f[n - 1] + s[n]]

LEMMA SumsStep ==
    ASSUME NEW s, NEW m \in Nat, NEW f, Sums(f, m, s)
    PROVE  f[0] = 0 /\ \A n \in 1..m : f[n] = f[n - 1] + s[n]
<1>1. 0 \in 0..m /\ \A n \in 1..m : n \in 0..m /\ n # 0
  OBVIOUS
<1>2. QED
  BY <1>1 DEF Sums

LEMMA TotalIsSum ==
    ASSUME NEW s, NEW m \in Nat, s \in Seq(Int), Len(s) = m
    PROVE  \E f \in [0..m -> Int] : Sums(f, m, s) /\ Total(s) = f[m]
<1>1. \A i \in 1..m : s[i] \in Int
  OBVIOUS
<1> DEFINE step == [i \in 1..m |-> [x \in Int |-> x + s[i]]]
<1>2. step \in [1..m -> [Int -> Int]]
  BY <1>1
<1>3. \A i \in 1..m : \A x \in Int : step[i][x] = x + s[i]
  OBVIOUS
<1> HIDE DEF step
<1>4. PICK g \in [0..m -> Int] : g[0] = 0 /\ \A i \in 1..m : g[i] = step[i][g[i - 1]]
  <2> DEFINE Z == Int
  <2>1. step \in [1..m -> [Z -> Z]] /\ 0 \in Z
    BY <1>2
  <2> HIDE DEF Z
  <2>2. \E g \in [0..m -> Z] : g[0] = 0 /\ \A i \in 1..m : g[i] = step[i][g[i - 1]]
    BY <2>1, Recursion, SMTT(20)
  <2>3. QED
    BY <2>2 DEF Z
<1>5. \A n \in 0..m : g[n] = IF n = 0 THEN 0 ELSE g[n - 1] + s[n]
  <2> SUFFICES ASSUME NEW n \in 1..m PROVE g[n] = g[n - 1] + s[n]
    BY <1>4
  <2>1. g[n - 1] \in Int
    OBVIOUS
  <2>2. QED
    BY <1>3, <1>4, <2>1
<1>6. g = [n \in 0..m |-> g[n]]
  OBVIOUS
<1>7. Sums(g, m, s)
  BY <1>5, <1>6 DEF Sums
<1> DEFINE f == CHOOSE h : Sums(h, m, s)
<1>8. Sums(f, m, s)
  BY <1>7
<1>9. Total(s) = f[m]
  BY DEF Total, Sums
<1> HIDE DEF f
<1>10. f \in [0..m -> Int]
  <2> DEFINE S == {n \in 0..m : f[n] \in Int}
  <2>1. 0 \in S
    BY <1>8, SumsStep
  <2>2. ASSUME NEW n \in 1..m, n - 1 \in S PROVE n \in S
    <3>1. f[n] = f[n - 1] + s[n]
      BY <1>8, SumsStep
    <3>2. QED
      BY <1>1, <2>2, <3>1
  <2> HIDE DEF S
  <2>3. 0..m \subseteq S
    BY <2>1, <2>2, Along
  <2>4. \A n \in 0..m : f[n] \in Int
    BY <2>3 DEF S
  <2>5. f = [n \in 0..m |-> f[n]]
    BY <1>8 DEF Sums
  <2>6. QED
    BY <2>4, <2>5
<1>11. QED
  BY <1>8, <1>9, <1>10

LEMMA TotalType ==
    ASSUME NEW s \in Seq(Int)
    PROVE  Total(s) \in Int
<1>1. PICK m \in Nat : Len(s) = m
  OBVIOUS
<1>2. PICK f \in [0..m -> Int] : Total(s) = f[m]
  BY <1>1, TotalIsSum
<1>3. QED
  BY <1>2

(* A sum is at most the sum of what its parts are at most.                 *)
LEMMA TotalAtMost ==
    ASSUME NEW a \in Seq(Int), NEW b \in Seq(Int), NEW c \in Seq(Int),
           Len(b) = Len(a), Len(c) = Len(a),
           \A i \in DOMAIN a : a[i] <= b[i] + c[i]
    PROVE  Total(a) <= Total(b) + Total(c)
<1>1. PICK m \in Nat : m = Len(a)
  OBVIOUS
<1>2. \A i \in 1..m : /\ a[i] \in Int /\ b[i] \in Int /\ c[i] \in Int
                      /\ a[i] <= b[i] + c[i]
  BY <1>1
<1>3. PICK f \in [0..m -> Int] : Sums(f, m, a) /\ Total(a) = f[m]
  BY <1>1, TotalIsSum
<1>4. PICK g \in [0..m -> Int] : Sums(g, m, b) /\ Total(b) = g[m]
  BY <1>1, TotalIsSum
<1>5. PICK h \in [0..m -> Int] : Sums(h, m, c) /\ Total(c) = h[m]
  BY <1>1, TotalIsSum
<1> DEFINE S == {n \in 0..m : f[n] <= g[n] + h[n]}
<1>6. 0 \in S
  BY <1>3, <1>4, <1>5, SumsStep
<1>7. ASSUME NEW n \in 1..m, n - 1 \in S PROVE n \in S
  <2>1. f[n] = f[n - 1] + a[n] /\ g[n] = g[n - 1] + b[n] /\ h[n] = h[n - 1] + c[n]
    BY <1>3, <1>4, <1>5, SumsStep
  <2>2. n - 1 \in 0..m /\ n \in 0..m
    OBVIOUS
  <2>3. f[n - 1] \in Int /\ g[n - 1] \in Int /\ h[n - 1] \in Int
    BY <2>2
  <2>4. f[n - 1] <= g[n - 1] + h[n - 1]
    BY <1>7
  <2>5. a[n] \in Int /\ b[n] \in Int /\ c[n] \in Int /\ a[n] <= b[n] + c[n]
    BY <1>2
  <2>6. f[n] <= g[n] + h[n]
    <3>1. \A x, y, z, u, v, w \in Int : x <= y + z /\ u <= v + w => x + u <= (y + v) + (z + w)
      OBVIOUS
    <3>2. f[n - 1] + a[n] <= (g[n - 1] + b[n]) + (h[n - 1] + c[n])
      BY <2>3, <2>4, <2>5, <3>1
    <3>3. QED
      BY <2>1, <3>2
  <2>7. QED
    BY <2>2, <2>6
<1> HIDE DEF S
<1>8. 0..m \subseteq S
  BY <1>6, <1>7, Along
<1>9. m \in S
  BY <1>8
<1>10. QED
  BY <1>3, <1>4, <1>5, <1>9 DEF S

(* Only one of the numbers is not 0.                                       *)
LEMMA TotalOfOne ==
    ASSUME NEW s \in Seq(Int), NEW k \in Nat,
           \A i \in DOMAIN s : i = k \/ s[i] = 0
    PROVE  Total(s) = IF k \in DOMAIN s THEN s[k] ELSE 0
<1>1. PICK m \in Nat : Len(s) = m
  OBVIOUS
<1>2. PICK f \in [0..m -> Int] : Sums(f, m, s) /\ Total(s) = f[m]
  BY <1>1, TotalIsSum
<1>3. DOMAIN s = 1..m /\ \A i \in 1..m : s[i] \in Int
  BY <1>1
<1> DEFINE S == {n \in 0..m : f[n] = IF k \in 1..n THEN s[k] ELSE 0}
<1>4. 0 \in S
  <2>1. k \notin 1..0
    OBVIOUS
  <2>2. QED
    BY <1>2, <2>1, SumsStep
<1>5. ASSUME NEW n \in 1..m, n - 1 \in S PROVE n \in S
  <2>1. f[n] = f[n - 1] + s[n]
    BY <1>2, SumsStep
  <2>2. f[n - 1] = IF k \in 1..n - 1 THEN s[k] ELSE 0
    BY <1>5
  <2>3. n \in 0..m /\ s[n] \in Int
    BY <1>3
  <2>4. CASE n = k
    <3>1. k \notin 1..n - 1 /\ k \in 1..n
      BY <2>4
    <3>2. QED
      BY <2>1, <2>2, <2>3, <2>4, <3>1
  <2>5. CASE n # k
    <3>1. s[n] = 0
      BY <1>3, <2>5
    <3>2. k \in 1..n <=> k \in 1..n - 1
      BY <2>5
    <3>3. f[n - 1] \in Int
      OBVIOUS
    <3>4. QED
      BY <2>1, <2>2, <2>3, <3>1, <3>2, <3>3
  <2>6. QED
    BY <2>4, <2>5
<1> HIDE DEF S
<1>6. 0..m \subseteq S
  BY <1>4, <1>5, Along
<1>7. m \in S
  BY <1>6
<1>8. QED
  BY <1>2, <1>3, <1>7 DEF S

LEMMA TotalOfNone ==
    ASSUME NEW s \in Seq(Int), \A i \in DOMAIN s : s[i] = 0
    PROVE  Total(s) = 0
<1>1. 0 \notin DOMAIN s
  OBVIOUS
<1>2. QED
  BY <1>1, TotalOfOne

LEMMA TotalNotNegative ==
    ASSUME NEW s \in Seq(Int), \A i \in DOMAIN s : s[i] >= 0
    PROVE  Total(s) >= 0
<1>1. PICK z : z = [i \in 1..Len(s) |-> 0]
  OBVIOUS
<1>2. /\ z \in Seq(Int) /\ Len(z) = Len(s) /\ DOMAIN z = DOMAIN s
      /\ \A i \in DOMAIN z : z[i] = 0 /\ s[i] \in Int
  BY <1>1
<1>3. \A i \in DOMAIN z : z[i] <= s[i] + z[i]
  BY <1>2
<1>4. Total(z) = 0 /\ Total(s) \in Int
  BY <1>2, TotalOfNone, TotalType
<1>5. Total(z) <= Total(s) + Total(z)
  BY <1>2, <1>3, TotalAtMost
<1>6. QED
  BY <1>4, <1>5

(* One more number.                                                        *)
LEMMA TotalOfMore ==
    ASSUME NEW s \in Seq(Int), NEW t \in Seq(Int), Len(t) = Len(s) + 1,
           \A i \in DOMAIN s : t[i] = s[i]
    PROVE  Total(t) = Total(s) + t[Len(s) + 1]
<1>1. PICK m \in Nat : m = Len(s)
  OBVIOUS
<1>2. PICK k : k = m + 1
  OBVIOUS
<1>3. k \in Nat /\ Len(t) = k /\ \A i \in 1..m : t[i] = s[i]
  <2>1. DOMAIN s = 1..m /\ Len(t) = m + 1 /\ m + 1 \in Nat
    BY <1>1
  <2>2. QED
    BY <1>2, <2>1
<1>4. PICK f \in [0..m -> Int] : Sums(f, m, s) /\ Total(s) = f[m]
  BY <1>1, TotalIsSum
<1>5. PICK g \in [0..k -> Int] : Sums(g, k, t) /\ Total(t) = g[k]
  BY <1>3, TotalIsSum
<1> DEFINE S == {n \in 0..m : f[n] = g[n]}
<1>6. 0 \in S
  <2>1. f[0] = 0 /\ g[0] = 0
    <3>1. f[0] = 0
      BY <1>4, SumsStep
    <3>2. g[0] = 0
      BY <1>3, <1>5, SumsStep
    <3>3. QED
      BY <3>1, <3>2
  <2>2. QED
    BY <2>1
<1>7. ASSUME NEW n \in 1..m, n - 1 \in S PROVE n \in S
  <2>1. n \in 1..k
    BY <1>2
  <2>2. f[n] = f[n - 1] + s[n] /\ g[n] = g[n - 1] + t[n]
    <3>1. \A i \in 1..m : f[i] = f[i - 1] + s[i]
      BY <1>4, SumsStep
    <3>2. \A i \in 1..k : g[i] = g[i - 1] + t[i]
      <4>1. Sums(g, k, t) /\ k \in Nat
        BY <1>3, <1>5
      <4>2. QED
        BY <4>1, SumsStep, ZenonT(20)
    <3>3. QED
      BY <2>1, <3>1, <3>2
  <2>3. f[n - 1] = g[n - 1] /\ s[n] = t[n]
    BY <1>3, <1>7
  <2>4. QED
    BY <2>2, <2>3
<1> HIDE DEF S
<1>8. 0..m \subseteq S
  BY <1>6, <1>7, Along
<1>9. f[m] = g[m]
  BY <1>8 DEF S
<1>10. k \in 1..k /\ k - 1 = m
  BY <1>2
<1>11. g[k] = g[k - 1] + t[k]
  <2>1. \A n \in 1..k : g[n] = g[n - 1] + t[n]
    <3>1. Sums(g, k, t) /\ k \in Nat
      BY <1>3, <1>5
    <3>2. QED
      BY <3>1, SumsStep
  <2>2. QED
    BY <1>10, <2>1
<1>12. QED
  BY <1>1, <1>2, <1>4, <1>5, <1>9, <1>10, <1>11

-----------------------------------------------------------------------------
(* SumFunction adds up the values of a function, in the order in which its *)
(* arguments are chosen.                                                   *)
Chosen(s) == CHOOSE x \in s : TRUE

FoldSums(g, f, S) ==
    g = [s \in SUBSET S |-> IF s = {} THEN 0 ELSE f[Chosen(s)] + g[s \ {Chosen(s)}]]

LEMMA ChosenFacts ==
    ASSUME NEW S, IsFiniteSet(S), NEW s \in SUBSET S
    PROVE  /\ Cardinality(s) \in Nat /\ (Cardinality(s) = 0 <=> s = {})
           /\ Cardinality(s) <= Cardinality(S)
           /\ s # {} => /\ Chosen(s) \in S /\ s \ {Chosen(s)} \in SUBSET S
                        /\ Cardinality(s \ {Chosen(s)}) = Cardinality(s) - 1
<1>1. IsFiniteSet(s) /\ Cardinality(s) <= Cardinality(S)
  BY FS_Subset
<1>2. Cardinality(s) \in Nat /\ (Cardinality(s) = 0 <=> s = {})
  BY <1>1, FS_CardinalityType, FS_EmptySet
<1>3. s # {} => Chosen(s) \in s
  BY DEF Chosen
<1>4. s # {} => Cardinality(s \ {Chosen(s)}) = Cardinality(s) - 1
  BY <1>1, <1>3, FS_RemoveElement
<1>5. QED
  BY <1>1, <1>2, <1>3, <1>4

LEMMA FoldSumsExist ==
    ASSUME NEW S, IsFiniteSet(S), NEW f \in [S -> Int]
    PROVE  \E g : FoldSums(g, f, S)
<1>1. PICK c \in Nat : c = Cardinality(S)
  BY FS_CardinalityType
<1> DEFINE Right(g, s) == g[s] = IF s = {} THEN 0 ELSE f[Chosen(s)] + g[s \ {Chosen(s)}]
           N == {n \in Nat : \E g \in [SUBSET S -> Int] :
                    \A s \in SUBSET S : Cardinality(s) <= n => Right(g, s)}
<1>2. 0 \in N
  <2> DEFINE g == [s \in SUBSET S |-> 0]
  <2>1. g \in [SUBSET S -> Int]
    OBVIOUS
  <2>2. ASSUME NEW s \in SUBSET S, Cardinality(s) <= 0 PROVE Right(g, s)
    <3>1. Cardinality(s) \in Nat /\ (Cardinality(s) = 0 <=> s = {})
      BY ChosenFacts
    <3>2. s = {}
      BY <2>2, <3>1
    <3>3. QED
      BY <3>2
  <2> HIDE DEF g, Right
  <2>3. QED
    BY <2>1, <2>2
<1>3. ASSUME NEW n \in Nat, n \in N PROVE n + 1 \in N
  <2>1. PICK g \in [SUBSET S -> Int] :
            \A s \in SUBSET S : Cardinality(s) <= n => Right(g, s)
    BY <1>3
  <2> DEFINE h == [s \in SUBSET S |->
                    IF Cardinality(s) <= n THEN g[s] ELSE f[Chosen(s)] + g[s \ {Chosen(s)}]]
  <2>2. h \in [SUBSET S -> Int]
    <3> SUFFICES ASSUME NEW s \in SUBSET S, ~(Cardinality(s) <= n)
                 PROVE  f[Chosen(s)] + g[s \ {Chosen(s)}] \in Int
      OBVIOUS
    <3>1. Cardinality(s) \in Nat /\ (Cardinality(s) = 0 <=> s = {})
      BY ChosenFacts
    <3>2. s # {}
      BY <3>1
    <3>3. Chosen(s) \in S /\ s \ {Chosen(s)} \in SUBSET S
      BY <3>2, ChosenFacts
    <3>4. QED
      BY <3>3
  <2>3. ASSUME NEW s \in SUBSET S, Cardinality(s) <= n + 1 PROVE Right(h, s)
    <3>1. CASE s = {}
      <4>1. Cardinality(s) <= n
        <5>1. Cardinality(s) = 0
          BY <3>1, ChosenFacts
        <5>2. QED
          BY <5>1
      <4>2. g[s] = 0
        BY <2>1, <3>1, <4>1
      <4>3. h[s] = g[s]
        BY <4>1
      <4>4. QED
        BY <3>1, <4>2, <4>3
    <3>2. CASE s # {}
      <4>1. PICK r, x : x = Chosen(s) /\ r = s \ {x}
        OBVIOUS
      <4>2. r \in SUBSET S /\ Cardinality(r) = Cardinality(s) - 1 /\ Cardinality(s) \in Nat
        BY <3>2, <4>1, ChosenFacts
      <4>3. Cardinality(r) <= n
        BY <2>3, <4>2
      <4>4. h[r] = g[r]
        BY <4>2, <4>3
      <4>5. h[s] = f[x] + g[r]
        <5>1. CASE Cardinality(s) <= n
          <6>1. Right(g, s)
            BY <2>1, <5>1
          <6>2. g[s] = f[x] + g[r]
            BY <3>2, <4>1, <6>1
          <6>3. QED
            BY <5>1, <6>2
        <5>2. CASE ~(Cardinality(s) <= n)
          BY <4>1, <5>2
        <5>3. QED
          BY <5>1, <5>2
      <4> HIDE DEF h
      <4>6. QED
        BY <3>2, <4>1, <4>4, <4>5
    <3>3. QED
      BY <3>1, <3>2
  <2> HIDE DEF h, Right
  <2>4. QED
    BY <2>2, <2>3
<1> HIDE DEF N
<1>4. c \in N
  BY <1>2, <1>3, Induct
<1>5. PICK g \in [SUBSET S -> Int] : \A s \in SUBSET S : Cardinality(s) <= c => Right(g, s)
  BY <1>4 DEF N
<1>6. \A s \in SUBSET S : Right(g, s)
  BY <1>1, <1>5, ChosenFacts
<1>7. FoldSums(g, f, S)
  <2>1. g = [s \in SUBSET S |-> g[s]]
    OBVIOUS
  <2>2. QED
    BY <1>6, <2>1 DEF FoldSums
<1>8. QED
  BY <1>7

LEMMA SumFacts ==
    ASSUME NEW S, IsFiniteSet(S), NEW f \in [S -> Int]
    PROVE  SumFunction(f) \in Int /\ (S = {} => SumFunction(f) = 0)
<1> DEFINE g == CHOOSE h : FoldSums(h, f, S)
<1>1. FoldSums(g, f, S)
  BY FoldSumsExist
<1>2. SumFunction(f) = g[S]
  BY DEF SumFunction, SumFunctionOnSet, FoldFunctionOnSet, MapThenFoldSet, FoldSums, Chosen
<1> HIDE DEF g
<1>3. \A s \in SUBSET S : g[s] = IF s = {} THEN 0 ELSE f[Chosen(s)] + g[s \ {Chosen(s)}]
  BY <1>1 DEF FoldSums
<1> DEFINE N == {n \in Nat : \A s \in SUBSET S : Cardinality(s) = n => g[s] \in Int}
<1>4. 0 \in N
  <2>1. ASSUME NEW s \in SUBSET S, Cardinality(s) = 0 PROVE g[s] \in Int
    <3>1. s = {}
      BY <2>1, ChosenFacts
    <3>2. g[{}] = 0
      BY <1>3
    <3>3. QED
      BY <3>1, <3>2
  <2>2. QED
    BY <2>1
<1>5. ASSUME NEW n \in Nat, n \in N PROVE n + 1 \in N
  <2> SUFFICES ASSUME NEW s \in SUBSET S, Cardinality(s) = n + 1 PROVE g[s] \in Int
    OBVIOUS
  <2>1. s # {}
    BY ChosenFacts
  <2>2. PICK r, x : x = Chosen(s) /\ r = s \ {x}
    OBVIOUS
  <2>3. r \in SUBSET S /\ x \in S /\ Cardinality(r) = Cardinality(s) - 1
    BY <2>1, <2>2, ChosenFacts
  <2>4. g[r] \in Int /\ f[x] \in Int
    BY <1>5, <2>3
  <2>5. g[s] = f[x] + g[r]
    BY <1>3, <2>1, <2>2
  <2>6. QED
    BY <2>4, <2>5
<1> HIDE DEF N
<1>6. Nat \subseteq N
  BY <1>4, <1>5, Induct
<1>7. Cardinality(S) \in N
  BY <1>6, FS_CardinalityType
<1>8. QED
  BY <1>2, <1>3, <1>7 DEF N

-----------------------------------------------------------------------------
(* The invariant. AtOnce: every order trades on the next event. Single: no *)
(* two orders are on their way for the same asset.                         *)
AtOnce == ~config.sparse /\ ~config.limits
Single == config.strategies = 1 /\ (config.oneOrderOnly \/ AtOnce)

LimitsInv  == ~config.limits => \A i \in DOMAIN orders : orders[i].limit = {}
SettledInv == pc = "trade" /\ AtOnce => orders = <<>>

OrdersInv == Single =>
    /\ \A i, j \in DOMAIN orders : orders[i].asset = orders[j].asset => i = j
    /\ \A i \in DOMAIN orders :
        IF orders[i].opens THEN positions[orders[i].asset] = 0
        ELSE orders[i].size = -positions[orders[i].asset]
    /\ ~Shorting => /\ \A a \in Assets : positions[a] >= 0
                    /\ \A i \in DOMAIN orders : orders[i].opens => orders[i].size > 0

(* The history of the CircuitBreaker is what it sent, the newest first.    *)
HistoryInv ==
    /\ Len(history) = Len(sent)
    /\ \A i \in DOMAIN history : history[i] = sent[Len(sent) + 1 - i]
    /\ \A i, j \in DOMAIN sent : i <= j => sent[i].time <= sent[j].time
    /\ \A i \in DOMAIN sent : sent[i].time <= time

Inv == /\ TypeOK /\ LimitsInv /\ SettledInv /\ OrdersInv /\ NoOverdraft
       /\ HistoryInv /\ BatchesWithinLimit

-----------------------------------------------------------------------------
(* Arithmetic                                                              *)
LEMMA Products ==
    ASSUME NEW x \in Int, NEW y \in Nat
    PROVE  /\ x * y \in Int /\ (x <= 0 => x * y <= 0) /\ (x >= 0 => x * y >= 0)
           /\ (x * y > 0 => x > 0)
OBVIOUS

LEMMA OfNumbers ==
    ASSUME NEW n \in Nat, NEW f, f = [i \in 1..n |-> f[i]], \A i \in 1..n : f[i] \in Int
    PROVE  f \in Seq(Int) /\ Len(f) = n /\ DOMAIN f = 1..n
OBVIOUS

-----------------------------------------------------------------------------
(* Orders and prices                                                       *)
LEMMA OrderTypes ==
    ASSUME NEW o \in OrderSpecs
    PROVE  /\ o.asset \in Assets /\ o.size \in Int /\ o.limit \in SUBSET Nat
           /\ o.price \in Prices /\ o.price \in Nat /\ o.opens \in BOOLEAN
           /\ o.size * o.price \in Int
<1>1. /\ o.asset \in Assets /\ o.size \in Int /\ o.limit \in SUBSET Nat
      /\ o.price \in Prices /\ o.opens \in BOOLEAN
  BY DEF OrderSpecs
<1>2. o.price \in Nat
  BY <1>1, TradingAssumption
<1>3. QED
  BY <1>1, <1>2, Products

LEMMA PriceFacts ==
    ASSUME NEW ps \in [Assets -> Quotes], NEW a \in Assets, ps[a] # {}
    PROVE  /\ Price(ps, a) \in Prices /\ ps[a] = {Price(ps, a)}
           /\ Price(ps, a) \in Nat /\ Price(ps, a) > 0
<1>1. PICK p \in Prices : ps[a] = {p}
  BY DEF Quotes
<1>2. Price(ps, a) = p
  BY <1>1 DEF Price
<1>3. QED
  BY <1>1, <1>2, TradingAssumption

LEMMA FillFacts ==
    ASSUME NEW ps \in [Assets -> Quotes], NEW o \in OrderSpecs, Fills(ps, o)
    PROVE  /\ Cost(ps, o) \in Int /\ Slip(ps, o) \in Int /\ Slip(ps, o) >= 0
           /\ o.opens => Cost(ps, o) <= o.size * o.price + Slip(ps, o)
           /\ o.size <= 0 => Cost(ps, o) <= 0
<1>1. PICK p, a : a = o.asset /\ p = Price(ps, a)
  OBVIOUS
<1>2. a \in Assets /\ ps[a] # {}
  BY <1>1, OrderTypes DEF Fills
<1>3. p \in Nat
  BY <1>1, <1>2, PriceFacts
<1>4. PICK c, d : c = Cost(ps, o) /\ d = o.size * o.price
  OBVIOUS
<1>5. c = o.size * p /\ d \in Int
  BY <1>1, <1>4, OrderTypes DEF Cost
<1>6. c \in Int /\ (o.size <= 0 => c <= 0)
  BY <1>3, <1>5, OrderTypes, Products
<1>7. Slip(ps, o) = IF o.opens /\ c - d > 0 THEN c - d ELSE 0
  BY <1>4 DEF Slip
<1>8. QED
  BY <1>4, <1>5, <1>6, <1>7

(* What the orders add up to when they trade.                              *)
LEMMA SumsTypes ==
    ASSUME TypeOK, NEW ps \in [Assets -> Quotes], NEW a \in Assets
    PROVE  /\ Sizes(ps, a) \in Seq(Int) /\ DOMAIN Sizes(ps, a) = DOMAIN orders
           /\ Costs(ps) \in Seq(Int) /\ Len(Costs(ps)) = Len(orders)
           /\ Slips(ps) \in Seq(Int) /\ Len(Slips(ps)) = Len(orders)
           /\ \A i \in DOMAIN orders : Slips(ps)[i] >= 0
           /\ DOMAIN Costs(ps) = DOMAIN orders /\ DOMAIN Slips(ps) = DOMAIN orders
<1>1. PICK m \in Nat : m = Len(orders) /\ DOMAIN orders = 1..m
  BY DEF TypeOK
<1>2. \A i \in 1..m : orders[i] \in OrderSpecs
  BY <1>1 DEF TypeOK
<1>3. PICK s, c, l : s = Sizes(ps, a) /\ c = Costs(ps) /\ l = Slips(ps)
  OBVIOUS
<1>4. \A i \in 1..m : s[i] \in Int
  BY <1>1, <1>2, <1>3, OrderTypes DEF Sizes
<1>5. s = [i \in 1..m |-> s[i]] /\ c = [i \in 1..m |-> c[i]] /\ l = [i \in 1..m |-> l[i]]
  BY <1>1, <1>3 DEF Sizes, Costs, Slips
<1>6. \A i \in 1..m : c[i] \in Int /\ l[i] \in Int /\ l[i] >= 0
  BY <1>1, <1>2, <1>3, FillFacts DEF Costs, Slips
<1>7. s \in Seq(Int) /\ DOMAIN s = 1..m
  BY <1>4, <1>5, OfNumbers
<1>8. c \in Seq(Int) /\ Len(c) = m /\ DOMAIN c = 1..m
  BY <1>5, <1>6, OfNumbers
<1>9. l \in Seq(Int) /\ Len(l) = m /\ DOMAIN l = 1..m
  BY <1>5, <1>6, OfNumbers
<1>10. QED
  BY <1>1, <1>3, <1>6, <1>7, <1>8, <1>9

LEMMA OpeningTypes ==
    ASSUME NEW list \in Seq(OrderSpecs)
    PROVE  /\ Opening(list) \in Seq(Int) /\ Len(Opening(list)) = Len(list)
           /\ DOMAIN Opening(list) = DOMAIN list
<1>1. PICK m \in Nat : m = Len(list) /\ DOMAIN list = 1..m
  OBVIOUS
<1>2. PICK s : s = Opening(list)
  OBVIOUS
<1>3. \A i \in 1..m : s[i] \in Int
  BY <1>1, <1>2, OrderTypes DEF Opening
<1>4. s = [i \in 1..m |-> s[i]]
  BY <1>1, <1>2 DEF Opening
<1>5. QED
  BY <1>1, <1>2, <1>3, <1>4, OfNumbers

(* The orders that wait.                                                   *)
Left(q, n, ps) ==
    /\ q \in Seq(OrderSpecs)
    /\ \A i \in DOMAIN q : \E j \in 1..n : q[i] = orders[j] /\ ~Fills(ps, orders[j])
    /\ (\A i, j \in DOMAIN orders : orders[i].asset = orders[j].asset => i = j) =>
            \A i, j \in DOMAIN q : q[i].asset = q[j].asset => i = j

LEMMA AppendFacts ==
    ASSUME NEW S, NEW q \in Seq(S), NEW e \in S
    PROVE  /\ Append(q, e) \in Seq(S) /\ Len(q) \in Nat /\ Len(Append(q, e)) = Len(q) + 1
           /\ DOMAIN q = 1..Len(q) /\ DOMAIN Append(q, e) = 1..Len(q) + 1
           /\ \A k \in 1..Len(q) : Append(q, e)[k] = q[k]
           /\ Append(q, e)[Len(q) + 1] = e
OBVIOUS

LEMMA LeftMore ==
    ASSUME TypeOK, NEW ps, NEW n \in DOMAIN orders, NEW q, Left(q, n - 1, ps)
    PROVE  Left(IF Fills(ps, orders[n]) THEN q ELSE Append(q, orders[n]), n, ps)
<1>1. DOMAIN orders = 1..Len(orders) /\ orders[n] \in OrderSpecs /\ n \in Nat
      /\ Len(orders) \in Nat
  BY DEF TypeOK
<1>2. \A j \in 1..n - 1 : j \in 1..n /\ j # n /\ j \in DOMAIN orders
  BY <1>1
<1>3. CASE Fills(ps, orders[n])
  BY <1>2, <1>3 DEF Left
<1>4. CASE ~Fills(ps, orders[n])
  <2>1. PICK e, u : e = orders[n] /\ u = Append(q, e)
    OBVIOUS
  <2>2. /\ q \in Seq(OrderSpecs) /\ u \in Seq(OrderSpecs) /\ Len(q) \in Nat
        /\ DOMAIN q = 1..Len(q) /\ DOMAIN u = 1..Len(q) + 1
        /\ \A k \in 1..Len(q) : u[k] = q[k]
        /\ u[Len(q) + 1] = e
    BY <1>1, <2>1, AppendFacts DEF Left
  <2>3. \A i \in DOMAIN u : (i \in DOMAIN q /\ u[i] = q[i]) \/ (i = Len(q) + 1 /\ u[i] = e)
    BY <2>2
  <2>4. \A i \in DOMAIN u : \E j \in 1..n : u[i] = orders[j] /\ ~Fills(ps, orders[j])
    <3>1. n \in 1..n
      BY <1>1
    <3>2. QED
      BY <1>2, <1>4, <2>1, <2>3, <3>1 DEF Left
  <2>5. ASSUME \A i, j \in DOMAIN orders : orders[i].asset = orders[j].asset => i = j
        PROVE  \A i, j \in DOMAIN u : u[i].asset = u[j].asset => i = j
    <3>1. \A i \in DOMAIN q : q[i].asset # e.asset
      BY <1>2, <2>1, <2>5 DEF Left
    <3>2. \A i, j \in DOMAIN q : q[i].asset = q[j].asset => i = j
      BY <2>5 DEF Left
    <3>3. QED
      BY <2>3, <3>1, <3>2
  <2>6. QED
    BY <1>4, <2>1, <2>2, <2>4, <2>5 DEF Left
<1>5. QED
  BY <1>3, <1>4

LEMMA WaitingFacts ==
    ASSUME TypeOK, NEW ps
    PROVE  Left(Waiting(ps), Len(orders), ps)
<1>1. PICK m \in Nat : m = Len(orders) /\ DOMAIN orders = 1..m
  BY DEF TypeOK
<1> DEFINE More(i, x) == IF Fills(ps, orders[i]) THEN x ELSE Append(x, orders[i])
           Q == Seq(OrderSpecs)
           step == [i \in 1..m |-> [x \in Q |-> More(i, x)]]
           Fun(g) == g = [n \in 0..m |-> IF n = 0 THEN <<>> ELSE More(n, g[n - 1])]
           w == CHOOSE g : Fun(g)
<1>2. step \in [1..m -> [Q -> Q]] /\ <<>> \in Q
  <2>1. \A i \in 1..m : \A x \in Q : More(i, x) \in Q
    BY <1>1 DEF TypeOK
  <2> HIDE DEF More
  <2>2. QED
    BY <2>1
<1>3. \A i \in 1..m : \A x \in Q : step[i][x] = More(i, x)
  OBVIOUS
<1>4. \E g : Fun(g)
  <2> HIDE DEF step, Q, More
  <2>1. PICK g \in [0..m -> Q] : g[0] = <<>> /\ \A i \in 1..m : g[i] = step[i][g[i - 1]]
    <3>1. PICK b : b = <<>>
      OBVIOUS
    <3>2. \E g \in [0..m -> Q] : g[0] = b /\ \A i \in 1..m : g[i] = step[i][g[i - 1]]
      BY <1>1, <1>2, <3>1, Recursion, SMTT(20)
    <3>3. QED
      BY <3>1, <3>2
  <2>2. \A n \in 0..m : g[n] = IF n = 0 THEN <<>> ELSE More(n, g[n - 1])
    <3> SUFFICES ASSUME NEW n \in 1..m PROVE g[n] = More(n, g[n - 1])
      BY <2>1
    <3>1. g[n - 1] \in Q
      OBVIOUS
    <3>2. QED
      BY <1>3, <2>1, <3>1
  <2>3. g = [n \in 0..m |-> g[n]]
    OBVIOUS
  <2>4. QED
    BY <2>2, <2>3
<1>5. Fun(w)
  BY <1>4
<1>6. Waiting(ps) = w[m]
  BY <1>1 DEF Waiting
<1> HIDE DEF w
<1>7. w[0] = <<>> /\ \A n \in 1..m : w[n] = More(n, w[n - 1])
  <2> HIDE DEF More
  <2>1. 0 \in 0..m /\ \A n \in 1..m : n \in 0..m /\ n # 0
    OBVIOUS
  <2>2. QED
    BY <1>5, <2>1
<1> DEFINE S == {n \in 0..m : Left(w[n], n, ps)}
<1>8. 0 \in S
  <2>1. Left(<<>>, 0, ps)
    BY DEF Left
  <2>2. QED
    BY <1>7, <2>1
<1>9. ASSUME NEW n \in 1..m, n - 1 \in S PROVE n \in S
  <2>1. Left(w[n - 1], n - 1, ps) /\ n \in DOMAIN orders /\ n \in 0..m
    BY <1>1, <1>9
  <2>2. Left(More(n, w[n - 1]), n, ps)
    BY <2>1, LeftMore
  <2>3. QED
    BY <1>7, <2>1, <2>2
<1> HIDE DEF S
<1>10. 0..m \subseteq S
  BY <1>8, <1>9, Along
<1>11. m \in S
  BY <1>10
<1>12. QED
  BY <1>1, <1>6, <1>11 DEF S

-----------------------------------------------------------------------------
(* The broker syncs: what the trades do to the position of an asset.       *)
LEMMA PositionMoves ==
    ASSUME TypeOK, NEW ps \in [Assets -> Quotes], NEW a \in Assets,
           \A i, j \in DOMAIN orders : orders[i].asset = orders[j].asset => i = j
    PROVE  \/ \E k \in DOMAIN orders :
                /\ orders[k].asset = a /\ Fills(ps, orders[k])
                /\ Total(Sizes(ps, a)) = orders[k].size
           \/ /\ Total(Sizes(ps, a)) = 0
              /\ \A k \in DOMAIN orders : orders[k].asset = a => ~Fills(ps, orders[k])
<1>1. PICK s : s = Sizes(ps, a)
  OBVIOUS
<1>2. s \in Seq(Int) /\ DOMAIN s = DOMAIN orders
  BY <1>1, SumsTypes
<1>3. \A i \in DOMAIN s : s[i] = IF Fills(ps, orders[i]) /\ orders[i].asset = a
                                 THEN orders[i].size ELSE 0
  BY <1>1, <1>2 DEF Sizes
<1>4. CASE \E k \in DOMAIN orders : orders[k].asset = a /\ Fills(ps, orders[k])
  <2>1. PICK k \in DOMAIN orders : orders[k].asset = a /\ Fills(ps, orders[k])
    BY <1>4
  <2>2. k \in Nat /\ k \in DOMAIN s
    BY <1>2 DEF TypeOK
  <2>3. \A i \in DOMAIN s : i = k \/ s[i] = 0
    BY <1>2, <1>3, <2>1
  <2>4. Total(s) = s[k]
    BY <1>2, <2>2, <2>3, TotalOfOne
  <2>5. s[k] = orders[k].size
    BY <1>3, <2>1, <2>2
  <2>6. QED
    BY <1>1, <2>1, <2>4, <2>5
<1>5. CASE \A k \in DOMAIN orders : orders[k].asset = a => ~Fills(ps, orders[k])
  <2>1. \A i \in DOMAIN s : s[i] = 0
    BY <1>2, <1>3, <1>5
  <2>2. Total(s) = 0
    BY <1>2, <2>1, TotalOfNone
  <2>3. QED
    BY <1>1, <1>5, <2>2
<1>6. QED
  BY <1>4, <1>5

LEMMA SyncTypes ==
    ASSUME Inv, NEW t \in time..MaxTime, NEW ps \in EventPrices, Sync(t, ps)
    PROVE  TypeOK'
<1>1. /\ time' = t /\ prices' = ps /\ events < MaxEvents /\ events' = events + 1
      /\ positions' = [a \in Assets |-> positions[a] + Total(Sizes(ps, a))]
      /\ cash' = cash - Total(Costs(ps)) /\ orders' = Waiting(ps)
      /\ mktPrice' = [a \in Assets |-> IF ps[a] = {} THEN mktPrice[a] ELSE Price(ps, a)]
      /\ slippage' = slippage + Total(Slips(ps)) /\ pc' = "trade"
      /\ config' = config /\ history' = history /\ sent' = sent
  BY DEF Sync
<1>2. TypeOK /\ ps \in [Assets -> Quotes]
  BY DEF Inv, EventPrices
<1>3. \A a \in Assets : Total(Sizes(ps, a)) \in Int
  BY <1>2, SumsTypes, TotalType
<1>4. positions' \in [Assets -> Int]
  BY <1>1, <1>2, <1>3 DEF TypeOK
<1>5. Total(Costs(ps)) \in Int /\ Total(Slips(ps)) \in Int /\ Total(Slips(ps)) >= 0
  <2>1. PICK c, l : c = Costs(ps) /\ l = Slips(ps)
    OBVIOUS
  <2>2. c \in Seq(Int) /\ l \in Seq(Int) /\ \A i \in DOMAIN l : l[i] >= 0
    <3>1. ASSUME NEW a \in Assets
          PROVE  c \in Seq(Int) /\ l \in Seq(Int) /\ \A i \in DOMAIN l : l[i] >= 0
      BY <1>2, <2>1, SumsTypes
    <3>2. CASE Assets = {}
      <4>1. orders = <<>>
        <5>1. DOMAIN orders = {} /\ orders \in Seq(OrderSpecs)
          BY <1>2, <3>2 DEF TypeOK, OrderSpecs
        <5>2. QED
          BY <5>1
      <4>2. c = <<>> /\ l = <<>>
        BY <2>1, <4>1 DEF Costs, Slips
      <4>3. QED
        BY <4>2
    <3>3. QED
      BY <3>1, <3>2
  <2>3. QED
    BY <2>1, <2>2, TotalType, TotalNotNegative
<1>6. cash' \in Int /\ slippage' \in Nat
  BY <1>1, <1>2, <1>5, SMTT(20) DEF TypeOK
<1>7. \A a \in Assets : ps[a] # {} => Price(ps, a) \in Prices
  BY <1>2, PriceFacts
<1>8. mktPrice' \in [Assets -> Prices \cup {0}]
  BY <1>1, <1>2, <1>7 DEF TypeOK
<1>9. orders' \in Seq(OrderSpecs) /\ \A i \in DOMAIN orders' : orders'[i].size # 0
  <2>1. Left(orders', Len(orders), ps)
    BY <1>1, <1>2, WaitingFacts
  <2>2. \A j \in 1..Len(orders) : orders[j].size # 0
    BY <1>2 DEF TypeOK
  <2>3. QED
    BY <2>1, <2>2 DEF Left
<1>10. time' \in 0..MaxTime /\ events' \in 0..MaxEvents
  BY <1>1, <1>2, TradingAssumption DEF TypeOK
<1>11. QED
  BY <1>1, <1>2, <1>4, <1>6, <1>8, <1>9, <1>10 DEF TypeOK

LEMMA SyncInv ==
    ASSUME Inv, NEW t \in time..MaxTime, NEW ps \in EventPrices, Sync(t, ps)
    PROVE  Inv'
<1>1. /\ time' = t /\ pc' = "trade" /\ orders' = Waiting(ps)
      /\ positions' = [a \in Assets |-> positions[a] + Total(Sizes(ps, a))]
      /\ cash' = cash - Total(Costs(ps)) /\ slippage' = slippage + Total(Slips(ps))
      /\ config' = config /\ history' = history /\ sent' = sent
  BY DEF Sync
<1>2. /\ TypeOK /\ ps \in [Assets -> Quotes]
      /\ ~config.sparse => \A a \in Assets : ps[a] # {}
  BY DEF Inv, EventPrices
<1>3. TypeOK'
  BY SyncTypes
<1>4. PICK m \in Nat : m = Len(orders) /\ DOMAIN orders = 1..m
  <2>1. orders \in Seq(OrderSpecs)
    BY <1>2 DEF TypeOK
  <2>2. QED
    BY <2>1
<1>5. Left(orders', m, ps) /\ \A i \in 1..m : orders[i] \in OrderSpecs
  BY <1>1, <1>2, <1>4, WaitingFacts DEF TypeOK
<1>6. LimitsInv'
  BY <1>1, <1>4, <1>5 DEF Inv, LimitsInv, Left
<1>7. AtOnce => /\ \A i \in DOMAIN orders : Fills(ps, orders[i])
                /\ orders' = <<>>
  <2> SUFFICES ASSUME AtOnce
               PROVE  /\ \A i \in DOMAIN orders : Fills(ps, orders[i])
                      /\ orders' = <<>>
    OBVIOUS
  <2>1. \A i \in DOMAIN orders : orders[i].limit = {} /\ orders[i].asset \in Assets
    BY <1>4, <1>5, OrderTypes DEF Inv, LimitsInv, AtOnce
  <2>2. \A i \in DOMAIN orders : Fills(ps, orders[i])
    BY <1>2, <2>1 DEF Fills, AtOnce
  <2>3. DOMAIN orders' = {} /\ orders' \in Seq(OrderSpecs)
    BY <1>4, <1>5, <2>2 DEF Left
  <2>4. QED
    BY <2>2, <2>3
<1>8. SettledInv'
  BY <1>1, <1>7 DEF SettledInv, AtOnce
<1>9. OrdersInv'
  <2> SUFFICES ASSUME Single
               PROVE  /\ \A i, j \in DOMAIN orders' :
                            orders'[i].asset = orders'[j].asset => i = j
                      /\ \A i \in DOMAIN orders' :
                            IF orders'[i].opens THEN positions'[orders'[i].asset] = 0
                            ELSE orders'[i].size = -positions'[orders'[i].asset]
                      /\ ~Shorting =>
                            /\ \A a \in Assets : positions'[a] >= 0
                            /\ \A i \in DOMAIN orders' : orders'[i].opens => orders'[i].size > 0
    BY <1>1 DEF OrdersInv, Single, AtOnce
  <2>1. /\ \A i, j \in DOMAIN orders : orders[i].asset = orders[j].asset => i = j
        /\ \A i \in DOMAIN orders :
              IF orders[i].opens THEN positions[orders[i].asset] = 0
              ELSE orders[i].size = -positions[orders[i].asset]
        /\ ~Shorting => /\ \A a \in Assets : positions[a] >= 0
                        /\ \A i \in DOMAIN orders : orders[i].opens => orders[i].size > 0
    BY DEF Inv, OrdersInv
  <2>2. \A i, j \in DOMAIN orders' : orders'[i].asset = orders'[j].asset => i = j
    BY <1>5, <2>1 DEF Left
  <2>3. \A a \in Assets : positions'[a] = positions[a] + Total(Sizes(ps, a)) /\ positions[a] \in Int
    BY <1>1, <1>2 DEF TypeOK
  <2>4. ASSUME NEW i \in DOMAIN orders'
        PROVE  \E j \in DOMAIN orders : /\ orders'[i] = orders[j]
                                        /\ positions'[orders[j].asset] = positions[orders[j].asset]
    <3>1. PICK j \in DOMAIN orders : orders'[i] = orders[j] /\ ~Fills(ps, orders[j])
      BY <1>4, <1>5 DEF Left
    <3>2. PICK a \in Assets : a = orders[j].asset
      BY <1>4, <1>5, OrderTypes
    <3>3. Total(Sizes(ps, a)) = 0
      BY <1>2, <2>1, <3>1, <3>2, PositionMoves
    <3>4. positions'[a] = positions[a]
      BY <2>3, <3>3
    <3>5. QED
      BY <3>1, <3>2, <3>4
  <2>5. ASSUME ~Shorting, NEW a \in Assets PROVE positions'[a] >= 0
    <3>1. CASE \E k \in DOMAIN orders : /\ orders[k].asset = a
                                        /\ Total(Sizes(ps, a)) = orders[k].size
      <4>1. PICK k \in DOMAIN orders : orders[k].asset = a /\ Total(Sizes(ps, a)) = orders[k].size
        BY <3>1
      <4>2. PICK x, y : x = positions[a] /\ y = orders[k].size
        OBVIOUS
      <4>3. (x = 0 /\ y > 0) \/ y = -x
        BY <2>1, <2>5, <4>1, <4>2
      <4>4. x \in Int /\ y \in Int /\ positions'[a] = x + y
        BY <1>4, <1>5, <2>3, <4>1, <4>2, OrderTypes
      <4>5. QED
        BY <4>3, <4>4
    <3>2. CASE Total(Sizes(ps, a)) = 0
      BY <2>1, <2>3, <2>5, <3>2
    <3>3. QED
      BY <1>2, <2>1, <3>1, <3>2, PositionMoves
  <2>6. QED
    BY <2>1, <2>2, <2>4, <2>5
<1>10. NoOverdraft'
  <2> SUFFICES ASSUME ~Shorting, AtOnce, config.strategies = 1
               PROVE  cash' + slippage' >= Total(Opening(orders'))
    BY <1>1 DEF NoOverdraft, AtOnce
  <2>1. PICK c, l, o : c = Costs(ps) /\ l = Slips(ps) /\ o = Opening(orders)
    OBVIOUS
  <2>2. o \in Seq(Int) /\ Len(o) = m /\ Total(o) \in Int
    BY <1>2, <1>4, <2>1, OpeningTypes, TotalType DEF TypeOK
  <2>3. Opening(orders') = <<>>
    BY <1>7 DEF Opening
  <2>4. Total(<<>>) = 0
    <3>1. PICK s : s = <<>>
      OBVIOUS
    <3>2. s \in Seq(Int) /\ \A i \in DOMAIN s : s[i] = 0
      BY <3>1
    <3>3. QED
      BY <3>1, <3>2, TotalOfNone
  <2>5. cash + slippage >= Total(o) /\ cash \in Int /\ slippage \in Int
    BY <1>2, <2>1 DEF Inv, NoOverdraft, AtOnce, TypeOK
  <2>6. CASE m = 0
    <3>1. c = <<>> /\ l = <<>> /\ o = <<>>
      BY <1>4, <2>1, <2>6 DEF Costs, Slips, Opening
    <3>2. QED
      BY <1>1, <2>1, <2>3, <2>4, <2>5, <3>1
  <2>7. CASE m # 0
    <3>1. PICK a \in Assets : a = orders[1].asset
      BY <1>4, <1>5, <2>7, OrderTypes
    <3>2. /\ c \in Seq(Int) /\ Len(c) = m /\ DOMAIN c = 1..m
          /\ l \in Seq(Int) /\ Len(l) = m
      BY <1>2, <1>4, <2>1, SumsTypes
    <3>3. ASSUME NEW i \in 1..m PROVE c[i] <= o[i] + l[i]
      <4>1. PICK x \in OrderSpecs : x = orders[i] /\ Fills(ps, x)
        BY <1>4, <1>5, <1>7
      <4>2. c[i] = Cost(ps, x) /\ l[i] = Slip(ps, x)
        BY <1>4, <2>1, <4>1 DEF Costs, Slips
      <4>3. o[i] = IF x.opens THEN x.size * x.price ELSE 0
        BY <1>4, <2>1, <4>1 DEF Opening
      <4>4. ~x.opens => x.size <= 0
        <5>1. Single
          BY DEF Single
        <5>2. ~x.opens => x.size = -positions[x.asset] /\ positions[x.asset] >= 0
          BY <1>4, <4>1, <5>1, OrderTypes DEF Inv, OrdersInv
        <5>3. positions[x.asset] \in Int
          BY <1>2, <4>1, OrderTypes DEF TypeOK
        <5>4. QED
          BY <5>2, <5>3
      <4>5. /\ Cost(ps, x) \in Int /\ Slip(ps, x) \in Int /\ Slip(ps, x) >= 0
            /\ x.opens => Cost(ps, x) <= x.size * x.price + Slip(ps, x)
            /\ x.size <= 0 => Cost(ps, x) <= 0
        BY <1>2, <4>1, FillFacts
      <4>6. QED
        BY <4>2, <4>3, <4>4, <4>5
    <3>4. Total(c) <= Total(o) + Total(l)
      BY <2>2, <3>2, <3>3, TotalAtMost
    <3>5. Total(c) \in Int /\ Total(l) \in Int
      BY <3>2, TotalType
    <3>6. cash' = cash - Total(c) /\ slippage' = slippage + Total(l)
      BY <1>1, <2>1
    <3>7. QED
      BY <2>2, <2>3, <2>4, <2>5, <3>4, <3>5, <3>6, SMTT(20)
  <2>8. QED
    BY <2>6, <2>7
<1>11. HistoryInv'
  <2>1. time \in Int /\ sent \in Seq(Batches)
    BY <1>2, TradingAssumption DEF TypeOK
  <2>2. time <= t /\ t \in Int
    BY <2>1, TradingAssumption
  <2>3. \A i \in DOMAIN sent : sent[i].time \in Int
    <3>1. \A i \in DOMAIN sent : sent[i] \in Batches
      BY <2>1
    <3>2. \A x \in Batches : x.time \in Int
      BY DEF Batches
    <3>3. QED
      BY <3>1, <3>2
  <2>4. \A i \in DOMAIN sent : sent[i].time <= t
    BY <2>1, <2>2, <2>3 DEF Inv, HistoryInv
  <2>5. QED
    BY <1>1, <2>4 DEF Inv, HistoryInv
<1>12. BatchesWithinLimit'
  BY <1>1 DEF Inv, BatchesWithinLimit, Counted
<1>13. QED
  BY <1>3, <1>6, <1>8, <1>9, <1>10, <1>11, <1>12 DEF Inv

-----------------------------------------------------------------------------
(* The trader's orders. What it calculates with:                           *)
LEMMA AmountType ==
    ASSUME TypeOK
    PROVE  Equity \in Int /\ AmountPerOrder \in Int /\ BuyingPower \in Int
           /\ (AmountPerOrder > 0 => Equity > 0)
<1>1. \A a \in Assets : /\ positions[a] \in Int /\ mktPrice[a] \in Nat
                        /\ positions[a] * mktPrice[a] \in Int
                        /\ -positions[a] * mktPrice[a] \in Int
  <2> SUFFICES ASSUME NEW a \in Assets
               PROVE  /\ positions[a] \in Int /\ mktPrice[a] \in Nat
                      /\ positions[a] * mktPrice[a] \in Int
                      /\ -positions[a] * mktPrice[a] \in Int
    OBVIOUS
  <2>1. positions[a] \in Int /\ -positions[a] \in Int
    BY DEF TypeOK
  <2>2. mktPrice[a] \in Prices \cup {0}
    BY DEF TypeOK
  <2>3. mktPrice[a] \in Nat
    <3>1. CASE mktPrice[a] \in Prices
      BY <3>1, TradingAssumption
    <3>2. CASE mktPrice[a] = 0
      BY <3>2
    <3>3. QED
      BY <2>2, <3>1, <3>2
  <2>4. QED
    BY <2>1, <2>3, Products
<1>2. SumFunction([a \in Assets |-> positions[a] * mktPrice[a]]) \in Int
  <2>1. PICK f : f = [a \in Assets |-> positions[a] * mktPrice[a]]
    OBVIOUS
  <2>2. f \in [Assets -> Int]
    BY <1>1, <2>1
  <2>3. SumFunction(f) \in Int
    BY <2>2, SumFacts, TradingAssumption
  <2>4. QED
    BY <2>1, <2>3
<1>3. ShortExposure \in Int
  <2>1. PICK S : S = {b \in Assets : positions[b] < 0}
    OBVIOUS
  <2>2. PICK f : f = [a \in S |-> -positions[a] * mktPrice[a]]
    OBVIOUS
  <2>3. f \in [S -> Int]
    BY <1>1, <2>1, <2>2
  <2>4. IsFiniteSet(S)
    BY <2>1, FS_Subset, TradingAssumption
  <2>5. SumFunction(f) \in Int
    BY <2>3, <2>4, SumFacts
  <2>6. QED
    BY <2>1, <2>2, <2>5 DEF ShortExposure
<1>4. Equity \in Int
  BY <1>2 DEF Equity, TypeOK
<1>5. OrderPercentage \in Nat
  BY TradingAssumption
<1>6. AmountPerOrder \in Int /\ (AmountPerOrder > 0 => Equity > 0)
  BY <1>4, <1>5, Products DEF AmountPerOrder
<1>7. BuyingPower \in Int
  BY <1>3 DEF BuyingPower, TypeOK
<1>8. QED
  BY <1>4, <1>6, <1>7

LEMMA NoShortExposure ==
    ASSUME TypeOK, \A a \in Assets : positions[a] >= 0
    PROVE  BuyingPower = 100 * cash
<1>1. PICK S : S = {b \in Assets : positions[b] < 0}
  OBVIOUS
<1>2. S = {} /\ IsFiniteSet(S)
  <2>1. \A b \in Assets : positions[b] \in Int /\ ~(positions[b] < 0)
    BY DEF TypeOK
  <2>2. S = {}
    BY <1>1, <2>1
  <2>3. QED
    BY <2>2, FS_EmptySet
<1>3. PICK f : f = [a \in S |-> -positions[a] * mktPrice[a]]
  OBVIOUS
<1>4. f \in [S -> Int]
  BY <1>2, <1>3
<1>5. SumFunction(f) = 0
  BY <1>2, <1>4, SumFacts
<1>6. ShortExposure = 0
  BY <1>1, <1>3, <1>5 DEF ShortExposure
<1>7. QED
  BY <1>6 DEF BuyingPower, TypeOK

(* Rounded down, the size is not worth more than the amount.               *)
LEMMA DivisionFacts ==
    ASSUME NEW x \in Nat, NEW d \in Nat, d > 0
    PROVE  x \div d \in Nat /\ d * (x \div d) <= x
OBVIOUS

LEMMA SizeFacts ==
    ASSUME TypeOK, NEW p \in Nat, p > 0
    PROVE  /\ CalcSize(p) \in Int
           /\ CalcSize(p) > 0 =>
                /\ AmountPerOrder > 0 /\ Sign(CalcSize(p)) = 1
                /\ 100 * (CalcSize(p) * p) <= AmountPerOrder
<1>1. PICK x, d : x = AmountPerOrder /\ d = 100 * p
  OBVIOUS
<1>2. x \in Int /\ d \in Nat /\ d > 0
  BY <1>1, AmountType
<1>3. CalcSize(p) = IF x >= 0 THEN x \div d ELSE -((-x) \div d)
  BY <1>1 DEF CalcSize
<1>4. CASE x >= 0
  <2>1. PICK k : k = x \div d
    OBVIOUS
  <2>2. k \in Nat /\ d * k <= x /\ CalcSize(p) = k
    BY <1>2, <1>3, <1>4, <2>1, DivisionFacts
  <2>3. d * k = 100 * (k * p)
    BY <1>1, <2>2
  <2>4. k > 0 => x > 0
    <3>1. k > 0 => d * k > 0
      BY <1>2, <2>2
    <3>2. d * k \in Int
      BY <1>2, <2>2
    <3>3. QED
      BY <1>2, <2>2, <3>1, <3>2
  <2>5. k > 0 => Sign(k) = 1
    BY DEF Sign
  <2>6. QED
    BY <1>1, <2>2, <2>3, <2>4, <2>5
<1>5. CASE x < 0
  <2>1. PICK k : k = (-x) \div d
    OBVIOUS
  <2>2. k \in Nat /\ CalcSize(p) = -k
    BY <1>2, <1>3, <1>5, <2>1, DivisionFacts
  <2>3. QED
    BY <2>2
<1>6. QED
  BY <1>2, <1>4, <1>5

Plans == [orders : Seq(OrderSpecs), power : Int]

LEMMA OrderFacts ==
    ASSUME TypeOK, NEW s \in SignalSpecs, ~Skipped(s), NEW size \in Int, NEW opens \in BOOLEAN
    PROVE  LET o == Order(s, size, opens)
           IN  /\ o \in OrderSpecs /\ o.asset = s.asset /\ o.size = size /\ o.opens = opens
               /\ o.price = Price(prices, s.asset)
               /\ ~config.limits => o.limit = {}
<1>1. PICK p : p = Price(prices, s.asset)
  OBVIOUS
<1>2. s.asset \in Assets
  BY DEF SignalSpecs
<1>3. p \in Prices /\ p \in Nat
  BY <1>1, <1>2, PriceFacts DEF Skipped, TypeOK
<1>4. PICK l : l = p * (100 - LimitPercentage * Sign(size))
  OBVIOUS
<1>5. l \in Nat
  <2>1. Sign(size) \in {-1, 0, 1} /\ LimitPercentage \in 0..100
    BY TradingAssumption DEF Sign
  <2>2. 100 - LimitPercentage * Sign(size) \in Nat
    BY <2>1
  <2>3. QED
    BY <1>3, <1>4, <2>2, Products
<1>6. PICK o : o = Order(s, size, opens)
  OBVIOUS
<1>7. o = [asset |-> s.asset, size |-> size, limit |-> IF config.limits THEN {l} ELSE {},
           price |-> p, opens |-> opens]
  BY <1>1, <1>4, <1>6 DEF Order
<1>8. o \in OrderSpecs
  BY <1>2, <1>3, <1>5, <1>7 DEF OrderSpecs
<1>9. QED
  BY <1>1, <1>6, <1>7, <1>8

(* What a plan becomes by a signal.                                        *)
Extended(x, y, s) ==
    \E o \in OrderSpecs :
        /\ ~Skipped(s) /\ o.asset = s.asset /\ o.size # 0
        /\ ~config.limits => o.limit = {}
        /\ y.orders = Append(x.orders, o) /\ y \in Plans
        /\ \/ /\ ~o.opens /\ o.size = -positions[s.asset]
              /\ y.power = x.power
           \/ /\ o.opens /\ positions[s.asset] = 0 /\ (~Shorting => o.size > 0)
              /\ o.size > 0 =>
                    /\ Equity > 0 /\ 100 * (o.size * o.price) <= x.power
                    /\ y.power = x.power - 100 * (o.size * o.price)

LEMMA TradeSignalFacts ==
    ASSUME TypeOK, NEW x \in Plans, NEW s \in SignalSpecs
    PROVE  TradeSignal(x, s) = x \/ Extended(x, TradeSignal(x, s), s)
<1>1. PICK y : y = TradeSignal(x, s)
  OBVIOUS
<1>2. s.asset \in Assets
  BY DEF SignalSpecs
<1>3. x.orders \in Seq(OrderSpecs) /\ x.power \in Int
  BY DEF Plans
<1>4. CASE Skipped(s) \/ (~Reduces(s) /\ ~Opens(s, x.power))
  BY <1>4 DEF TradeSignal
<1>5. CASE ~Skipped(s) /\ Reduces(s)
  <2>1. PICK z : z = -positions[s.asset]
    OBVIOUS
  <2>2. z \in Int /\ z # 0
    BY <1>2, <1>5, <2>1 DEF TypeOK, Reduces
  <2>3. PICK o : o = Order(s, z, FALSE)
    OBVIOUS
  <2>4. /\ o \in OrderSpecs /\ o.asset = s.asset /\ o.size = z /\ ~o.opens
        /\ ~config.limits => o.limit = {}
    BY <1>5, <2>2, <2>3, OrderFacts
  <2>5. PICK l : l = Append(x.orders, o)
    OBVIOUS
  <2>6. l \in Seq(OrderSpecs)
    BY <1>3, <2>4, <2>5
  <2>7. y = [x EXCEPT !.orders = l]
    BY <1>1, <1>5, <2>1, <2>3, <2>5 DEF TradeSignal
  <2>8. y \in Plans /\ y.orders = l /\ y.power = x.power
    BY <2>6, <2>7 DEF Plans
  <2>9. QED
    BY <1>1, <1>5, <2>1, <2>2, <2>4, <2>5, <2>8 DEF Extended
<1>6. CASE ~Skipped(s) /\ ~Reduces(s) /\ Opens(s, x.power)
  <2>1. PICK p, z : p = Price(prices, s.asset) /\ z = CalcSize(p)
    OBVIOUS
  <2>2. p \in Nat /\ p > 0
    BY <1>2, <1>6, <2>1, PriceFacts DEF Skipped, TypeOK
  <2>3. z \in Int /\ (z > 0 => AmountPerOrder > 0 /\ Sign(z) = 1 /\ 100 * (z * p) <= AmountPerOrder)
    BY <2>1, <2>2, SizeFacts
  <2>4. positions[s.asset] = 0 /\ AmountPerOrder <= x.power /\ z # 0 /\ (z < 0 => Shorting)
    BY <1>6, <2>1 DEF Opens
  <2>5. PICK o : o = Order(s, z, TRUE)
    OBVIOUS
  <2>6. /\ o \in OrderSpecs /\ o.asset = s.asset /\ o.size = z /\ o.opens /\ o.price = p
        /\ ~config.limits => o.limit = {}
    BY <1>6, <2>1, <2>3, <2>5, OrderFacts
  <2>7. PICK l, e : l = Append(x.orders, o) /\ e = 100 * Sign(z) * z * p
    OBVIOUS
  <2>8. l \in Seq(OrderSpecs)
    BY <1>3, <2>6, <2>7
  <2>9. e \in Int /\ (z > 0 => e = 100 * (z * p))
    <3>1. Sign(z) \in {-1, 0, 1}
      BY DEF Sign
    <3>2. e \in Int
      BY <2>2, <2>3, <2>7, <3>1
    <3>3. z > 0 => e = 100 * 1 * z * p
      BY <2>3, <2>7
    <3>4. 100 * 1 * z * p = 100 * (z * p)
      BY <2>2, <2>3
    <3>5. QED
      BY <3>2, <3>3, <3>4
  <2>10. y = [orders |-> l, power |-> x.power - e]
    BY <1>1, <1>6, <2>1, <2>5, <2>7 DEF TradeSignal
  <2>11. y \in Plans /\ y.orders = l /\ y.power = x.power - e
    BY <1>3, <2>8, <2>9, <2>10 DEF Plans
  <2>12. ~Shorting => z > 0
    BY <2>3, <2>4
  <2>13. z > 0 => Equity > 0 /\ 100 * (z * p) <= x.power
    <3>1. 100 * (z * p) \in Int
      BY <2>2, <2>3
    <3>2. AmountPerOrder \in Int /\ (AmountPerOrder > 0 => Equity > 0)
      BY AmountType
    <3>3. QED
      BY <1>3, <2>3, <2>4, <3>1, <3>2
  <2>14. QED
    BY <1>1, <1>6, <2>4, <2>6, <2>7, <2>9, <2>11, <2>12, <2>13 DEF Extended
<1>7. QED
  BY <1>4, <1>5, <1>6

-----------------------------------------------------------------------------
(* The plan after the first n signals.                                     *)
Base == BuyingPower - Equity * SafetyMargin

RatedOnce(sg) == \A i, j \in DOMAIN sg : sg[i].asset = sg[j].asset => i = j

Planned(o, n, sg) ==
    /\ o.size # 0 /\ (~config.limits => o.limit = {})
    /\ \E k \in 1..n : o.asset = sg[k].asset /\ ~Skipped(sg[k])
    /\ IF o.opens THEN positions[o.asset] = 0 /\ (~Shorting => o.size > 0)
       ELSE o.size = -positions[o.asset]

Affordable(x) ==
    LET t == Total(Opening(x.orders))
    IN  100 * t + x.power = Base /\ (t = 0 \/ (x.power >= 0 /\ Equity >= 0))

Good(x, n, sg) ==
    /\ x \in Plans
    /\ \A i \in DOMAIN x.orders : Planned(x.orders[i], n, sg)
    /\ RatedOnce(sg) =>
            \A i, j \in DOMAIN x.orders : x.orders[i].asset = x.orders[j].asset => i = j
    /\ ~Shorting => Affordable(x)

LEMMA OpeningMore ==
    ASSUME NEW q \in Seq(OrderSpecs), NEW o \in OrderSpecs
    PROVE  Total(Opening(Append(q, o)))
            = Total(Opening(q)) + (IF o.opens THEN o.size * o.price ELSE 0)
<1>1. PICK u, m : u = Append(q, o) /\ m = Len(q)
  OBVIOUS
<1>2. /\ u \in Seq(OrderSpecs) /\ m \in Nat /\ Len(u) = m + 1 /\ DOMAIN q = 1..m
      /\ DOMAIN u = 1..m + 1 /\ u[m + 1] = o /\ \A i \in 1..m : u[i] = q[i]
  BY <1>1, AppendFacts
<1>3. PICK a, b : a = Opening(q) /\ b = Opening(u)
  OBVIOUS
<1>4. a \in Seq(Int) /\ b \in Seq(Int) /\ Len(a) = m /\ Len(b) = m + 1 /\ DOMAIN a = 1..m
  BY <1>1, <1>2, <1>3, OpeningTypes
<1>5. \A i \in 1..m : i \in 1..m + 1
  BY <1>2
<1>6. \A i \in DOMAIN a : b[i] = a[i]
  BY <1>2, <1>3, <1>4, <1>5 DEF Opening
<1>7. m + 1 \in DOMAIN u
  BY <1>2
<1>8. b[m + 1] = IF o.opens THEN o.size * o.price ELSE 0
  BY <1>2, <1>3, <1>7 DEF Opening
<1>9. Total(b) = Total(a) + b[m + 1]
  BY <1>4, <1>6, TotalOfMore
<1>10. QED
  BY <1>1, <1>3, <1>8, <1>9

LEMMA GoodMore ==
    ASSUME TypeOK, NEW sg \in Seq(SignalSpecs), NEW n \in DOMAIN sg, NEW x, Good(x, n - 1, sg)
    PROVE  Good(TradeSignal(x, sg[n]), n, sg)
<1>1. n \in Nat /\ sg[n] \in SignalSpecs /\ n \in 1..n /\ DOMAIN sg = 1..Len(sg)
      /\ Len(sg) \in Nat
  OBVIOUS
<1>2. \A k \in 1..n - 1 : k \in 1..n /\ k # n /\ k \in DOMAIN sg
  BY <1>1
<1>3. PICK y, s : s = sg[n] /\ y = TradeSignal(x, s)
  OBVIOUS
<1>4. x \in Plans /\ s \in SignalSpecs
  BY <1>1, <1>3 DEF Good
<1>5. \A i \in DOMAIN x.orders : Planned(x.orders[i], n, sg)
  BY <1>2 DEF Good, Planned
<1>6. CASE y = x
  BY <1>3, <1>5, <1>6 DEF Good
<1>7. CASE y # x
  <2>1. PICK o \in OrderSpecs :
            /\ ~Skipped(s) /\ o.asset = s.asset /\ o.size # 0
            /\ ~config.limits => o.limit = {}
            /\ y.orders = Append(x.orders, o) /\ y \in Plans
            /\ \/ /\ ~o.opens /\ o.size = -positions[s.asset]
                  /\ y.power = x.power
               \/ /\ o.opens /\ positions[s.asset] = 0 /\ (~Shorting => o.size > 0)
                  /\ o.size > 0 =>
                        /\ Equity > 0 /\ 100 * (o.size * o.price) <= x.power
                        /\ y.power = x.power - 100 * (o.size * o.price)
    <3>1. Extended(x, y, s)
      BY <1>3, <1>4, <1>7, TradeSignalFacts
    <3>2. QED
      BY <3>1 DEF Extended
  <2>2. PICK q, u : q = x.orders /\ u = Append(q, o)
    OBVIOUS
  <2>3. /\ q \in Seq(OrderSpecs) /\ u \in Seq(OrderSpecs) /\ Len(q) \in Nat
        /\ DOMAIN q = 1..Len(q) /\ DOMAIN u = 1..Len(q) + 1
        /\ \A k \in 1..Len(q) : u[k] = q[k]
        /\ u[Len(q) + 1] = o
    <3>1. q \in Seq(OrderSpecs)
      BY <1>4, <2>2 DEF Plans
    <3>2. QED
      BY <2>2, <3>1, AppendFacts
  <2>4. \A i \in DOMAIN u : (i \in DOMAIN q /\ u[i] = q[i]) \/ (i = Len(q) + 1 /\ u[i] = o)
    BY <2>3
  <2>5. Planned(o, n, sg)
    BY <1>1, <1>3, <2>1 DEF Planned
  <2>6. \A i \in DOMAIN u : Planned(u[i], n, sg)
    BY <1>5, <2>2, <2>4, <2>5
  <2>7. ASSUME RatedOnce(sg)
        PROVE  \A i, j \in DOMAIN u : u[i].asset = u[j].asset => i = j
    <3>1. \A i \in DOMAIN q : q[i].asset # o.asset
      <4> SUFFICES ASSUME NEW i \in DOMAIN q PROVE q[i].asset # o.asset
        OBVIOUS
      <4>1. PICK k \in 1..n - 1 : q[i].asset = sg[k].asset
        BY <2>2 DEF Good, Planned
      <4>2. k # n /\ k \in DOMAIN sg
        BY <1>2
      <4>3. QED
        BY <1>3, <2>1, <2>7, <4>1, <4>2 DEF RatedOnce
    <3>2. \A i, j \in DOMAIN q : q[i].asset = q[j].asset => i = j
      BY <2>2, <2>7 DEF Good
    <3>3. QED
      BY <2>4, <3>1, <3>2
  <2>8. ASSUME ~Shorting PROVE Affordable(y)
    <3>1. PICK t, v, w : /\ t = Total(Opening(q)) /\ v = Total(Opening(u))
                         /\ w = IF o.opens THEN o.size * o.price ELSE 0
      OBVIOUS
    <3>2. v = t + w
      BY <2>2, <2>3, <3>1, OpeningMore
    <3>3. t \in Int /\ w \in Int /\ x.power \in Int /\ y.power \in Int
      <4>1. t \in Int
        BY <2>3, <3>1, OpeningTypes, TotalType
      <4>2. w \in Int
        BY <3>1, OrderTypes
      <4>3. QED
        BY <1>4, <2>1, <4>1, <4>2 DEF Plans
    <3>4. 100 * t + x.power = Base /\ (t = 0 \/ (x.power >= 0 /\ Equity >= 0))
      BY <2>2, <2>8, <3>1 DEF Good, Affordable
    <3>5. Equity \in Int
      BY AmountType
    <3>6. CASE o.opens
      <4>1. Equity > 0 /\ 100 * w <= x.power /\ y.power = x.power - 100 * w
        BY <2>1, <2>8, <3>1, <3>6
      <4>2. 100 * v + y.power = Base /\ y.power >= 0 /\ Equity >= 0
        BY <3>2, <3>3, <3>4, <3>5, <4>1
      <4>3. QED
        BY <2>1, <2>2, <3>1, <4>2 DEF Affordable
    <3>7. CASE ~o.opens
      <4>1. v = t /\ y.power = x.power
        BY <2>1, <3>1, <3>2, <3>3, <3>7
      <4>2. 100 * v + y.power = Base /\ (v = 0 \/ (y.power >= 0 /\ Equity >= 0))
        BY <3>4, <4>1
      <4>3. QED
        BY <2>1, <2>2, <3>1, <4>2 DEF Affordable
    <3>8. QED
      BY <3>6, <3>7
  <2>9. y.orders = u /\ y \in Plans
    BY <2>1, <2>2
  <2>10. Good(y, n, sg)
    BY <2>6, <2>7, <2>8, <2>9 DEF Good
  <2>11. QED
    BY <1>3, <2>10
<1>8. QED
  BY <1>6, <1>7

LEMMA CreateOrdersFacts ==
    ASSUME TypeOK, NEW sg \in Seq(SignalSpecs)
    PROVE  \E x : Good(x, Len(sg), sg) /\ CreateOrders(sg) = x.orders
<1>1. PICK m \in Nat : m = Len(sg) /\ DOMAIN sg = 1..m
  OBVIOUS
<1>2. PICK b : b = [orders |-> <<>>, power |-> Base]
  OBVIOUS
<1>3. Good(b, 0, sg)
  <2>1. Base \in Int
    BY AmountType, TradingAssumption DEF Base
  <2>2. PICK e : e = <<>>
    OBVIOUS
  <2>3. e \in Seq(OrderSpecs) /\ DOMAIN e = {} /\ Opening(e) = <<>>
    BY <2>2 DEF Opening
  <2>4. b \in Plans /\ b.orders = e /\ b.power = Base
    BY <1>2, <2>1, <2>2, <2>3 DEF Plans
  <2>5. Total(Opening(e)) = 0
    <3>1. Opening(e) \in Seq(Int) /\ DOMAIN Opening(e) = {}
      BY <2>3, OpeningTypes
    <3>2. QED
      BY <3>1, TotalOfNone
  <2>6. Affordable(b)
    BY <2>1, <2>4, <2>5 DEF Affordable
  <2>7. QED
    BY <2>3, <2>4, <2>6 DEF Good
<1> DEFINE More(i, x) == TradeSignal(x, sg[i])
           step == [i \in 1..m |-> [x \in Plans |-> More(i, x)]]
           Fun(g) == g = [n \in 0..m |-> IF n = 0 THEN [orders |-> <<>>,
                                                        power  |-> BuyingPower - Equity * SafetyMargin]
                                         ELSE TradeSignal(g[n - 1], sg[n])]
           w == CHOOSE g : Fun(g)
<1>4. step \in [1..m -> [Plans -> Plans]]
  <2>1. ASSUME NEW i \in 1..m, NEW x \in Plans PROVE More(i, x) \in Plans
    <3>1. sg[i] \in SignalSpecs
      BY <1>1
    <3>2. QED
      BY <3>1, TradeSignalFacts DEF Extended
  <2> HIDE DEF More
  <2>2. QED
    BY <2>1
<1>5. \A i \in 1..m : \A x \in Plans : step[i][x] = TradeSignal(x, sg[i])
  OBVIOUS
<1>6. \A g : Fun(g) <=> g = [n \in 0..m |-> IF n = 0 THEN b ELSE TradeSignal(g[n - 1], sg[n])]
  BY <1>2 DEF Base
<1>7. \E g : Fun(g)
  <2> HIDE DEF step, Fun
  <2>1. b \in Plans
    BY <1>3 DEF Good
  <2>2. PICK g \in [0..m -> Plans] : g[0] = b /\ \A i \in 1..m : g[i] = step[i][g[i - 1]]
    <3>1. m \in Nat
      BY <1>1
    <3>2. PICK P : P = Plans
      OBVIOUS
    <3>3. step \in [1..m -> [P -> P]] /\ b \in P
      BY <1>4, <2>1, <3>2
    <3>4. \E g \in [0..m -> P] : g[0] = b /\ \A i \in 1..m : g[i] = step[i][g[i - 1]]
      BY <3>1, <3>3, Recursion, SMTT(20)
    <3>5. QED
      BY <3>2, <3>4
  <2>3. \A n \in 0..m : g[n] = IF n = 0 THEN b ELSE TradeSignal(g[n - 1], sg[n])
    <3> SUFFICES ASSUME NEW n \in 1..m PROVE g[n] = TradeSignal(g[n - 1], sg[n])
      BY <2>2
    <3>1. g[n - 1] \in Plans
      OBVIOUS
    <3>2. QED
      BY <1>5, <2>2, <3>1
  <2>4. g = [n \in 0..m |-> g[n]]
    OBVIOUS
  <2>5. QED
    BY <1>6, <2>3, <2>4
<1>8. Fun(w)
  BY <1>7
<1>9. CreateOrders(sg) = w[m].orders
  BY <1>1 DEF CreateOrders
<1> HIDE DEF w, step, More, Fun
<1>10. w[0] = b /\ \A n \in 1..m : w[n] = TradeSignal(w[n - 1], sg[n])
  <2>1. 0 \in 0..m /\ \A n \in 1..m : n \in 0..m /\ n # 0
    OBVIOUS
  <2>2. QED
    BY <1>6, <1>8, <2>1
<1> DEFINE S == {n \in 0..m : Good(w[n], n, sg)}
<1>11. 0 \in S
  BY <1>3, <1>10
<1>12. ASSUME NEW n \in 1..m, n - 1 \in S PROVE n \in S
  <2>1. Good(w[n - 1], n - 1, sg) /\ n \in DOMAIN sg /\ n \in 0..m
    BY <1>1, <1>12
  <2>2. Good(TradeSignal(w[n - 1], sg[n]), n, sg)
    BY <2>1, GoodMore
  <2>3. QED
    BY <1>10, <2>1, <2>2
<1> HIDE DEF S
<1>13. 0..m \subseteq S
  BY <1>11, <1>12, Along
<1>14. m \in S
  BY <1>13
<1>15. Good(w[m], m, sg)
  BY <1>14 DEF S
<1>16. QED
  BY <1>1, <1>9, <1>15

-----------------------------------------------------------------------------
(* The signals of several strategies, one after the other.                 *)
Lists(k, S) == [1..k + 1 -> Seq(S)]

LEMMA FlattenFacts ==
    ASSUME NEW S, NEW k \in Nat, NEW o \in Lists(k, S)
    PROVE  FlattenSeq(o) \in Seq(S) /\ (k = 0 => FlattenSeq(o) = o[1])
<1>1. PICK m \in Nat : m = k + 1
  OBVIOUS
<1> DEFINE Q == Seq(S)
<1>2. o = [i \in 1..m |-> o[i]] /\ \A i \in 1..m : o[i] \in Q
  BY <1>1 DEF Lists
<1>3. Len(o) = m /\ m # 0
  <2>1. m \in Nat /\ m # 0
    BY <1>1
  <2> HIDE DEF Q
  <2>2. o \in [1..m -> Q]
    BY <1>2
  <2>3. Len(o) = m
    BY <2>1, <2>2
  <2>4. QED
    BY <2>1, <2>3
<1> DEFINE Fun(g) == g = [i \in 1..m |-> IF i = 1 THEN o[i] ELSE g[i - 1] \o o[i]]
           w == CHOOSE g : Fun(g)
           step == [i \in 1..k |-> [x \in Q |-> x \o o[i + 1]]]
<1>4. step \in [1..k -> [Q -> Q]]
  <2>1. ASSUME NEW i \in 1..k, NEW x \in Q PROVE x \o o[i + 1] \in Q
    <3>1. i + 1 \in 1..m
      BY <1>1
    <3>2. QED
      BY <1>2, <3>1
  <2> HIDE DEF Q
  <2>2. QED
    BY <2>1
<1>5. \A i \in 1..k : \A x \in Q : step[i][x] = x \o o[i + 1]
  OBVIOUS
<1>6. \E g : Fun(g)
  <2> HIDE DEF step, Q
  <2>1. PICK b : b = o[1]
    OBVIOUS
  <2>2. b \in Q
    <3>1. 1 \in 1..m
      BY <1>1
    <3>2. QED
      BY <1>2, <2>1, <3>1
  <2>3. PICK h \in [0..k -> Q] : h[0] = b /\ \A i \in 1..k : h[i] = step[i][h[i - 1]]
    BY <1>4, <2>2, Recursion, SMTT(20)
  <2> DEFINE g == [i \in 1..m |-> h[i - 1]]
  <2>4. ASSUME NEW i \in 1..m
        PROVE  g[i] = IF i = 1 THEN o[i] ELSE g[i - 1] \o o[i]
    <3>1. CASE i = 1
      BY <2>1, <2>3, <3>1
    <3>2. CASE i # 1
      <4>1. PICK j : j = i - 1
        OBVIOUS
      <4>2. j \in 1..k /\ j - 1 \in 0..k /\ j + 1 = i /\ j \in 1..m
        BY <1>1, <3>2, <4>1
      <4>3. g[i] = h[j] /\ g[j] = h[j - 1] /\ h[j - 1] \in Q
        BY <2>3, <4>1, <4>2
      <4>4. h[j] = h[j - 1] \o o[i]
        BY <1>5, <2>3, <4>2, <4>3
      <4> HIDE DEF g
      <4>5. QED
        BY <3>2, <4>1, <4>3, <4>4
    <3>3. QED
      BY <3>1, <3>2
  <2>5. g = [i \in 1..m |-> IF i = 1 THEN o[i] ELSE g[i - 1] \o o[i]]
    <3>1. g = [i \in 1..m |-> g[i]]
      OBVIOUS
    <3> HIDE DEF g
    <3>2. QED
      BY <2>4, <3>1
  <2> HIDE DEF g
  <2>6. QED
    BY <2>5
<1>7. Fun(w)
  <2> HIDE DEF Fun
  <2>1. QED
    BY <1>6
<1>8. FlattenSeq(o) = w[m]
  BY <1>3 DEF FlattenSeq
<1> HIDE DEF w
<1>9. w[1] = o[1] /\ \A i \in 1..m : i # 1 => w[i] = w[i - 1] \o o[i]
  <2>1. \A i \in 1..m : w[i] = IF i = 1 THEN o[i] ELSE w[i - 1] \o o[i]
    BY <1>7
  <2>2. 1 \in 1..m
    BY <1>1
  <2>3. QED
    BY <2>1, <2>2
<1> DEFINE T == {i \in 0..k : w[i + 1] \in Q}
<1>10. 0 \in T
  <2>1. 1 \in 1..m
    BY <1>1
  <2>2. QED
    BY <1>2, <1>9, <2>1
<1>11. ASSUME NEW n \in 1..k, n - 1 \in T PROVE n \in T
  <2>1. n + 1 \in 1..m /\ n + 1 # 1 /\ (n + 1) - 1 = n /\ (n - 1) + 1 = n /\ n \in 0..k
    BY <1>1
  <2>2. w[n] \in Q
    BY <1>11, <2>1
  <2>3. w[n + 1] = w[n] \o o[n + 1] /\ o[n + 1] \in Q
    BY <1>2, <1>9, <2>1
  <2>4. w[n + 1] \in Q
    BY <2>2, <2>3
  <2>5. QED
    BY <2>1, <2>4
<1> HIDE DEF T
<1>12. 0..k \subseteq T
  BY <1>10, <1>11, Along
<1>13. w[m] \in Q
  <2>1. k \in T /\ k + 1 = m
    BY <1>1, <1>12
  <2>2. QED
    BY <2>1 DEF T
<1>14. QED
  BY <1>1, <1>8, <1>9, <1>13

LEMMA SignalsFacts ==
    ASSUME TypeOK, NEW sg \in Signals
    PROVE  sg \in Seq(SignalSpecs) /\ (config.strategies = 1 => RatedOnce(sg))
<1>1. PICK m : m = config.strategies
  OBVIOUS
<1>2. m \in Nat \ {0} /\ m \in DOMAIN Outputs
  BY <1>1, TradingAssumption DEF TypeOK, ConfigSpecs
<1>3. PICK k \in Nat : m = k + 1
  <2>1. m - 1 \in Nat /\ m = (m - 1) + 1
    BY <1>2
  <2>2. QED
    BY <2>1
<1>4. PICK o \in [1..m -> Outputs[m]] : sg = FlattenSeq(o)
  BY <1>1 DEF Signals
<1>5. \A i \in 1..m : o[i] \in Seq(SignalSpecs) /\ RatedOnce(o[i])
  BY <1>2, TradingAssumption DEF RatedOnce
<1>6. o \in Lists(k, SignalSpecs)
  BY <1>3, <1>5 DEF Lists
<1>7. sg \in Seq(SignalSpecs) /\ (k = 0 => sg = o[1])
  BY <1>4, <1>6, FlattenFacts
<1>8. m = 1 => k = 0 /\ 1 \in 1..m
  BY <1>3
<1>9. QED
  BY <1>1, <1>5, <1>7, <1>8

-----------------------------------------------------------------------------
(* The orders that are there and the new ones.                             *)
LEMMA ConcatFacts ==
    ASSUME NEW S, NEW p \in Seq(S), NEW q \in Seq(S), NEW u, u = p \o q
    PROVE  /\ u \in Seq(S)
           /\ \A i \in DOMAIN u : \/ i \in DOMAIN p /\ u[i] = p[i]
                                  \/ /\ i - Len(p) \in DOMAIN q /\ u[i] = q[i - Len(p)]
                                     /\ i \in Int
<1>1. /\ u \in Seq(S) /\ Len(p) \in Nat /\ Len(q) \in Nat
      /\ DOMAIN p = 1..Len(p) /\ DOMAIN q = 1..Len(q) /\ DOMAIN u = 1..Len(p) + Len(q)
  OBVIOUS
<1>2. \A i \in DOMAIN u : IF i <= Len(p) THEN u[i] = p[i] ELSE u[i] = q[i - Len(p)]
  OBVIOUS
<1>3. QED
  BY <1>1, <1>2

(* What Trade does to the orders.                                          *)
Fits(all) ==
    /\ all \in Seq(OrderSpecs) /\ \A i \in DOMAIN all : all[i].size # 0
    /\ ~config.limits => \A i \in DOMAIN all : all[i].limit = {}
    /\ Single =>
        /\ \A i, j \in DOMAIN all : all[i].asset = all[j].asset => i = j
        /\ \A i \in DOMAIN all :
            IF all[i].opens THEN positions[all[i].asset] = 0
            ELSE all[i].size = -positions[all[i].asset]
        /\ ~Shorting => \A i \in DOMAIN all : all[i].opens => all[i].size > 0

LEMMA TradeOrders ==
    ASSUME Inv, pc = "trade", NEW sg \in Signals, NEW new, new = CreateOrders(sg),
           NEW all, all = orders \o new
    PROVE  new \in Seq(OrderSpecs) /\ Fits(all)
<1>1. TypeOK /\ LimitsInv /\ SettledInv /\ OrdersInv
  BY DEF Inv
<1>2. sg \in Seq(SignalSpecs) /\ (config.strategies = 1 => RatedOnce(sg))
  BY <1>1, SignalsFacts
<1>3. PICK x, n : n = Len(sg) /\ Good(x, n, sg) /\ new = x.orders
  BY <1>1, <1>2, CreateOrdersFacts
<1>4. /\ new \in Seq(OrderSpecs)
      /\ \A i \in DOMAIN new : Planned(new[i], n, sg)
      /\ RatedOnce(sg) => \A i, j \in DOMAIN new : new[i].asset = new[j].asset => i = j
  BY <1>3 DEF Good, Plans
<1>5. orders \in Seq(OrderSpecs) /\ \A i \in DOMAIN orders : orders[i].size # 0
  BY <1>1 DEF TypeOK
<1>6. PICK m : m = Len(orders)
  OBVIOUS
<1>7. /\ all \in Seq(OrderSpecs)
      /\ \A i \in DOMAIN all : \/ i \in DOMAIN orders /\ all[i] = orders[i]
                               \/ i - m \in DOMAIN new /\ all[i] = new[i - m] /\ i \in Int
  BY <1>4, <1>5, <1>6, ConcatFacts
<1>8. \A i \in DOMAIN all : \/ i \in DOMAIN orders /\ all[i] = orders[i]
                            \/ Planned(all[i], n, sg)
  BY <1>4, <1>7
<1>9. \A i \in DOMAIN all : all[i].size # 0
  BY <1>5, <1>8 DEF Planned
<1>10. ~config.limits => \A i \in DOMAIN all : all[i].limit = {}
  BY <1>1, <1>8 DEF LimitsInv, Planned
<1>11. ASSUME Single, NEW i \in DOMAIN orders, NEW j \in DOMAIN new
       PROVE  orders[i].asset # new[j].asset
  <2>1. PICK k \in 1..n : new[j].asset = sg[k].asset /\ ~Skipped(sg[k])
    BY <1>4 DEF Planned
  <2>2. CASE config.oneOrderOnly
    BY <2>1, <2>2 DEF Skipped
  <2>3. CASE AtOnce
    BY <1>1, <2>3 DEF SettledInv
  <2>4. QED
    BY <1>11, <2>2, <2>3 DEF Single
<1>12. ASSUME Single
       PROVE  \A i, j \in DOMAIN all : all[i].asset = all[j].asset => i = j
  <2> SUFFICES ASSUME NEW i \in DOMAIN all, NEW j \in DOMAIN all,
                      all[i].asset = all[j].asset
               PROVE  i = j
    OBVIOUS
  <2>1. \A k, l \in DOMAIN orders : orders[k].asset = orders[l].asset => k = l
    BY <1>1, <1>12 DEF OrdersInv
  <2>2. \A k, l \in DOMAIN new : new[k].asset = new[l].asset => k = l
    BY <1>2, <1>4, <1>12 DEF Single
  <2>3. m \in Int
    BY <1>5, <1>6
  <2>4. \/ i \in DOMAIN orders /\ all[i] = orders[i]
        \/ i - m \in DOMAIN new /\ all[i] = new[i - m] /\ i \in Int
    BY <1>7
  <2>5. \/ j \in DOMAIN orders /\ all[j] = orders[j]
        \/ j - m \in DOMAIN new /\ all[j] = new[j - m] /\ j \in Int
    BY <1>7
  <2>6. CASE i \in DOMAIN orders /\ all[i] = orders[i]
    BY <1>11, <1>12, <2>1, <2>5, <2>6
  <2>7. CASE i - m \in DOMAIN new /\ all[i] = new[i - m] /\ i \in Int
    <3>1. CASE j \in DOMAIN orders /\ all[j] = orders[j]
      BY <1>11, <1>12, <2>7, <3>1
    <3>2. CASE j - m \in DOMAIN new /\ all[j] = new[j - m] /\ j \in Int
      <4>1. i - m = j - m
        BY <2>2, <2>7, <3>2
      <4>2. QED
        BY <2>3, <2>7, <3>2, <4>1
    <3>3. QED
      BY <2>5, <3>1, <3>2
  <2>8. QED
    BY <2>4, <2>6, <2>7
<1>13. ASSUME Single, NEW i \in DOMAIN all
       PROVE  /\ IF all[i].opens THEN positions[all[i].asset] = 0
                 ELSE all[i].size = -positions[all[i].asset]
              /\ ~Shorting => (all[i].opens => all[i].size > 0)
  <2>1. CASE i \in DOMAIN orders /\ all[i] = orders[i]
    BY <1>1, <1>13, <2>1 DEF OrdersInv
  <2>2. CASE Planned(all[i], n, sg)
    BY <2>2 DEF Planned
  <2>3. QED
    BY <1>8, <2>1, <2>2
<1>14. QED
  BY <1>4, <1>7, <1>9, <1>10, <1>12, <1>13 DEF Fits

(* Buying is within the cash: all of the buying power is cash, and what is *)
(* bought is taken from it.                                                *)
LEMMA TradeOverdraft ==
    ASSUME Inv, pc = "trade", NEW sg \in Signals, NEW new, new = CreateOrders(sg),
           NEW all, all = orders \o new, ~Shorting, AtOnce, config.strategies = 1
    PROVE  cash + slippage >= Total(Opening(all))
<1>1. TypeOK /\ orders = <<>> /\ Single
  BY DEF Inv, SettledInv, Single
<1>2. sg \in Seq(SignalSpecs)
  BY <1>1, SignalsFacts
<1>3. PICK x : Good(x, Len(sg), sg) /\ new = x.orders
  BY <1>1, <1>2, CreateOrdersFacts
<1>4. new \in Seq(OrderSpecs) /\ x.power \in Int /\ Affordable(x)
  BY <1>3 DEF Good, Plans
<1>5. all = new
  BY <1>1, <1>4
<1>6. PICK t : t = Total(Opening(new))
  OBVIOUS
<1>7. t \in Int
  BY <1>4, <1>6, OpeningTypes, TotalType
<1>8. 100 * t + x.power = Base /\ (t = 0 \/ (x.power >= 0 /\ Equity >= 0))
  BY <1>3, <1>4, <1>6 DEF Affordable
<1>9. cash \in Int /\ slippage \in Nat
  BY <1>1 DEF TypeOK
<1>10. BuyingPower = 100 * cash
  <2>1. \A a \in Assets : positions[a] >= 0
    BY <1>1 DEF Inv, OrdersInv
  <2>2. QED
    BY <1>1, <2>1, NoShortExposure
<1>11. CASE t = 0
  <2>1. cash + slippage >= Total(Opening(orders))
    BY DEF Inv, NoOverdraft, AtOnce
  <2>2. PICK e : e = Opening(orders)
    OBVIOUS
  <2>3. e \in Seq(Int) /\ DOMAIN e = {}
    BY <1>1, <2>2 DEF Opening
  <2>4. Total(e) = 0
    BY <2>3, TotalOfNone
  <2>5. QED
    BY <1>5, <1>6, <1>11, <2>1, <2>2, <2>4
<1>12. CASE x.power >= 0 /\ Equity >= 0
  <2>1. PICK k : k = Equity * SafetyMargin
    OBVIOUS
  <2>2. k \in Int /\ k >= 0
    <3>1. Equity \in Int /\ SafetyMargin \in Nat
      BY <1>1, AmountType, TradingAssumption
    <3>2. QED
      BY <1>12, <2>1, <3>1, Products
  <2>3. Base = 100 * cash - k
    BY <1>10, <2>1 DEF Base
  <2>4. 100 * t + x.power = 100 * cash - k
    BY <1>8, <2>3
  <2>5. t <= cash
    BY <1>4, <1>7, <1>9, <1>12, <2>2, <2>4
  <2>6. QED
    BY <1>5, <1>6, <1>7, <1>9, <2>5
<1>13. QED
  BY <1>8, <1>11, <1>12

-----------------------------------------------------------------------------
(* The CircuitBreaker stops reading its history at the first entry that is *)
(* too old. As the entries are in order, it does not miss one.             *)
Window == [j \in 1..Len(sent) |-> IF sent[j].time >= time - Period THEN sent[j].orders ELSE 0]

LEMMA SentTypes ==
    ASSUME TypeOK
    PROVE  /\ Len(sent) \in Nat /\ DOMAIN sent = 1..Len(sent)
           /\ \A i \in DOMAIN sent : sent[i].time \in Nat /\ sent[i].orders \in Nat
           /\ time \in Nat /\ Period \in Nat
<1>1. sent \in Seq(Batches) /\ time \in Nat /\ Period \in Nat
  BY TradingAssumption DEF TypeOK
<1>2. Len(sent) \in Nat /\ DOMAIN sent = 1..Len(sent) /\ \A i \in DOMAIN sent : sent[i] \in Batches
  BY <1>1
<1>3. \A b \in Batches : b.time \in Nat /\ b.orders \in Nat
  BY DEF Batches
<1>4. QED
  BY <1>1, <1>2, <1>3

LEMMA RecentFacts ==
    ASSUME TypeOK, HistoryInv
    PROVE  /\ Window \in Seq(Int) /\ Len(Window) = Len(sent) /\ DOMAIN Window = DOMAIN sent
           /\ Recent = Total(Window) /\ Recent \in Int
<1>1. PICK m : m = Len(sent)
  OBVIOUS
<1>2. PICK low, v : low = time - Period /\ v = Window
  OBVIOUS
<1>3. /\ m \in Nat /\ DOMAIN sent = 1..m /\ low \in Int
      /\ \A i \in 1..m : sent[i].time \in Int /\ sent[i].orders \in Int
  BY <1>1, <1>2, SentTypes
<1>4. \A i \in 1..m : v[i] = IF sent[i].time >= low THEN sent[i].orders ELSE 0
  BY <1>1, <1>2 DEF Window
<1>5. v \in Seq(Int) /\ Len(v) = m /\ DOMAIN v = 1..m
  <2>1. v = [i \in 1..m |-> v[i]]
    BY <1>1, <1>2 DEF Window
  <2>2. \A i \in 1..m : v[i] \in Int
    BY <1>3, <1>4
  <2>3. QED
    BY <1>3, <2>1, <2>2, OfNumbers
<1>6. Len(history) = m /\ \A i \in 1..m : history[m + 1 - i] = sent[i]
  <2>1. Len(history) = m /\ history \in Seq(Batches)
    BY <1>1 DEF HistoryInv, TypeOK
  <2>2. \A i \in DOMAIN history : history[i] = sent[m + 1 - i]
    BY <1>1 DEF HistoryInv
  <2>3. ASSUME NEW i \in 1..m PROVE history[m + 1 - i] = sent[i]
    <3>1. m + 1 - i \in DOMAIN history /\ m + 1 - (m + 1 - i) = i
      BY <1>3, <2>1
    <3>2. QED
      BY <2>2, <3>1
  <2>4. QED
    BY <2>1, <2>3
<1> DEFINE More(i, x) == IF history[m + 1 - i].time < low THEN 0
                         ELSE history[m + 1 - i].orders + x
           step == [i \in 1..m |-> [x \in Int |-> More(i, x)]]
           Fun(g) == g = [n \in 0..m |-> IF n = 0 THEN 0 ELSE More(n, g[n - 1])]
           w == CHOOSE g : Fun(g)
<1>7. \A i \in 1..m : \A x \in Int : More(i, x) \in Int
  BY <1>3, <1>6
<1>8. step \in [1..m -> [Int -> Int]] /\ \A i \in 1..m : \A x \in Int : step[i][x] = More(i, x)
  <2> HIDE DEF More
  <2>1. QED
    BY <1>7
<1>9. \E g : Fun(g)
  <2> HIDE DEF More, step
  <2>1. PICK b, P : b = 0 /\ P = Int
    OBVIOUS
  <2>2. b \in P /\ step \in [1..m -> [P -> P]] /\ m \in Nat
    BY <1>3, <1>8, <2>1
  <2>3. PICK g \in [0..m -> P] : g[0] = b /\ \A i \in 1..m : g[i] = step[i][g[i - 1]]
    BY <2>2, Recursion, SMTT(20)
  <2>4. \A n \in 0..m : g[n] = IF n = 0 THEN 0 ELSE More(n, g[n - 1])
    <3> SUFFICES ASSUME NEW n \in 1..m PROVE g[n] = More(n, g[n - 1])
      BY <2>1, <2>3
    <3>1. g[n - 1] \in Int
      <4>1. n - 1 \in 0..m
        BY <1>3
      <4>2. QED
        BY <2>1, <4>1
    <3>2. QED
      BY <1>8, <2>3, <3>1
  <2>5. g = [n \in 0..m |-> g[n]]
    OBVIOUS
  <2>6. QED
    BY <2>4, <2>5
<1>10. Fun(w)
  <2> HIDE DEF Fun
  <2>1. QED
    BY <1>9
<1>11. Recent = w[m]
  BY <1>2, <1>6 DEF Recent
<1> HIDE DEF w
<1>12. w[0] = 0 /\ \A n \in 1..m : w[n] = More(n, w[n - 1])
  <2> HIDE DEF More
  <2>1. 0 \in 0..m /\ \A n \in 1..m : n \in 0..m /\ n # 0
    BY <1>3
  <2>2. QED
    BY <1>10, <2>1
<1>13. \A n \in 1..m : w[n] = IF sent[n].time < low THEN 0 ELSE sent[n].orders + w[n - 1]
  BY <1>6, <1>12
<1>14. PICK f \in [0..m -> Int] : Sums(f, m, v) /\ Total(v) = f[m]
  BY <1>3, <1>5, TotalIsSum
<1>15. f[0] = 0 /\ \A n \in 1..m : f[n] = f[n - 1] + v[n]
  BY <1>3, <1>14, SumsStep
<1> DEFINE S == {n \in 0..m : w[n] = f[n] /\ (n # 0 /\ sent[n].time < low => f[n] = 0)}
<1>16. 0 \in S
  BY <1>3, <1>12, <1>15
<1>17. ASSUME NEW n \in 1..m, n - 1 \in S PROVE n \in S
  <2>1. n \in 0..m /\ n - 1 \in 0..m /\ f[n - 1] \in Int /\ f[n] = f[n - 1] + v[n]
    BY <1>3, <1>15
  <2>2. w[n - 1] = f[n - 1] /\ (n - 1 # 0 /\ sent[n - 1].time < low => f[n - 1] = 0)
    BY <1>17
  <2>3. CASE sent[n].time < low
    <3>1. v[n] = 0 /\ w[n] = 0
      BY <1>3, <1>4, <1>13, <2>3
    <3>2. CASE n = 1
      <4>1. f[n - 1] = 0
        BY <1>15, <3>2
      <4>2. f[n] = 0
        BY <2>1, <3>1, <4>1
      <4>3. QED
        BY <2>1, <3>1, <4>2
    <3>3. CASE n # 1
      <4>1. n - 1 \in DOMAIN sent /\ n \in DOMAIN sent /\ n - 1 <= n /\ n - 1 # 0
        BY <1>3, <3>3
      <4>2. sent[n - 1].time <= sent[n].time
        BY <4>1 DEF HistoryInv
      <4>3. sent[n - 1].time < low
        BY <1>3, <2>3, <4>1, <4>2
      <4>4. f[n - 1] = 0
        BY <2>2, <4>1, <4>3
      <4>5. QED
        BY <2>1, <3>1, <4>4
    <3>4. QED
      BY <3>2, <3>3
  <2>4. CASE ~(sent[n].time < low)
    <3>1. v[n] = sent[n].orders /\ w[n] = sent[n].orders + w[n - 1]
      BY <1>3, <1>4, <1>13, <2>4
    <3>2. w[n] = f[n]
      BY <1>3, <2>1, <2>2, <3>1
    <3>3. QED
      BY <2>1, <2>4, <3>2
  <2>5. QED
    BY <2>3, <2>4
<1> HIDE DEF S
<1>18. 0..m \subseteq S
  BY <1>3, <1>16, <1>17, Along
<1>19. w[m] = f[m] /\ f[m] \in Int
  <2>1. m \in 0..m
    BY <1>3
  <2>2. QED
    BY <1>18, <2>1 DEF S
<1>20. QED
  BY <1>1, <1>2, <1>3, <1>5, <1>11, <1>14, <1>19

(* What Trade does to the history.                                         *)
LEMMA TradeHistory ==
    ASSUME Inv, NEW n \in Nat, config.breaker => ~Exceeds(n),
           NEW b, b = [time |-> time, orders |-> n],
           history' = IF config.breaker THEN <<b>> \o history ELSE history,
           sent' = IF config.breaker THEN Append(sent, b) ELSE sent,
           time' = time
    PROVE  /\ history' \in Seq(Batches) /\ sent' \in Seq(Batches)
           /\ HistoryInv' /\ BatchesWithinLimit'
<1>1. TypeOK /\ HistoryInv /\ BatchesWithinLimit
  BY DEF Inv
<1>2. history \in Seq(Batches) /\ sent \in Seq(Batches)
  BY <1>1 DEF TypeOK
<1>3. CASE ~config.breaker
  <2>1. history' = history /\ sent' = sent
    BY <1>3
  <2>2. QED
    BY <1>1, <1>2, <2>1 DEF HistoryInv, BatchesWithinLimit, Counted
<1>4. CASE config.breaker
  <2>1. b \in Batches /\ b.time = time /\ b.orders = n
    BY <1>1, SentTypes DEF Batches
  <2>2. PICK m : m = Len(sent)
    OBVIOUS
  <2>3. PICK h, s : h = <<b>> \o history /\ s = Append(sent, b)
    OBVIOUS
  <2>4. history' = h /\ sent' = s
    BY <1>4, <2>3
  <2>5. /\ s \in Seq(Batches) /\ m \in Nat /\ Len(s) = m + 1 /\ DOMAIN sent = 1..m
        /\ DOMAIN s = 1..m + 1 /\ s[m + 1] = b /\ \A i \in 1..m : s[i] = sent[i]
    BY <1>2, <2>1, <2>2, <2>3, AppendFacts
  <2>6. /\ h \in Seq(Batches) /\ Len(h) = m + 1 /\ DOMAIN h = 1..m + 1 /\ h[1] = b
        /\ \A i \in 2..m + 1 : h[i] = history[i - 1] /\ i - 1 \in DOMAIN history
    <3>1. Len(history) = m
      BY <1>1, <2>2 DEF HistoryInv
    <3>2. <<b>> \in Seq(Batches) /\ Len(<<b>>) = 1 /\ <<b>>[1] = b
      BY <2>1
    <3>3. QED
      BY <1>2, <2>3, <2>5, <3>1, <3>2
  <2>7. /\ \A i \in 1..m : sent[i].time \in Nat /\ sent[i].orders \in Nat /\ sent[i].time <= time
        /\ \A i, j \in 1..m : i <= j => sent[i].time <= sent[j].time
        /\ time \in Nat /\ Period \in Nat
    BY <1>1, <2>5, SentTypes DEF HistoryInv
  <2>8. \A i \in 1..m + 1 : (i \in 1..m /\ s[i] = sent[i]) \/ (i = m + 1 /\ s[i] = b)
    BY <2>5
  <2>9. HistoryInv'
    <3>1. ASSUME NEW i \in DOMAIN h PROVE h[i] = s[(m + 1) + 1 - i]
      <4>1. CASE i = 1
        BY <2>5, <2>6, <4>1
      <4>2. CASE i # 1
        <5>1. i \in 2..m + 1 /\ (m + 1) + 1 - i \in 1..m /\ m + 1 - (i - 1) = (m + 1) + 1 - i
          BY <2>5, <2>6, <4>2, SMTT(20)
        <5>2. h[i] = sent[m + 1 - (i - 1)]
          BY <1>1, <2>2, <2>6, <5>1 DEF HistoryInv
        <5>3. QED
          BY <2>5, <5>1, <5>2
      <4>3. QED
        BY <4>1, <4>2
    <3>2. ASSUME NEW i \in DOMAIN s PROVE s[i].time <= time
      BY <2>1, <2>5, <2>7, <2>8
    <3>3. ASSUME NEW i \in DOMAIN s, NEW j \in DOMAIN s, i <= j
          PROVE  s[i].time <= s[j].time
      <4>1. CASE j = m + 1
        BY <2>1, <2>5, <3>2, <4>1
      <4>2. CASE j # m + 1
        <5>1. i \in 1..m /\ j \in 1..m
          BY <2>5, <3>3, <4>2
        <5>2. QED
          BY <2>5, <2>7, <3>3, <5>1
      <4>3. QED
        BY <4>1, <4>2
    <3>4. QED
      BY <2>4, <2>5, <2>6, <3>1, <3>2, <3>3 DEF HistoryInv
  <2>10. BatchesWithinLimit'
    <3> SUFFICES ASSUME NEW k \in DOMAIN s, s[k].orders <= MaxOrders
                 PROVE  Total(Counted(k)') <= MaxOrders
      BY <2>4 DEF BatchesWithinLimit
    <3>1. Counted(k)' = [j \in 1..k |-> IF s[j].time >= s[k].time - Period
                                        THEN s[j].orders ELSE 0]
      BY <2>4 DEF Counted
    <3>2. CASE k \in 1..m
      <4>1. \A j \in 1..k : s[j] = sent[j]
        BY <2>5, <3>2
      <4>2. s[k] = sent[k] /\ k \in DOMAIN sent
        BY <2>5, <3>2
      <4>3. Counted(k)' = Counted(k)
        BY <3>1, <4>1, <4>2 DEF Counted
      <4>4. Total(Counted(k)) <= MaxOrders
        BY <1>1, <4>2 DEF BatchesWithinLimit
      <4>5. QED
        BY <4>3, <4>4
    <3>3. CASE k = m + 1
      <4>1. PICK v, c : v = Window /\ c = Counted(k)'
        OBVIOUS
      <4>2. /\ v \in Seq(Int) /\ Len(v) = m /\ DOMAIN v = 1..m
            /\ Recent = Total(v) /\ Recent \in Int
        BY <1>1, <2>2, <2>5, <4>1, RecentFacts
      <4>3. \A j \in 1..m : v[j] = IF sent[j].time >= time - Period THEN sent[j].orders ELSE 0
        BY <2>2, <4>1 DEF Window
      <4>4. /\ c = [j \in 1..m + 1 |-> c[j]]
            /\ \A j \in 1..m + 1 : c[j] = IF s[j].time >= time - Period THEN s[j].orders ELSE 0
        BY <2>1, <2>5, <3>1, <3>3, <4>1
      <4>5. \A j \in 1..m : c[j] = v[j] /\ v[j] \in Int
        <5> SUFFICES ASSUME NEW j \in 1..m PROVE c[j] = v[j] /\ v[j] \in Int
          OBVIOUS
        <5>1. j \in 1..m + 1 /\ s[j] = sent[j]
          BY <2>5
        <5>2. c[j] = IF sent[j].time >= time - Period THEN sent[j].orders ELSE 0
          BY <4>4, <5>1
        <5>3. c[j] = v[j]
          BY <4>3, <5>2
        <5>4. v[j] \in Int
          BY <4>2
        <5>5. QED
          BY <5>3, <5>4
      <4>6. c[m + 1] = n
        <5>1. time >= time - Period /\ m + 1 \in 1..m + 1
          BY <2>5, <2>7
        <5>2. QED
          BY <2>1, <2>5, <4>4, <5>1
      <4>7. c \in Seq(Int) /\ Len(c) = m + 1
        <5>1. PICK l \in Nat : l = m + 1
          BY <2>5
        <5>2. \A j \in 1..l : c[j] \in Int
          BY <2>5, <4>5, <4>6, <5>1
        <5>3. c = [j \in 1..l |-> c[j]]
          BY <4>4, <5>1
        <5>4. QED
          BY <5>1, <5>2, <5>3, OfNumbers
      <4>8. Total(c) = Total(v) + n
        BY <4>2, <4>5, <4>6, <4>7, TotalOfMore
      <4>9. n <= MaxOrders /\ MaxOrders \in Nat
        BY <2>1, <2>5, <3>3, TradingAssumption
      <4>10. ~(n + Recent > MaxOrders)
        BY <1>4, <4>9 DEF Exceeds
      <4>11. QED
        BY <4>1, <4>2, <4>8, <4>9, <4>10
    <3>4. QED
      BY <2>5, <3>2, <3>3
  <2>11. QED
    BY <2>4, <2>5, <2>6, <2>9, <2>10
<1>5. QED
  BY <1>3, <1>4

LEMMA TradeInv ==
    ASSUME Inv, NEW sg \in Signals, Trade(sg)
    PROVE  Inv'
<1>1. /\ pc = "trade" /\ pc' = "sync" /\ config' = config /\ time' = time
      /\ prices' = prices /\ positions' = positions /\ mktPrice' = mktPrice
      /\ cash' = cash /\ slippage' = slippage /\ events' = events
  BY DEF Trade, account
<1>2. PICK new, n, b : /\ new = CreateOrders(sg) /\ n = Len(new)
                       /\ b = [time |-> time, orders |-> n]
  OBVIOUS
<1>3. SettledInv'
  BY <1>1 DEF SettledInv
<1>4. CASE orders' = orders /\ history' = history /\ sent' = sent
  <2>1. TypeOK'
    BY <1>1, <1>4 DEF Inv, TypeOK
  <2>2. LimitsInv' /\ OrdersInv'
    BY <1>1, <1>4 DEF Inv, LimitsInv, OrdersInv, Single, AtOnce
  <2>3. NoOverdraft'
    BY <1>1, <1>4 DEF Inv, NoOverdraft
  <2>4. HistoryInv' /\ BatchesWithinLimit'
    BY <1>1, <1>4 DEF Inv, HistoryInv, BatchesWithinLimit, Counted
  <2>5. QED
    BY <1>3, <2>1, <2>2, <2>3, <2>4 DEF Inv
<1>5. CASE /\ config.breaker => ~Exceeds(n)
           /\ orders' = orders \o new
           /\ history' = IF config.breaker THEN <<b>> \o history ELSE history
           /\ sent' = IF config.breaker THEN Append(sent, b) ELSE sent
  <2>1. PICK all : all = orders \o new
    OBVIOUS
  <2>2. orders' = all
    BY <1>5, <2>1
  <2>3. new \in Seq(OrderSpecs) /\ Fits(all)
    BY <1>1, <1>2, <2>1, TradeOrders
  <2>4. n \in Nat
    BY <1>2, <2>3
  <2>5. /\ history' \in Seq(Batches) /\ sent' \in Seq(Batches)
        /\ HistoryInv' /\ BatchesWithinLimit'
    BY <1>1, <1>2, <1>5, <2>4, TradeHistory
  <2>6. TypeOK'
    BY <1>1, <2>2, <2>3, <2>5 DEF Inv, TypeOK, Fits
  <2>7. LimitsInv'
    BY <1>1, <2>2, <2>3 DEF LimitsInv, Fits
  <2>8. OrdersInv'
    BY <1>1, <2>2, <2>3 DEF Inv, OrdersInv, Single, AtOnce, Fits
  <2>9. NoOverdraft'
    <3> SUFFICES ASSUME ~Shorting, AtOnce, config.strategies = 1
                 PROVE  cash' + slippage' >= Total(Opening(orders'))
      BY <1>1 DEF NoOverdraft, AtOnce
    <3>1. cash + slippage >= Total(Opening(all))
      BY <1>1, <1>2, <2>1, TradeOverdraft
    <3>2. QED
      BY <1>1, <2>2, <3>1
  <2>10. QED
    BY <1>3, <2>5, <2>6, <2>7, <2>8, <2>9 DEF Inv
<1>6. QED
  BY <1>2, <1>4, <1>5 DEF Trade

-----------------------------------------------------------------------------
LEMMA InitInv == Init => Inv
<1> SUFFICES ASSUME Init PROVE Inv
  OBVIOUS
<1>1. /\ config \in ConfigSpecs /\ pc = "sync" /\ time = 0
      /\ prices = [a \in Assets |-> {}] /\ positions = [a \in Assets |-> 0]
      /\ mktPrice = [a \in Assets |-> 0] /\ cash = Deposit
      /\ orders = <<>> /\ history = <<>> /\ sent = <<>> /\ slippage = 0 /\ events = 0
  BY TradingAssumption DEF Init
<1>2. TypeOK
  BY <1>1, TradingAssumption DEF TypeOK, Quotes
<1>3. LimitsInv /\ SettledInv /\ OrdersInv
  BY <1>1 DEF LimitsInv, SettledInv, OrdersInv
<1>4. NoOverdraft
  <2>1. PICK e : e = Opening(orders)
    OBVIOUS
  <2>2. e \in Seq(Int) /\ DOMAIN e = {}
    BY <1>1, <2>1 DEF Opening
  <2>3. Total(e) = 0
    BY <2>2, TotalOfNone
  <2>4. QED
    BY <1>1, <2>1, <2>3, TradingAssumption DEF NoOverdraft
<1>5. HistoryInv /\ BatchesWithinLimit
  BY <1>1 DEF HistoryInv, BatchesWithinLimit
<1>6. QED
  BY <1>2, <1>3, <1>4, <1>5 DEF Inv

LEMMA NextInv == Inv /\ [Next]_vars => Inv'
<1> SUFFICES ASSUME Inv, [Next]_vars PROVE Inv'
  OBVIOUS
<1>1. CASE UNCHANGED vars
  <2>1. /\ config' = config /\ pc' = pc /\ time' = time /\ prices' = prices
        /\ positions' = positions /\ mktPrice' = mktPrice /\ cash' = cash
        /\ orders' = orders /\ history' = history /\ sent' = sent
        /\ slippage' = slippage /\ events' = events
    BY <1>1 DEF vars, account
  <2>2. TypeOK'
    BY <2>1 DEF Inv, TypeOK
  <2>3. LimitsInv' /\ SettledInv' /\ OrdersInv'
    BY <2>1 DEF Inv, LimitsInv, SettledInv, OrdersInv, Single, AtOnce
  <2>4. NoOverdraft' /\ HistoryInv' /\ BatchesWithinLimit'
    BY <2>1 DEF Inv, NoOverdraft, HistoryInv, BatchesWithinLimit, Counted
  <2>5. QED
    BY <2>2, <2>3, <2>4 DEF Inv
<1>2. CASE Next
  <2>1. CASE \E t \in time..MaxTime, ps \in EventPrices : Sync(t, ps)
    BY <2>1, SyncInv
  <2>2. CASE \E signals \in Signals : Trade(signals)
    BY <2>2, TradeInv
  <2>3. QED
    BY <1>2, <2>1, <2>2 DEF Next
<1>3. QED
  BY <1>1, <1>2

-----------------------------------------------------------------------------
(* The conjunction Inv is an inductive invariant of a run: the broker's    *)
(* sync and the trader's orders preserve it, for every set of assets, every*)
(* list of prices and events, and every configuration.                     *)
THEOREM Invariance == Spec => []Inv
<1>1. Init => Inv
  BY InitInv
<1>2. Inv /\ [Next]_vars => Inv'
  BY NextInv
<1>3. QED
  BY <1>1, <1>2, PTL DEF Spec

(* The state of a run has its shape, and no order has size 0: flexTrader   *)
(* only creates an order when calcSize does not round the amount to none.  *)
THEOREM TypeCorrect == Spec => []TypeOK
<1>1. Inv => TypeOK
  BY DEF Inv
<1>2. QED
  BY <1>1, Invariance, PTL

(* What FlexTrader buys in a cash account is paid for, whatever the prices,*)
(* the order percentage and the safety margin are: the buying power goes   *)
(* down with each order, and is the cash of an account without short       *)
(* positions.                                                              *)
THEOREM CashIsEnough == Spec => []NoOverdraft
<1>1. Inv => NoOverdraft
  BY DEF Inv
<1>2. QED
  BY <1>1, Invariance, PTL

(* With oneOrderOnly, an order that waits for its price still opens what is*)
(* not there or closes all that is there when it trades, and positions do  *)
(* not go short if they may not.                                           *)
THEOREM OneOrderPerAsset == Spec => []OneOrderAtATime
<1>1. Inv => OneOrderAtATime
  BY DEF Inv, OrdersInv, OneOrderAtATime, Single
<1>2. QED
  BY <1>1, Invariance, PTL

(* Reading its history up to the first entry that is too old, the          *)
(* CircuitBreaker misses no order of the period: batches stay within the   *)
(* limit, for every period and limit.                                      *)
THEOREM BatchesAreLimited == Spec => []BatchesWithinLimit
<1>1. Inv => BatchesWithinLimit
  BY DEF Inv
<1>2. QED
  BY <1>1, Invariance, PTL
=============================================================================
