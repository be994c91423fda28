---------------------- MODULE AggregatorLiveFeedProofs ----------------------
(***************************************************************************)
(* An aggregating live feed is type correct, puts no price into two bars   *)
(* and loses none, whatever the prices, the periods and the interleaving   *)
(* of its timer with play().                                               *)
(*                                                                         *)
(* What the worker has got says little about what comes next: bars may be  *)
(* in the hands of the timer, of play(), or still growing in the history.  *)
(* The invariant follows the prices there. Every set of bars outside of    *)
(* the history is older than the history, asset by asset, and no two of    *)
(* them share a price; so it does not matter who sends first.              *)
(***************************************************************************)
EXTENDS AggregatorLiveFeed, SequenceTheorems, TLAPS

Histories == UNION {[D -> BarSpecs] : D \in SUBSET Assets}
Messages  == [time : Nat, bars : Histories, by : Positions \cup {ByTimer, ByPlay}]
Sent      == handled \o channel.queue

(* The types, and that each coroutine has an event at hand when it should. *)
GivenInv == events \in Feeds /\ remaining \in BOOLEAN /\ continuation \in BOOLEAN

ControlInv ==
    /\ play \in {"new", "receive", "heartbeat", "send", "final", "end", "stopped"}
    /\ timer \in {"idle", "take", "send", "suspended", "delay", "stopped"}
    /\ worker \in {"running", "finished", "timeout", "aborted"}
    /\ failed \in BOOLEAN /\ cancelled \in BOOLEAN
    /\ play = "new" => timer = "idle"
    /\ timer = "idle" => play \in {"new", "stopped"}
    /\ cancelled <=> worker # "running"

TimesInv ==
    /\ published \in Nat /\ seen \in FirstEnd..published
    /\ expiration \in published..published + Period /\ expiration <= LastEnd
    /\ timer \in {"send", "suspended"} => published = expiration

DataInv ==
    /\ c \in Channels(Positions) /\ next \in 1..Len(events) + 1 /\ took \in Seq(Positions)
    /\ history \in Histories /\ channel \in Channels(Messages) /\ handled \in Seq(Messages)
    /\ rest \in Messages /\ bars \in Messages /\ dropped \in Messages
    /\ timer \in {"send", "suspended"} => bars.by = ByTimer /\ bars.time = expiration
    /\ timer \notin {"send", "suspended"} => bars = NoBars
    /\ timer # "stopped" => dropped = NoBars
    /\ play = "send" => rest.by = ByPlay /\ rest.time \in FirstEnd..expiration

StateInv == GivenInv /\ ControlInv /\ TimesInv /\ DataInv

(* play() takes the prices in the order in which they were sent.           *)
OrderInv ==
    /\ \A k \in DOMAIN c.queue : c.queue[k] < next /\ InTimeframe(events[c.queue[k]].time)
    /\ \A k, m \in DOMAIN c.queue : k < m => c.queue[k] < c.queue[m]
    /\ \A n \in ToSet(took) : n < next /\ \A k \in DOMAIN c.queue : n < c.queue[k]

(* The history has all prices of an asset after one of its events.         *)
IsLatest(a, bar) ==
    \E low \in 0..Len(events) :
        /\ \A i, j \in DOMAIN bar.prices : i < j => bar.prices[i] < bar.prices[j]
        /\ ToSet(bar.prices) = {n \in PricesOf(a) : low < n}
        /\ continuation => low \in PricesOf(a) \cup {0}
        /\ bar.from = IF continuation THEN low ELSE 0
        /\ bar.prices = <<>> => bar.from # 0

HistoryInv ==
    \A a \in Assets :
        /\ a \in DOMAIN history => IsLatest(a, history[a])
        /\ a \notin DOMAIN history /\ continuation => PricesOf(a) = {}

(* Two sets of bars without a common price, and one older than another.    *)
Apart(x, y) == \A a \in Assets, n \in Positions : ~(In(a, n, x) /\ In(a, n, y))
Older(x, y) == \A a \in Assets, n, m \in Positions : In(a, n, x) /\ In(a, m, y) => n < m

Whole(x) == /\ \A a \in DOMAIN x : IsAggregate(a, x[a])
            /\ Older(x, history)

(* The timer sends its bars once, before the expiration time goes on.      *)
IsPast(e) ==
    e.by = ByTimer =>
        /\ InTimeframe(e.time) /\ e.time <= expiration
        /\ e.time = expiration => timer \in {"suspended", "stopped"}

InOrder(x, y) == x.by = ByTimer /\ y.by = ByTimer => x.time < y.time

Fits(s) ==
    /\ \A k \in DOMAIN s : Whole(s[k].bars) /\ IsPast(s[k])
    /\ \A i, k \in DOMAIN s : i < k => Apart(s[i].bars, s[k].bars) /\ InOrder(s[i], s[k])

OutInv == Fits(Sent)

(* What the timer and play() have at hand is in nothing that was sent.     *)
Spare(x, s) == Whole(x) /\ \A k \in DOMAIN s : Apart(s[k].bars, x)

HandInv ==
    /\ timer = "send" => Spare(bars.bars, Sent)
    /\ play = "send" => Spare(rest.bars, Sent)
    /\ timer = "send" /\ play = "send" => Apart(bars.bars, rest.bars)

(* Every price is somewhere, as long as nothing has to be given up.        *)
InTime      ==
    Start <= FirstEnd /\ ~AfterTimeframe(expiration) /\ worker \in {"running", "finished"}
Has(a, n, s) == \E k \in DOMAIN s : In(a, n, s[k].bars)

Kept(a, n) == \/ Has(a, n, Sent)
              \/ In(a, n, bars.bars) \/ In(a, n, dropped.bars) \/ In(a, n, history)
              \/ play = "send" /\ In(a, n, rest.bars)

KeptInv ==
    InTime =>
        /\ channel.closed => play = "stopped"
        /\ worker = "finished" => channel.closed /\ channel.queue = <<>>
        /\ \A a \in Assets : \A n \in PricesOf(a) : Kept(a, n)
        /\ timer = "suspended" => \A a \in Assets, n \in Positions :
                                    In(a, n, bars.bars) => Has(a, n, Sent)
        /\ remaining => play # "end"
        /\ remaining /\ play \in {"send", "final", "stopped"} =>
            \A a \in Assets, n \in Positions : ~In(a, n, history)

Inv == StateInv /\ OrderInv /\ HistoryInv /\ OutInv /\ HandInv /\ KeptInv
-----------------------------------------------------------------------------
(* Sequences                                                               *)
LEMMA AppendFacts ==
    ASSUME NEW S, NEW q \in Seq(S), NEW e \in S
    PROVE  /\ Append(q, e) \in Seq(S) /\ Len(q) \in Nat
           /\ DOMAIN q = 1..Len(q) /\ DOMAIN Append(q, e) = 1..Len(q) + 1
           /\ \A k \in 1..Len(q) : Append(q, e)[k] = q[k]
           /\ Append(q, e)[Len(q) + 1] = e
OBVIOUS

LEMMA ConcatFacts ==
    ASSUME NEW S, NEW g \in Seq(S), NEW q \in Seq(S)
    PROVE  /\ g \o q \in Seq(S) /\ Len(g) \in Nat /\ Len(q) \in Nat
           /\ DOMAIN g = 1..Len(g) /\ DOMAIN q = 1..Len(q)
           /\ DOMAIN (g \o q) = 1..Len(g) + Len(q)
           /\ \A k \in 1..Len(g) : (g \o q)[k] = g[k]
           /\ \A k \in 1..Len(q) : (g \o q)[Len(g) + k] = q[k]
OBVIOUS

(* A list and the same list with one more element at its end.              *)
Longer(t, s, e) ==
    /\ DOMAIN t = 1..Len(s) + 1 /\ DOMAIN s = 1..Len(s) /\ Len(s) \in Nat
    /\ \A k \in 1..Len(s) : t[k] = s[k]
    /\ t[Len(s) + 1] = e

(* A list with some elements of another, in the same order.                *)
Within(t, s) ==
    \E f \in [DOMAIN t -> DOMAIN s] :
        /\ \A i, j \in DOMAIN t : i < j => f[i] < f[j]
        /\ \A i \in DOMAIN t : t[i] = s[f[i]]

LEMMA WithinItself ==
    ASSUME NEW s
    PROVE  Within(s, s)
<1> DEFINE f == [i \in DOMAIN s |-> i]
<1>1. f \in [DOMAIN s -> DOMAIN s] /\ \A i \in DOMAIN s : f[i] = i
  OBVIOUS
<1> HIDE DEF f
<1>2. QED
  BY <1>1 DEF Within

LEMMA ConcatLonger ==
    ASSUME NEW S, NEW g \in Seq(S), NEW q \in Seq(S), NEW e \in S,
           NEW s, s = g \o q, NEW t, t = g \o Append(q, e)
    PROVE  Longer(t, s, e)
<1>1. PICK r : r = Append(q, e)
  OBVIOUS
<1>2. /\ r \in Seq(S) /\ Len(q) \in Nat /\ DOMAIN r = 1..Len(q) + 1
      /\ \A k \in 1..Len(q) : r[k] = q[k]
      /\ r[Len(q) + 1] = e
  BY <1>1, AppendFacts
<1>3. /\ s \in Seq(S) /\ Len(g) \in Nat /\ DOMAIN s = 1..Len(g) + Len(q)
      /\ \A k \in 1..Len(g) : s[k] = g[k]
      /\ \A k \in 1..Len(q) : s[Len(g) + k] = q[k]
  BY ConcatFacts
<1>4. /\ DOMAIN t = 1..Len(g) + Len(r) /\ DOMAIN r = 1..Len(r) /\ Len(r) \in Nat
      /\ \A k \in 1..Len(g) : t[k] = g[k]
      /\ \A k \in 1..Len(r) : t[Len(g) + k] = r[k]
  BY <1>1, <1>2, ConcatFacts
<1>5. Len(r) = Len(q) + 1
  BY <1>2, <1>4
<1>6. Len(s) = Len(g) + Len(q)
  <2>1. DOMAIN s = 1..Len(s) /\ Len(s) \in Nat
    BY <1>3
  <2>2. QED
    BY <1>2, <1>3, <2>1
<1>7. ASSUME NEW k \in 1..Len(s) PROVE t[k] = s[k]
  <2>1. CASE k \in 1..Len(g)
    BY <1>3, <1>4, <2>1
  <2>2. CASE k \notin 1..Len(g)
    <3>1. PICK m \in 1..Len(q) : k = Len(g) + m
      <4>1. k - Len(g) \in 1..Len(q) /\ k = Len(g) + (k - Len(g))
        BY <1>2, <1>3, <1>6, <2>2
      <4>2. QED
        BY <4>1
    <3>2. m \in 1..Len(r)
      BY <1>2, <1>5
    <3>3. t[k] = r[m] /\ s[k] = q[m] /\ r[m] = q[m]
      BY <1>2, <1>3, <1>4, <3>1, <3>2
    <3>4. QED
      BY <3>3
  <2>3. QED
    BY <2>1, <2>2
<1>8. t[Len(s) + 1] = e
  <2>1. Len(q) + 1 \in 1..Len(r) /\ Len(s) + 1 = Len(g) + (Len(q) + 1)
    BY <1>2, <1>3, <1>5, <1>6
  <2>2. QED
    BY <1>2, <1>4, <2>1
<1>9. DOMAIN t = 1..Len(s) + 1 /\ DOMAIN s = 1..Len(s) /\ Len(s) \in Nat
  BY <1>2, <1>3, <1>4, <1>5, <1>6
<1>10. QED
  BY <1>7, <1>8, <1>9 DEF Longer

LEMMA ConcatWithin ==
    ASSUME NEW S, NEW g \in Seq(S), NEW q \in Seq(S), NEW r \in Seq(S), Within(r, q),
           NEW s, s = g \o q, NEW t, t = g \o r
    PROVE  Within(t, s)
<1>1. PICK f \in [DOMAIN r -> DOMAIN q] :
        /\ \A i, j \in DOMAIN r : i < j => f[i] < f[j]
        /\ \A i \in DOMAIN r : r[i] = q[f[i]]
  BY DEF Within
<1>2. /\ Len(g) \in Nat /\ Len(q) \in Nat /\ DOMAIN q = 1..Len(q) /\ DOMAIN s = 1..Len(g) + Len(q)
      /\ \A k \in 1..Len(g) : s[k] = g[k]
      /\ \A k \in 1..Len(q) : s[Len(g) + k] = q[k]
  BY ConcatFacts
<1>3. /\ Len(r) \in Nat /\ DOMAIN r = 1..Len(r) /\ DOMAIN t = 1..Len(g) + Len(r)
      /\ \A k \in 1..Len(g) : t[k] = g[k]
      /\ \A k \in 1..Len(r) : t[Len(g) + k] = r[k]
  BY ConcatFacts
<1> DEFINE h == [i \in DOMAIN t |-> IF i <= Len(g) THEN i ELSE Len(g) + f[i - Len(g)]]
<1>4. \A i \in DOMAIN t : \/ i \in 1..Len(g) /\ h[i] = i
                          \/ /\ i - Len(g) \in DOMAIN r /\ h[i] = Len(g) + f[i - Len(g)]
                             /\ i = Len(g) + (i - Len(g)) /\ f[i - Len(g)] \in 1..Len(q)
  BY <1>2, <1>3
<1>5. \A i \in DOMAIN t : h[i] \in DOMAIN s
  BY <1>2, <1>4
<1>6. h \in [DOMAIN t -> DOMAIN s]
  BY <1>5
<1> HIDE DEF h
<1>7. ASSUME NEW i \in DOMAIN t, NEW j \in DOMAIN t, i < j PROVE h[i] < h[j]
  <2>1. CASE i \in 1..Len(g) /\ h[i] = i /\ j \in 1..Len(g) /\ h[j] = j
    BY <1>7, <2>1
  <2>2. CASE i \in 1..Len(g) /\ h[i] = i /\ ~(j \in 1..Len(g) /\ h[j] = j)
    <3>1. h[j] = Len(g) + f[j - Len(g)] /\ f[j - Len(g)] \in 1..Len(q)
      BY <1>4, <2>2
    <3>2. PICK x \in 1..Len(q) : h[j] = Len(g) + x
      BY <3>1
    <3>3. QED
      BY <1>2, <2>2, <3>2
  <2>3. CASE ~(i \in 1..Len(g) /\ h[i] = i)
    <3>1. PICK x \in DOMAIN r : /\ x = i - Len(g) /\ h[i] = Len(g) + f[x]
                                /\ i = Len(g) + x /\ f[x] \in 1..Len(q)
      BY <1>4, <2>3
    <3>2. j \notin 1..Len(g)
      BY <1>2, <1>3, <1>7, <3>1
    <3>3. PICK y \in DOMAIN r : /\ y = j - Len(g) /\ h[j] = Len(g) + f[y]
                                /\ j = Len(g) + y /\ f[y] \in 1..Len(q)
      BY <1>4, <3>2
    <3>4. x \in Nat /\ y \in Nat /\ Len(g) \in Nat
      BY <1>2, <1>3
    <3>5. i = Len(g) + x /\ j = Len(g) + y /\ i < j
      BY <1>7, <3>1, <3>3
    <3>6. x < y
      BY <3>4, <3>5
    <3>7. f[x] < f[y]
      BY <1>1, <3>6
    <3>8. QED
      BY <1>2, <3>1, <3>3, <3>7
  <2>4. QED
    BY <2>1, <2>2, <2>3
<1>8. ASSUME NEW i \in DOMAIN t PROVE t[i] = s[h[i]]
  <2>1. CASE i \in 1..Len(g) /\ h[i] = i
    BY <1>2, <1>3, <2>1
  <2>2. CASE ~(i \in 1..Len(g) /\ h[i] = i)
    <3>1. PICK x \in DOMAIN r : h[i] = Len(g) + f[x] /\ i = Len(g) + x /\ f[x] \in 1..Len(q)
      BY <1>4, <2>2
    <3>2. t[i] = r[x] /\ s[h[i]] = q[f[x]] /\ r[x] = q[f[x]]
      BY <1>1, <1>2, <1>3, <3>1
    <3>3. QED
      BY <3>2
  <2>3. QED
    BY <2>1, <2>2
<1>9. QED
  BY <1>6, <1>7, <1>8 DEF Within

(* Where the elements of two lists are in the two of them together.        *)
Together(s, g, q) ==
    /\ \A k \in DOMAIN g : k \in DOMAIN s /\ s[k] = g[k]
    /\ \A k \in DOMAIN q : \E m \in DOMAIN s : s[m] = q[k]
    /\ \A m \in DOMAIN s : \/ \E k \in DOMAIN g : s[m] = g[k]
                           \/ \E k \in DOMAIN q : s[m] = q[k]

LEMMA ConcatElements ==
    ASSUME NEW S, NEW g \in Seq(S), NEW q \in Seq(S), NEW s, s = g \o q
    PROVE  Together(s, g, q)
<1>1. /\ Len(g) \in Nat /\ Len(q) \in Nat /\ DOMAIN q = 1..Len(q) /\ DOMAIN s = 1..Len(g) + Len(q)
      /\ DOMAIN g = 1..Len(g)
      /\ \A k \in 1..Len(g) : s[k] = g[k]
      /\ \A k \in 1..Len(q) : s[Len(g) + k] = q[k]
  BY ConcatFacts
<1>2. \A k \in DOMAIN g : k \in DOMAIN s /\ s[k] = g[k]
  BY <1>1
<1>3. \A k \in DOMAIN q : Len(g) + k \in DOMAIN s /\ s[Len(g) + k] = q[k]
  BY <1>1
<1>4. ASSUME NEW m \in DOMAIN s
      PROVE  \/ \E k \in DOMAIN g : s[m] = g[k]
             \/ \E k \in DOMAIN q : s[m] = q[k]
  <2>1. CASE m \in 1..Len(g)
    BY <1>1, <2>1
  <2>2. CASE m \notin 1..Len(g)
    <3>1. m - Len(g) \in 1..Len(q) /\ m = Len(g) + (m - Len(g))
      BY <1>1, <2>2
    <3>2. PICK k \in 1..Len(q) : m = Len(g) + k
      BY <3>1
    <3>3. s[m] = q[k]
      BY <1>1, <3>2
    <3>4. QED
      BY <1>1, <3>3
  <2>3. QED
    BY <2>1, <2>2
<1>5. QED
  BY <1>2, <1>3, <1>4 DEF Together

(* The worker moves the head of the queue to the end of what it has got.   *)
LEMMA TakeFacts ==
    ASSUME NEW S, NEW q \in Seq(S), q # <<>>, NEW g \in Seq(S),
           NEW h, h = Append(g, Head(q)), NEW t, t = Tail(q)
    PROVE  h \in Seq(S) /\ t \in Seq(S) /\ h \o t = g \o q
<1>1. /\ Head(q) \in S /\ Head(q) = q[1] /\ t \in Seq(S) /\ h \in Seq(S)
      /\ Len(q) \in Nat /\ Len(q) >= 1 /\ Len(t) = Len(q) - 1
      /\ \A i \in 1..Len(q) - 1 : t[i] = q[i + 1]
      /\ Len(g) \in Nat /\ DOMAIN g = 1..Len(g)
  OBVIOUS
<1>2. /\ Len(h) = Len(g) + 1 /\ h[Len(g) + 1] = q[1]
      /\ \A i \in 1..Len(g) : h[i] = g[i]
  BY <1>1, AppendFacts
<1>3. PICK a, b : a = h \o t /\ b = g \o q
  OBVIOUS
<1>4. /\ a \in Seq(S) /\ DOMAIN a = 1..Len(g) + 1 + (Len(q) - 1)
      /\ \A i \in 1..Len(g) + 1 : a[i] = h[i]
      /\ \A i \in 1..Len(q) - 1 : a[Len(g) + 1 + i] = t[i]
  <2>1. /\ a \in Seq(S) /\ DOMAIN a = 1..Len(h) + Len(t)
        /\ \A i \in 1..Len(h) : a[i] = h[i]
        /\ \A i \in 1..Len(t) : a[Len(h) + i] = t[i]
    BY <1>1, <1>3, ConcatFacts
  <2>2. QED
    BY <1>1, <1>2, <2>1
<1>5. /\ b \in Seq(S) /\ DOMAIN b = 1..Len(g) + Len(q)
      /\ \A i \in 1..Len(g) : b[i] = g[i]
      /\ \A i \in 1..Len(q) : b[Len(g) + i] = q[i]
  BY <1>1, <1>3, ConcatFacts
<1>6. DOMAIN a = DOMAIN b
  <2>1. Len(g) + 1 + (Len(q) - 1) = Len(g) + Len(q)
    BY <1>1
  <2>2. QED
    BY <1>4, <1>5, <2>1
<1>7. ASSUME NEW i \in DOMAIN b PROVE a[i] = b[i]
  <2>1. CASE i \in 1..Len(g)
    <3>1. i \in 1..Len(g) + 1
      BY <1>1, <2>1
    <3>2. QED
      BY <1>2, <1>4, <1>5, <2>1, <3>1
  <2>2. CASE i = Len(g) + 1
    <3>1. i \in 1..Len(g) + 1 /\ 1 \in 1..Len(q)
      BY <1>1, <2>2
    <3>2. QED
      BY <1>2, <1>4, <1>5, <2>2, <3>1
  <2>3. CASE i > Len(g) + 1
    <3>1. PICK j \in 1..Len(q) - 1 : i = Len(g) + 1 + j
      <4>1. i - (Len(g) + 1) \in 1..Len(q) - 1 /\ i = Len(g) + 1 + (i - (Len(g) + 1))
        BY <1>1, <1>5, <2>3
      <4>2. QED
        BY <4>1
    <3>2. j + 1 \in 1..Len(q) /\ i = Len(g) + (j + 1)
      BY <1>1, <3>1
    <3>3. a[i] = t[j] /\ b[i] = q[j + 1]
      BY <1>4, <1>5, <3>1, <3>2
    <3>4. QED
      BY <1>1, <3>1, <3>3
  <2>4. QED
    BY <1>1, <1>5, <2>1, <2>2, <2>3
<1>8. a = b
  <2>1. a = [i \in DOMAIN a |-> a[i]] /\ b = [i \in DOMAIN b |-> b[i]]
    BY <1>4, <1>5
  <2>2. QED
    BY <1>6, <1>7, <2>1
<1>9. QED
  BY <1>1, <1>3, <1>8

-----------------------------------------------------------------------------
(* The channel                                                             *)
LEMMA TimeframeFacts ==
    ASSUME NEW t \in Nat
    PROVE  InTimeframe(t) <=> Start <= t /\ ~AfterTimeframe(t)
BY ChannelAssumption DEF InTimeframe, AfterTimeframe

LEMMA SendFacts ==
    ASSUME NEW S, NEW ch \in Channels(S), NEW e \in S, NEW t \in Nat, ~SendFails(ch, t),
           NEW n, n = Send(ch, e, t)
    PROVE  /\ n \in Channels(S)
           /\ \/ /\ n.queue = Append(ch.queue, e) /\ InTimeframe(t)
                 /\ n.closed <=> ch.closed
              \/ /\ n.queue = ch.queue /\ ~InTimeframe(t)
                 /\ n.closed <=> (ch.closed \/ AfterTimeframe(t))
<1>1. CASE InTimeframe(t)
  <2>1. ~ch.closed /\ ~AfterTimeframe(t)
    BY <1>1, TimeframeFacts DEF SendFails
  <2> DEFINE q == Append(ch.queue, e)
  <2>2. q \in Seq(S)
    BY DEF Channels
  <2>3. n = [ch EXCEPT !.queue = q]
    BY <1>1, <2>1 DEF Send
  <2> HIDE DEF q
  <2>4. n \in Channels(S) /\ n.queue = q /\ n.closed = ch.closed
    BY <2>2, <2>3 DEF Channels
  <2>5. QED
    BY <1>1, <2>1, <2>4 DEF q
<1>2. CASE ~InTimeframe(t) /\ AfterTimeframe(t) /\ ~ch.closed
  <2>1. n = [ch EXCEPT !.closed = TRUE, !.locked = FALSE]
    BY <1>2 DEF Send, Close
  <2>2. n \in Channels(S) /\ n.queue = ch.queue /\ n.closed
    BY <2>1 DEF Channels
  <2>3. QED
    BY <1>2, <2>2
<1>3. CASE ~InTimeframe(t) /\ (ch.closed \/ ~AfterTimeframe(t))
  <2>1. n = ch /\ (ch.closed \/ ~AfterTimeframe(t))
    BY <1>3 DEF Send, Close
  <2>2. n.closed <=> (ch.closed \/ AfterTimeframe(t))
    BY <2>1 DEF Channels
  <2>3. QED
    BY <1>3, <2>1, <2>2
<1>4. QED
  BY <1>1, <1>2, <1>3

LEMMA CloseFacts ==
    ASSUME NEW S, NEW ch \in Channels(S), NEW n, n = Close(ch)
    PROVE  n \in Channels(S) /\ n.queue = ch.queue /\ n.closed
BY DEF Close, Channels

LEMMA ReceiveFacts ==
    ASSUME NEW S, NEW ch \in Channels(S), CanReceive(ch), NEW n, n = Receive(ch)
    PROVE  /\ n \in Channels(S) /\ n.closed = ch.closed /\ n.queue = Tail(ch.queue)
           /\ Head(ch.queue) \in S /\ Head(ch.queue) = ch.queue[1] /\ 1 \in DOMAIN ch.queue
           /\ \A k \in DOMAIN n.queue :
                k + 1 \in DOMAIN ch.queue /\ n.queue[k] = ch.queue[k + 1] /\ k + 1 > 1 /\ k \in Nat
<1>1. ch.queue \in Seq(S) /\ ch.queue # <<>>
  BY DEF Channels, CanReceive
<1>2. n = [ch EXCEPT !.queue = Tail(ch.queue)]
  BY DEF Receive
<1>3. n.queue = Tail(ch.queue) /\ n.closed = ch.closed
  BY <1>2 DEF Channels
<1>4. Tail(ch.queue) \in Seq(S)
  BY <1>1
<1>5. n \in Channels(S)
  BY <1>2, <1>4 DEF Channels
<1>6. QED
  BY <1>1, <1>3, <1>5

(* A suspended sender that takes its event back changes nothing else.      *)
WithoutOne(n, ch, e, S) ==
    /\ n \in Channels(S) /\ n.closed = ch.closed /\ Within(n.queue, ch.queue)
    /\ \A k \in DOMAIN ch.queue :
            ch.queue[k] = e \/ \E m \in DOMAIN n.queue : n.queue[m] = ch.queue[k]

LEMMA WithdrawFacts ==
    ASSUME NEW S, NEW ch \in Channels(S), NEW e, ~Buffered(ch, e), NEW n, n = Withdraw(ch, e)
    PROVE  WithoutOne(n, ch, e, S)
<1>1. PICK q : q = ch.queue
  OBVIOUS
<1>2. q \in Seq(S) /\ Len(q) \in Nat /\ DOMAIN q = 1..Len(q)
  BY <1>1 DEF Channels
<1>3. \E i \in DOMAIN q : q[i] = e
  BY <1>1, <1>2, ChannelAssumption DEF Buffered
<1>4. PICK p : p = CHOOSE i \in DOMAIN q : q[i] = e
  OBVIOUS
<1>5. p \in 1..Len(q) /\ q[p] = e
  BY <1>2, <1>3, <1>4
<1>6. PICK u, v : u = SubSeq(q, 1, p - 1) /\ v = SubSeq(q, p + 1, Len(q))
  OBVIOUS
<1>7. /\ u \in Seq(S) /\ Len(u) = p - 1 /\ \A k \in 1..p - 1 : u[k] = q[k]
      /\ v \in Seq(S) /\ Len(v) = Len(q) - p /\ \A k \in 1..Len(q) - p : v[k] = q[p + k]
  <2>1. u \in Seq(S) /\ Len(u) = p - 1 /\ \A k \in 1..p - 1 : u[k] = q[k]
    BY <1>2, <1>5, <1>6
  <2>2. v \in Seq(S)
    BY <1>2, <1>5, <1>6
  <2>3. PICK m : m = p + 1 /\ m \in 1..Len(q) + 1 /\ Len(q) \in m - 1..Len(q) /\ m \in Nat
    BY <1>2, <1>5
  <2>4. Len(v) = Len(q) - m + 1 /\ \A k \in 1..Len(q) - m + 1 : v[k] = q[m + k - 1]
    BY <1>2, <1>6, <2>3, SubSeqProperties
  <2>5. QED
    BY <1>2, <1>5, <2>1, <2>2, <2>3, <2>4
<1>8. PICK r : r = u \o v
  OBVIOUS
<1>9. n = [ch EXCEPT !.queue = r]
  BY <1>1, <1>4, <1>6, <1>8 DEF Withdraw
<1>10. /\ r \in Seq(S) /\ DOMAIN r = 1..Len(q) - 1
       /\ \A k \in 1..p - 1 : r[k] = q[k]
       /\ \A k \in 1..Len(q) - p : r[p - 1 + k] = q[p + k]
  <2>1. /\ r \in Seq(S) /\ DOMAIN r = 1..Len(u) + Len(v)
        /\ \A k \in 1..Len(u) : r[k] = u[k]
        /\ \A k \in 1..Len(v) : r[Len(u) + k] = v[k]
    BY <1>7, <1>8, ConcatFacts
  <2>2. Len(u) + Len(v) = Len(q) - 1
    BY <1>2, <1>5, <1>7
  <2>3. QED
    BY <1>7, <2>1, <2>2
<1>11. n \in Channels(S) /\ n.queue = r /\ n.closed = ch.closed
  BY <1>9, <1>10 DEF Channels
<1>12. ASSUME NEW i \in DOMAIN r PROVE r[i] = q[IF i < p THEN i ELSE i + 1]
  <2>1. CASE i < p
    <3>1. i \in 1..p - 1
      BY <1>2, <1>5, <1>10, <2>1
    <3>2. QED
      BY <1>10, <2>1, <3>1
  <2>2. CASE ~(i < p)
    <3>1. PICK k \in 1..Len(q) - p : i = p - 1 + k
      <4>1. i - (p - 1) \in 1..Len(q) - p /\ i = p - 1 + (i - (p - 1))
        BY <1>2, <1>5, <1>10, <2>2
      <4>2. QED
        BY <4>1
    <3>2. i + 1 = p + k
      BY <1>5, <3>1
    <3>3. QED
      BY <1>10, <2>2, <3>1, <3>2
  <2>3. QED
    BY <2>1, <2>2
<1>13. Within(r, q)
  <2> DEFINE f == [i \in DOMAIN r |-> IF i < p THEN i ELSE i + 1]
  <2>1. f \in [DOMAIN r -> DOMAIN q]
    BY <1>2, <1>5, <1>10
  <2>2. \A i, j \in DOMAIN r : i < j => f[i] < f[j]
    BY <1>2, <1>5, <1>10
  <2>3. \A i \in DOMAIN r : f[i] = IF i < p THEN i ELSE i + 1
    OBVIOUS
  <2> HIDE DEF f
  <2>4. \A i \in DOMAIN r : r[i] = q[f[i]]
    BY <1>12, <2>3
  <2>5. QED
    BY <2>1, <2>2, <2>4 DEF Within
<1>14. ASSUME NEW k \in DOMAIN q, q[k] # e PROVE \E m \in DOMAIN r : r[m] = q[k]
  <2>1. CASE k < p
    <3>1. k \in 1..p - 1 /\ k \in DOMAIN r
      BY <1>2, <1>5, <1>10, <2>1
    <3>2. QED
      BY <1>10, <3>1
  <2>2. CASE ~(k < p)
    <3>1. k # p
      BY <1>5, <1>14
    <3>2. k - 1 \in DOMAIN r /\ ~(k - 1 < p) /\ (k - 1) + 1 = k
      BY <1>2, <1>5, <1>10, <2>2, <3>1
    <3>3. PICK m \in DOMAIN r : ~(m < p) /\ m + 1 = k
      BY <3>2
    <3>4. QED
      BY <1>12, <3>3
  <2>3. QED
    BY <2>1, <2>2
<1>15. QED
  BY <1>1, <1>11, <1>13, <1>14 DEF WithoutOne

LEMMA TakenBackFacts ==
    ASSUME DataInv, NEW e \in Messages, NEW n, n = TakenBack(e)
    PROVE  /\ WithoutOne(n, channel, e, Messages)
           /\ Buffered(channel, e) => n = channel
           /\ channel.queue = <<>> => Buffered(channel, e)
<1>1. channel \in Channels(Messages)
  BY DEF DataInv
<1>2. channel.queue = <<>> => Buffered(channel, e)
  BY ChannelAssumption DEF Buffered
<1>3. CASE Buffered(channel, e)
  <2>1. n = channel
    BY <1>3 DEF TakenBack
  <2>2. WithoutOne(channel, channel, e, Messages)
    BY <1>1, WithinItself DEF WithoutOne
  <2>3. QED
    BY <1>2, <2>1, <2>2
<1>4. CASE ~Buffered(channel, e)
  <2>1. n = Withdraw(channel, e)
    BY <1>4 DEF TakenBack
  <2>2. QED
    BY <1>1, <1>2, <1>4, <2>1, WithdrawFacts
<1>5. QED
  BY <1>3, <1>4

-----------------------------------------------------------------------------
(* Bars                                                                    *)
LEMMA GivenFacts ==
    ASSUME GivenInv
    PROVE  /\ Len(events) \in Nat /\ Positions = 1..Len(events)
           /\ \A n \in Positions :
               n \in Nat \ {0} /\ events[n].time \in Nat /\ events[n].items \subseteq Assets
<1>1. events \in Seq([time : Nat, items : SUBSET Assets])
  BY AggregatorLiveAssumption DEF GivenInv
<1>2. Len(events) \in Nat /\ Positions = 1..Len(events)
  BY <1>1 DEF Positions
<1>3. PICK S : S = [time : Nat, items : SUBSET Assets] /\ events \in Seq(S)
  BY <1>1
<1>4. \A n \in Positions : events[n] \in S
  <2>1. events \in Seq(S)
    BY <1>3
  <2>2. QED
    BY <2>1 DEF Positions
<1>5. \A e \in S : e.time \in Nat /\ e.items \subseteq Assets
  BY <1>3
<1>6. QED
  BY <1>2, <1>4, <1>5

LEMMA HistoryFacts ==
    ASSUME NEW x \in Histories
    PROVE  /\ DOMAIN x \subseteq Assets
           /\ \A a \in DOMAIN x :
                /\ x[a].from \in Positions \cup {0} /\ x[a].prices \in Seq(Positions)
                /\ ToSet(x[a].prices) \subseteq Positions
           /\ IsHistory(x)
<1>1. PICK D \in SUBSET Assets : x \in [D -> BarSpecs]
  BY DEF Histories
<1>2. DOMAIN x \subseteq Assets /\ \A a \in DOMAIN x : x[a] \in BarSpecs
  BY <1>1
<1>3. \A a \in DOMAIN x : x[a].from \in Positions \cup {0} /\ x[a].prices \in Seq(Positions)
  BY <1>2 DEF BarSpecs
<1>4. ASSUME NEW s \in Seq(Positions) PROVE ToSet(s) \subseteq Positions
  BY DEF ToSet
<1>5. IsHistory(x)
  BY <1>1 DEF IsHistory
<1>6. QED
  BY <1>2, <1>3, <1>4, <1>5

LEMMA NoHistoryFacts ==
    /\ NoHistory \in Histories /\ NoBars \in Messages
    /\ \A a \in Assets, n \in Positions : ~In(a, n, NoHistory) /\ ~In(a, n, NoBars.bars)
    /\ DOMAIN NoHistory = {}
<1>1. PICK h : h = NoHistory
  OBVIOUS
<1>2. DOMAIN h = {} /\ h = [a \in {} |-> 0]
  BY <1>1 DEF NoHistory
<1>3. h \in [{} -> BarSpecs]
  BY <1>2
<1>4. NoHistory \in Histories
  BY <1>1, <1>3 DEF Histories
<1>5. NoBars \in Messages /\ NoBars.bars = NoHistory
  BY <1>4 DEF NoBars, Messages
<1>6. QED
  BY <1>1, <1>2, <1>4, <1>5 DEF In

LEMMA EventFacts ==
    ASSUME NEW e \in Messages
    PROVE  e.time \in Nat /\ e.bars \in Histories /\ e.by \in Positions \cup {ByTimer, ByPlay}
           /\ IsEvent(e)
BY HistoryFacts DEF Messages, IsEvent

LEMMA ToSetFacts ==
    ASSUME NEW S, NEW s \in Seq(S)
    PROVE  /\ \A n : n \in ToSet(s) <=> \E k \in DOMAIN s : s[k] = n
           /\ \A n \in ToSet(s) : n \in S
           /\ \A e \in S : \A n : n \in ToSet(Append(s, e)) <=> n \in ToSet(s) \/ n = e
<1>1. \A n : n \in ToSet(s) <=> \E k \in DOMAIN s : s[k] = n
  BY DEF ToSet
<1>2. \A n \in ToSet(s) : n \in S
  BY <1>1
<1>3. ASSUME NEW e \in S, NEW n PROVE n \in ToSet(Append(s, e)) <=> n \in ToSet(s) \/ n = e
  <2>1. PICK t : t = Append(s, e)
    OBVIOUS
  <2>2. /\ DOMAIN s = 1..Len(s) /\ DOMAIN t = 1..Len(s) + 1 /\ Len(s) \in Nat
        /\ \A k \in 1..Len(s) : t[k] = s[k]
        /\ t[Len(s) + 1] = e
    BY <2>1, AppendFacts
  <2>3. n \in ToSet(t) <=> \E k \in DOMAIN t : t[k] = n
    BY DEF ToSet
  <2>4. Len(s) + 1 \in DOMAIN t /\ \A k \in DOMAIN t : k \in DOMAIN s \/ k = Len(s) + 1
    BY <2>2
  <2>5. QED
    BY <1>1, <2>1, <2>2, <2>3, <2>4
<1>4. QED
  BY <1>1, <1>2, <1>3

LEMMA PriceFacts ==
    ASSUME GivenInv, DataInv, NEW a
    PROVE  \A n \in PricesOf(a) : n \in Positions /\ n \in Nat \ {0}
<1>1. took \in Seq(Positions)
  BY DEF DataInv
<1>2. \A n \in ToSet(took) : n \in Positions
  BY <1>1, ToSetFacts
<1>3. QED
  BY <1>2, GivenFacts DEF PricesOf

(* The last price of a bar that goes up to now.                            *)
LEMMA LatestFacts ==
    ASSUME GivenInv, DataInv, NEW a \in Assets, NEW bar \in BarSpecs, IsLatest(a, bar)
    PROVE  /\ IsAggregate(a, bar)
           /\ LastPrice(bar) \in Positions \cup {0}
           /\ continuation => /\ LastPrice(bar) \in PricesOf(a)
                              /\ \A n \in PricesOf(a) : n <= LastPrice(bar)
<1>1. PICK low \in 0..Len(events) :
        /\ \A i, j \in DOMAIN bar.prices : i < j => bar.prices[i] < bar.prices[j]
        /\ ToSet(bar.prices) = {n \in PricesOf(a) : low < n}
        /\ continuation => low \in PricesOf(a) \cup {0}
        /\ bar.from = IF continuation THEN low ELSE 0
        /\ bar.prices = <<>> => bar.from # 0
  BY DEF IsLatest
<1>2. PICK p : p = bar.prices
  OBVIOUS
<1>3. p \in Seq(Positions) /\ bar.from \in Positions \cup {0}
  BY <1>2 DEF BarSpecs
<1>4. low \in Nat /\ \A n \in PricesOf(a) : n \in Positions /\ n \in Nat \ {0}
  BY GivenFacts, PriceFacts
<1>5. SUFFICES ASSUME NEW high \in PricesOf(a), LastPrice(bar) \in Positions \cup {0},
                      continuation => LastPrice(bar) = high,
                      \A n \in PricesOf(a) : low < n => n <= high,
                      low <= high
               PROVE  IsAggregate(a, bar) /\ \A n \in PricesOf(a) : n <= high
  <2>1. CASE p = <<>>
    <3>1. continuation /\ low = bar.from /\ low \in PricesOf(a) /\ LastPrice(bar) = low
      BY <1>1, <1>2, <2>1 DEF LastPrice, GivenInv
    <3>2. \A n \in PricesOf(a) : ~(low < n)
      <4>1. \A n : n \notin ToSet(p)
        <5>1. Len(p) = 0 /\ DOMAIN p = 1..0
          BY <1>3, <2>1
        <5>2. \A k : k \notin DOMAIN p
          BY <5>1
        <5>3. QED
          BY <1>3, <5>2, ToSetFacts
      <4>2. QED
        BY <1>1, <1>2, <4>1
    <3>3. low \in Positions /\ \A n \in PricesOf(a) : low < n => n <= low
      BY <1>4, <3>1, <3>2
    <3>4. QED
      BY <1>4, <1>5, <3>1, <3>3
  <2>2. CASE p # <<>>
    <3>1. PICK m : m = Len(p)
      OBVIOUS
    <3>2. m \in DOMAIN p /\ \A i \in DOMAIN p : (i < m \/ i = m) /\ p[i] \in Positions
      BY <1>3, <2>2, <3>1
    <3>3. p[m] \in Positions /\ LastPrice(bar) = p[m]
      BY <1>2, <2>2, <3>1, <3>2 DEF LastPrice, Last
    <3>4. p[m] \in ToSet(p)
      BY <1>3, <3>2, ToSetFacts
    <3>5. p[m] \in PricesOf(a) /\ low < p[m]
      BY <1>1, <1>2, <3>4
    <3>6. ASSUME NEW n \in PricesOf(a), low < n PROVE n <= p[m]
      <4>1. n \in ToSet(p)
        BY <1>1, <1>2, <3>6
      <4>2. PICK i \in DOMAIN p : p[i] = n
        BY <1>3, <4>1, ToSetFacts
      <4>3. i = m \/ p[i] < p[m]
        BY <1>1, <1>2, <3>2
      <4>4. QED
        BY <1>4, <3>5, <4>2, <4>3
    <3>7. QED
      BY <1>4, <1>5, <3>3, <3>5, <3>6
  <2>3. QED
    BY <2>1, <2>2
<1>6. {n \in PricesOf(a) : low < n} = {n \in PricesOf(a) : low < n /\ n <= high}
  BY <1>5
<1>7. \A n \in PricesOf(a) : n <= high
  BY <1>4, <1>5
<1>8. IsAggregate(a, bar)
  BY <1>1, <1>6 DEF IsAggregate
<1>9. QED
  BY <1>7, <1>8
(* What send() leaves in the history has no prices.                        *)
LEMMA ContinuedFacts ==
    ASSUME GivenInv, DataInv, HistoryInv
    PROVE  /\ Continued \in Histories /\ \A a, n : ~In(a, n, Continued)
           /\ \A a \in DOMAIN history :
               history[a] \in BarSpecs /\ a \in Assets /\ IsLatest(a, history[a])
<1>1. history \in Histories
  BY DEF DataInv
<1>2. \A a \in DOMAIN history : history[a] \in BarSpecs /\ a \in Assets /\ IsLatest(a, history[a])
  BY <1>1 DEF HistoryInv, Histories
<1>3. CASE ~continuation
  <2>1. Continued = NoHistory
    BY <1>3 DEF Continued
  <2>2. DOMAIN NoHistory = {} /\ NoHistory \in Histories
    BY NoHistoryFacts
  <2>3. QED
    BY <1>2, <2>1, <2>2 DEF In
<1>4. CASE continuation
  <2>1. PICK x : x = Continued
    OBVIOUS
  <2>2. x = [a \in DOMAIN history |-> [from |-> LastPrice(history[a]), prices |-> <<>>]]
    BY <1>4, <2>1 DEF Continued
  <2>3. \A a \in DOMAIN history : LastPrice(history[a]) \in Positions \cup {0}
    BY <1>2, LatestFacts
  <2>4. PICK s : s = <<>>
    OBVIOUS
  <2>5. s \in Seq(Positions) /\ ToSet(s) = {}
    BY <2>4 DEF ToSet
  <2>6. x \in [DOMAIN history -> BarSpecs]
    BY <2>2, <2>3, <2>4, <2>5 DEF BarSpecs
  <2>7. DOMAIN history \in SUBSET Assets
    BY <1>2
  <2>8. x \in Histories
    BY <2>6, <2>7 DEF Histories
  <2>9. \A a, n : ~In(a, n, x)
    BY <2>2, <2>4, <2>5 DEF In
  <2>10. QED
    BY <1>2, <2>1, <2>8, <2>9
<1>5. QED
  BY <1>3, <1>4

LEMMA ContinuedInv ==
    ASSUME GivenInv, DataInv, HistoryInv, UNCHANGED <<given, took>>, history' = Continued
    PROVE  HistoryInv'
<1>1. events' = events /\ continuation' = continuation /\ took' = took
  BY DEF given
<1>2. \A a : PricesOf(a)' = PricesOf(a)
  BY <1>1 DEF PricesOf
<1>3. CASE ~continuation
  <2>1. DOMAIN history' = {}
    BY <1>3, NoHistoryFacts DEF Continued
  <2>2. QED
    BY <1>1, <1>3, <2>1 DEF HistoryInv
<1>4. CASE continuation
  <2>1. history' = [a \in DOMAIN history |-> [from |-> LastPrice(history[a]), prices |-> <<>>]]
    BY <1>4 DEF Continued
  <2>2. ASSUME NEW a \in DOMAIN history PROVE \A bar : bar = history'[a] => IsLatest(a, bar)'
    <3>1. PICK low : low = LastPrice(history[a])
      OBVIOUS
    <3>2. low \in PricesOf(a) /\ \A n \in PricesOf(a) : n <= low
      BY <1>4, <3>1, LatestFacts, ContinuedFacts
    <3>3. low \in 0..Len(events) /\ low # 0 /\ \A n \in PricesOf(a) : ~(low < n)
      BY <3>2, GivenFacts, PriceFacts
    <3>4. PICK bar, s : bar = history'[a] /\ s = <<>> /\ bar = [from |-> low, prices |-> s]
      BY <2>1, <3>1
    <3>5. bar.from = low /\ bar.prices = s /\ DOMAIN s = {} /\ ToSet(s) = {}
      BY <3>4 DEF ToSet
    <3>6. {n \in PricesOf(a) : low < n} = {}
      BY <3>3
    <3>7. IsLatest(a, bar)'
      BY <1>1, <1>2, <1>4, <3>2, <3>3, <3>5, <3>6 DEF IsLatest
    <3>8. QED
      BY <3>4, <3>7
  <2>3. DOMAIN history' = DOMAIN history
    BY <2>1
  <2>4. ASSUME NEW a \in Assets, NEW h, h = history'
        PROVE  /\ a \in DOMAIN h => \A bar : bar = h[a] => IsLatest(a, bar)'
               /\ a \notin DOMAIN h => PricesOf(a)' = {}
    BY <1>1, <1>2, <1>4, <2>2, <2>3, <2>4 DEF HistoryInv
  <2>5. QED
    BY <2>4 DEF HistoryInv
<1>5. QED
  BY <1>3, <1>4

WholeStays == \A x \in Histories : Whole(x) => Whole(x)'

LEMMA WholeSame ==
    ASSUME GivenInv, DataInv, HistoryInv, UNCHANGED <<given, took>>,
           history' = history \/ history' = Continued
    PROVE  WholeStays
<1>1. events' = events /\ continuation' = continuation /\ took' = took
  BY DEF given
<1>2. \A a : PricesOf(a)' = PricesOf(a)
  BY <1>1 DEF PricesOf
<1>3. \A a, bar : IsAggregate(a, bar)' <=> IsAggregate(a, bar)
  BY <1>1, <1>2 DEF IsAggregate
<1>4. \A a, n : In(a, n, history)' => In(a, n, history)
  <2>1. CASE history' = history
    BY <2>1 DEF In
  <2>2. CASE history' = Continued
    <3>1. PICK x, y : x = history' /\ y = Continued /\ x = y
      BY <2>2
    <3>2. \A a, n : ~In(a, n, x)
      BY <3>1, ContinuedFacts
    <3>3. QED
      BY <3>1, <3>2 DEF In
  <2>3. QED
    BY <2>1, <2>2
<1>5. \A x : \A a, n : In(a, n, x)' <=> In(a, n, x)
  BY DEF In
<1>6. \A x : Older(x, history) => Older(x, history)'
  BY <1>1, <1>4 DEF Older, Positions, In
<1>7. QED
  BY <1>3, <1>6 DEF WholeStays, Whole

(* A price that is added to the history is newer than the others.          *)
PriceAdded(h, n) ==
    /\ DOMAIN h = DOMAIN history \cup events[n].items
    /\ \A a \in DOMAIN h :
        IF a \notin DOMAIN history THEN h[a].from = 0 /\ h[a].prices = <<n>>
        ELSE IF a \in events[n].items
        THEN h[a].from = history[a].from /\ h[a].prices = Append(history[a].prices, n)
        ELSE h[a] = history[a]

LEMMA AddPriceFacts ==
    ASSUME GivenInv, DataInv, NEW n \in Positions, NEW h, h = AddPrice(history, n)
    PROVE  /\ h \in Histories /\ PriceAdded(h, n)
           /\ \A a, m : In(a, m, h) <=> In(a, m, history) \/ (m = n /\ a \in events[n].items)
<1>1. history \in Histories
  BY DEF DataInv
<1>2. DOMAIN history \subseteq Assets /\ events[n].items \subseteq Assets
  BY <1>1, HistoryFacts, GivenFacts
<1>3. \A a \in DOMAIN history : history[a] \in BarSpecs
  BY <1>1 DEF Histories
<1>4. DOMAIN h = DOMAIN history \cup events[n].items
  BY DEF AddPrice
<1>5. PICK s : s = <<n>> /\ s \in Seq(Positions) /\ \A m : m \in ToSet(s) <=> m = n
  <2>1. PICK s : s = <<n>>
    OBVIOUS
  <2>2. s \in Seq(Positions) /\ DOMAIN s = {1} /\ s[1] = n
    BY <2>1
  <2>3. \A m : m \in ToSet(s) <=> m = n
    BY <2>2, ToSetFacts
  <2>4. QED
    BY <2>1, <2>2, <2>3
<1>6. ASSUME NEW a \in DOMAIN h
      PROVE  /\ h[a] \in BarSpecs
             /\ IF a \notin DOMAIN history THEN h[a].from = 0 /\ h[a].prices = s
                ELSE IF a \in events[n].items
                THEN h[a].from = history[a].from /\ h[a].prices = Append(history[a].prices, n)
                ELSE h[a] = history[a]
             /\ \A m : In(a, m, h) <=> In(a, m, history) \/ (m = n /\ a \in events[n].items)
  <2>1. CASE a \notin DOMAIN history
    <3>1. h[a] = [from |-> 0, prices |-> s] /\ a \in events[n].items
      BY <1>4, <1>5, <2>1 DEF AddPrice
    <3>2. h[a].from = 0 /\ h[a].prices = s /\ h[a] \in BarSpecs
      BY <1>5, <3>1 DEF BarSpecs
    <3>3. QED
      BY <1>5, <2>1, <3>1, <3>2 DEF In
  <2>2. CASE a \in DOMAIN history /\ a \in events[n].items
    <3>1. PICK bar, q : bar = history[a] /\ q = Append(bar.prices, n) /\ bar \in BarSpecs
      BY <1>3, <2>2
    <3>2. h[a] = [bar EXCEPT !.prices = q]
      BY <2>2, <3>1 DEF AddPrice
    <3>3. bar.prices \in Seq(Positions)
      BY <3>1 DEF BarSpecs
    <3>4. q \in Seq(Positions) /\ \A m : m \in ToSet(q) <=> m \in ToSet(bar.prices) \/ m = n
      BY <3>1, <3>3, AppendFacts, ToSetFacts
    <3>5. h[a].from = bar.from /\ h[a].prices = q /\ h[a] \in BarSpecs
      BY <3>1, <3>2, <3>4 DEF BarSpecs
    <3>6. QED
      BY <2>2, <3>1, <3>4, <3>5 DEF In
  <2>3. CASE a \in DOMAIN history /\ a \notin events[n].items
    <3>1. h[a] = history[a]
      BY <2>3 DEF AddPrice
    <3>2. QED
      BY <1>3, <2>3, <3>1 DEF In
  <2>4. QED
    BY <2>1, <2>2, <2>3
<1>7. h \in Histories
  <2>1. h = [a \in DOMAIN h |-> h[a]]
    BY DEF AddPrice
  <2>2. DOMAIN h \in SUBSET Assets
    BY <1>2, <1>4
  <2>3. h \in [DOMAIN h -> BarSpecs]
    BY <1>6, <2>1
  <2>4. QED
    BY <2>2, <2>3 DEF Histories
<1>8. \A a, m : a \notin DOMAIN h => ~In(a, m, h) /\ ~In(a, m, history) /\ a \notin events[n].items
  BY <1>4 DEF In
<1>9. PriceAdded(h, n)
  BY <1>4, <1>5, <1>6 DEF PriceAdded
<1>10. QED
  BY <1>6, <1>7, <1>8, <1>9

LEMMA NewPrice ==
    ASSUME GivenInv, DataInv, OrderInv, AddPrices, NEW n, n = NextEvent
    PROVE  /\ n \in Positions /\ n \in Nat \ {0}
           /\ took' = Append(took, n) /\ took' \in Seq(Positions)
           /\ history' = AddPrice(history, n) /\ c' = Receive(c) /\ UNCHANGED given
           /\ \A a, m : m \in PricesOf(a)' <=> m \in PricesOf(a) \/ (m = n /\ a \in events[n].items)
           /\ \A a : \A m \in PricesOf(a) : m < n
<1>1. c \in Channels(Positions) /\ CanReceive(c) /\ took \in Seq(Positions)
  BY DEF DataInv, AddPrices
<1>2. n \in Positions /\ n = c.queue[1] /\ 1 \in DOMAIN c.queue
  BY <1>1, ReceiveFacts DEF NextEvent
<1>3. n \in Nat \ {0}
  BY <1>2, GivenFacts
<1>4. /\ took' = Append(took, n) /\ history' = AddPrice(history, n) /\ c' = Receive(c)
      /\ UNCHANGED given
  BY DEF AddPrices
<1>5. events' = events
  BY <1>4 DEF given
<1>6. took' \in Seq(Positions) /\ \A m : m \in ToSet(took') <=> m \in ToSet(took) \/ m = n
  BY <1>1, <1>2, <1>4, AppendFacts, ToSetFacts
<1>7. \A m \in ToSet(took) : m < n /\ m \in Positions
  BY <1>1, <1>2, ToSetFacts DEF OrderInv
<1>8. \A a, m : m \in PricesOf(a)' <=> m \in PricesOf(a) \/ (m = n /\ a \in events[n].items)
  BY <1>5, <1>6 DEF PricesOf
<1>9. \A a : \A m \in PricesOf(a) : m < n
  BY <1>7 DEF PricesOf
<1>10. QED
  BY <1>2, <1>3, <1>4, <1>6, <1>8, <1>9

LEMMA AddPricesWhole ==
    ASSUME GivenInv, DataInv, OrderInv, AddPrices
    PROVE  WholeStays
<1>1. PICK n : n = NextEvent
  OBVIOUS
<1>2. /\ n \in Positions /\ n \in Nat \ {0} /\ history' = AddPrice(history, n)
      /\ events' = events /\ continuation' = continuation
      /\ \A a, m : m \in PricesOf(a)' <=> m \in PricesOf(a) \/ (m = n /\ a \in events[n].items)
      /\ \A a : \A m \in PricesOf(a) : m < n
  BY <1>1, NewPrice DEF given
<1>3. SUFFICES ASSUME NEW x \in Histories, Whole(x) PROVE Whole(x)'
  BY DEF WholeStays
<1>4. ASSUME NEW a \in DOMAIN x, NEW bar, IsAggregate(a, bar) PROVE IsAggregate(a, bar)'
  <2>1. PICK low \in 0..Len(events), high \in PricesOf(a) :
        /\ \A i, j \in DOMAIN bar.prices : i < j => bar.prices[i] < bar.prices[j]
        /\ ToSet(bar.prices) = {m \in PricesOf(a) : low < m /\ m <= high}
        /\ continuation => low \in PricesOf(a) \cup {0}
        /\ bar.from = IF continuation THEN low ELSE 0
        /\ bar.prices = <<>> => bar.from # 0
    BY <1>4 DEF IsAggregate
  <2>2. high < n /\ high \in Nat /\ high \in PricesOf(a)'
    BY <1>2, PriceFacts
  <2>3. ~(n <= high)
    BY <1>2, <2>2
  <2>4. {m \in PricesOf(a) : low < m /\ m <= high} = {m \in PricesOf(a)' : low < m /\ m <= high}
    BY <1>2, <2>3
  <2>5. continuation => low \in PricesOf(a)' \cup {0}
    BY <1>2, <2>1
  <2>6. QED
    BY <1>2, <2>1, <2>2, <2>4, <2>5 DEF IsAggregate
<1>5. ASSUME NEW a \in Assets, NEW i \in Positions, NEW m \in Positions,
             In(a, i, x), In(a, m, history)'
      PROVE  i < m
  <2>1. PICK h : h = history'
    OBVIOUS
  <2>2. In(a, m, h)
    BY <1>5, <2>1 DEF In
  <2>3. In(a, m, history) \/ m = n
    <3>1. h = AddPrice(history, n)
      BY <1>2, <2>1
    <3>2. QED
      BY <1>2, <2>2, <3>1, AddPriceFacts
  <2>4. CASE In(a, m, history)
    BY <1>3, <1>5, <2>4 DEF Whole, Older
  <2>5. CASE m = n
    <3>1. i \in ToSet(x[a].prices) /\ a \in DOMAIN x /\ IsAggregate(a, x[a])
      BY <1>3, <1>5 DEF In, Whole
    <3>2. i \in PricesOf(a)
      BY <3>1 DEF IsAggregate
    <3>3. QED
      BY <1>2, <2>5, <3>2
  <2>6. QED
    BY <2>3, <2>4, <2>5
<1>6. \A a, i : In(a, i, x)' <=> In(a, i, x)
  BY DEF In
<1>7. Older(x, history)'
  BY <1>2, <1>5, <1>6 DEF Older, Positions
<1>8. QED
  BY <1>3, <1>4, <1>7 DEF Whole

LEMMA AddPricesHistory ==
    ASSUME GivenInv, DataInv, OrderInv, HistoryInv, AddPrices
    PROVE  HistoryInv'
<1>1. PICK n : n = NextEvent
  OBVIOUS
<1>2. /\ n \in Positions /\ n \in Nat \ {0} /\ history' = AddPrice(history, n)
      /\ events' = events /\ continuation' = continuation
      /\ \A a, m : m \in PricesOf(a)' <=> m \in PricesOf(a) \/ (m = n /\ a \in events[n].items)
      /\ \A a : \A m \in PricesOf(a) : m < n
  BY <1>1, NewPrice DEF given
<1>3. PICK h : h = history'
  OBVIOUS
<1>4. /\ DOMAIN h = DOMAIN history \cup events[n].items
      /\ \A a \in DOMAIN h :
            IF a \notin DOMAIN history THEN h[a].from = 0 /\ h[a].prices = <<n>>
            ELSE IF a \in events[n].items
            THEN h[a].from = history[a].from /\ h[a].prices = Append(history[a].prices, n)
            ELSE h[a] = history[a]
  <2>1. h = AddPrice(history, n)
    BY <1>2, <1>3
  <2>2. PriceAdded(h, n)
    BY <1>2, <2>1, AddPriceFacts
  <2>3. QED
    BY <2>2 DEF PriceAdded
<1>5. n \in 0..Len(events) /\ n - 1 \in 0..Len(events) /\ 0 \in 0..Len(events)
  BY <1>2, GivenFacts
<1>6. ASSUME NEW a \in Assets, a \in DOMAIN h, NEW bar, bar = h[a] PROVE IsLatest(a, bar)'
  <2>1. CASE a \notin DOMAIN history
    <3>1. PICK low : low = IF continuation THEN 0 ELSE n - 1
      OBVIOUS
    <3>2. PICK s : s = <<n>> /\ bar.prices = s /\ bar.from = 0 /\ a \in events[n].items
      BY <1>4, <1>6, <2>1
    <3>3. DOMAIN s = {1} /\ s # <<>> /\ s \in Seq(Positions) /\ s[1] = n
      BY <1>2, <3>2
    <3>4. \A m : m \in ToSet(s) <=> m = n
      BY <3>3, ToSetFacts
    <3>5. \A m \in PricesOf(a) : ~(low < m)
      <4>1. CASE continuation
        BY <2>1, <4>1 DEF HistoryInv
      <4>2. CASE ~continuation
        <5>1. \A m \in PricesOf(a) : m < n /\ m \in Nat
          BY <1>2, PriceFacts
        <5>2. QED
          BY <1>2, <3>1, <4>2, <5>1
      <4>3. QED
        BY <4>1, <4>2
    <3>6. low < n /\ low \in 0..Len(events)
      BY <1>2, <1>5, <3>1
    <3>7. ToSet(s) = {m \in PricesOf(a)' : low < m}
      BY <1>2, <3>2, <3>4, <3>5, <3>6
    <3>8. (continuation => low = 0) /\ 0 = IF continuation THEN low ELSE 0
      BY <3>1
    <3>9. \A i, j \in DOMAIN s : ~(i < j)
      BY <3>3
    <3>10. QED
      BY <1>2, <3>2, <3>3, <3>6, <3>7, <3>8, <3>9 DEF IsLatest
  <2>2. CASE a \in DOMAIN history
    <3>1. PICK old : old = history[a]
      OBVIOUS
    <3>2. old \in BarSpecs /\ IsLatest(a, old)
      BY <2>2, <3>1, ContinuedFacts
    <3>3. PICK low \in 0..Len(events) :
            /\ \A i, j \in DOMAIN old.prices : i < j => old.prices[i] < old.prices[j]
            /\ ToSet(old.prices) = {m \in PricesOf(a) : low < m}
            /\ continuation => low \in PricesOf(a) \cup {0}
            /\ old.from = IF continuation THEN low ELSE 0
            /\ old.prices = <<>> => old.from # 0
      BY <3>2 DEF IsLatest
    <3>4. continuation => low \in PricesOf(a)' \cup {0}
      BY <1>2, <3>3
    <3>5. CASE a \notin events[n].items
      <4>1. bar = old
        BY <1>4, <1>6, <2>2, <3>1, <3>5
      <4>2. {m \in PricesOf(a)' : low < m} = {m \in PricesOf(a) : low < m}
        BY <1>2, <3>5
      <4>3. QED
        BY <1>2, <3>3, <3>4, <4>1, <4>2 DEF IsLatest
    <3>6. CASE a \in events[n].items
      <4>1. PICK p, q : p = old.prices /\ q = Append(p, n) /\ bar.prices = q /\ bar.from = old.from
        BY <1>4, <1>6, <2>2, <3>1, <3>6
      <4>2. p \in Seq(Positions)
        BY <3>2, <4>1 DEF BarSpecs
      <4>3. /\ Len(p) \in Nat /\ DOMAIN p = 1..Len(p) /\ DOMAIN q = 1..Len(p) + 1
            /\ \A k \in 1..Len(p) : q[k] = p[k]
            /\ q[Len(p) + 1] = n
            /\ q \in Seq(Positions) /\ \A m : m \in ToSet(q) <=> m \in ToSet(p) \/ m = n
        BY <1>2, <4>1, <4>2, AppendFacts, ToSetFacts
      <4>4. \A m \in ToSet(p) : m \in PricesOf(a) /\ m < n
        BY <1>2, <3>3, <4>1
      <4>5. \A k \in DOMAIN p : p[k] < n
        BY <4>2, <4>4, ToSetFacts
      <4>6. ASSUME NEW i \in DOMAIN q, NEW j \in DOMAIN q, i < j PROVE q[i] < q[j]
        <5>1. i \in 1..Len(p)
          BY <4>3, <4>6
        <5>2. CASE j \in 1..Len(p)
          BY <3>3, <4>1, <4>3, <4>6, <5>1, <5>2
        <5>3. CASE j = Len(p) + 1
          BY <4>3, <4>5, <5>1, <5>3
        <5>4. QED
          BY <4>3, <5>2, <5>3
      <4>7. low < n
        <5>1. CASE continuation
          BY <1>2, <3>3, <5>1
        <5>2. CASE ~continuation
          <6>1. p # <<>>
            BY <3>3, <4>1, <5>2
          <6>2. PICK k \in DOMAIN p : k = 1
            BY <4>2, <6>1
          <6>3. p[k] \in ToSet(p)
            BY <4>2, ToSetFacts
          <6>4. low < p[k] /\ p[k] < n /\ p[k] \in Nat
            BY <3>3, <4>1, <4>5, <6>3, PriceFacts
          <6>5. QED
            BY <1>2, <6>4
        <5>3. QED
          BY <5>1, <5>2
      <4>8. ToSet(q) = {m \in PricesOf(a)' : low < m}
        BY <1>2, <3>3, <3>6, <4>1, <4>3, <4>7
      <4>9. q # <<>>
        BY <4>3
      <4>10. QED
        BY <1>2, <3>3, <3>4, <4>1, <4>6, <4>8, <4>9 DEF IsLatest
    <3>7. QED
      BY <3>5, <3>6
  <2>3. QED
    BY <2>1, <2>2
<1>7. ASSUME NEW a \in Assets, a \notin DOMAIN h, continuation PROVE PricesOf(a)' = {}
  BY <1>2, <1>4, <1>7 DEF HistoryInv
<1>8. ASSUME NEW a \in Assets
      PROVE  /\ a \in DOMAIN history' => IsLatest(a, history[a])'
             /\ a \notin DOMAIN history' /\ continuation' => PricesOf(a)' = {}
  <2>1. PICK bar : bar = history'[a]
    OBVIOUS
  <2>2. a \in DOMAIN history' => IsLatest(a, bar)'
    BY <1>3, <1>6, <2>1
  <2>3. QED
    BY <1>2, <1>3, <1>7, <2>1, <2>2
<1>9. QED
  BY <1>8 DEF HistoryInv

-----------------------------------------------------------------------------
(* What was sent                                                           *)
PastStays == \A e \in Messages : IsPast(e) => IsPast(e)'
HasStays  == \A a, n : Has(a, n, Sent) => Has(a, n, Sent)'

LEMMA SentFacts ==
    ASSUME DataInv
    PROVE  /\ channel \in Channels(Messages) /\ channel.queue \in Seq(Messages)
           /\ handled \in Seq(Messages) /\ Sent \in Seq(Messages)
           /\ \A k \in DOMAIN Sent : /\ Sent[k] \in Messages /\ Sent[k].bars \in Histories
                                     /\ Sent[k].time \in Nat
<1>1. channel \in Channels(Messages) /\ handled \in Seq(Messages)
  BY DEF DataInv
<1>2. channel.queue \in Seq(Messages)
  BY <1>1 DEF Channels
<1>3. Sent \in Seq(Messages)
  BY <1>1, <1>2, ConcatFacts DEF Sent
<1>4. \A k \in DOMAIN Sent : Sent[k] \in Messages
  BY <1>3
<1>5. QED
  BY <1>1, <1>2, <1>3, <1>4, EventFacts

LEMMA SameSets ==
    ASSUME UNCHANGED given
    PROVE  /\ events' = events /\ remaining' = remaining /\ continuation' = continuation
           /\ Positions' = Positions /\ Histories' = Histories /\ Messages' = Messages
           /\ GivenInv => GivenInv'
           /\ \A a, n, x : In(a, n, x)' <=> In(a, n, x)
           /\ \A x, y : Apart(x, y)' <=> Apart(x, y)
           /\ \A x, y : InOrder(x, y)' <=> InOrder(x, y)
<1>1. events' = events /\ remaining' = remaining /\ continuation' = continuation
  BY DEF given
<1>2. Positions' = Positions
  BY <1>1 DEF Positions
<1>3. BarSpecs' = BarSpecs
  BY <1>2 DEF BarSpecs
<1>4. Histories' = Histories
  BY <1>3 DEF Histories
<1>5. Messages' = Messages
  BY <1>2, <1>4 DEF Messages
<1>6. GivenInv => GivenInv'
  BY <1>1 DEF GivenInv
<1>7. \A a, n, x : In(a, n, x)' <=> In(a, n, x)
  BY DEF In
<1>8. \A x, y : Apart(x, y)' <=> Apart(x, y)
  BY <1>2, <1>7 DEF Apart
<1>9. \A x, y : InOrder(x, y)' <=> InOrder(x, y)
  BY DEF InOrder
<1>10. QED
  BY <1>1, <1>2, <1>4, <1>5, <1>6, <1>7, <1>8, <1>9

(* What a step does to the events that were sent: nothing, it sends one    *)
(* more, or a suspended sender takes its own back.                         *)
LEMMA SentEffects ==
    ASSUME DataInv, handled' = handled, UNCHANGED given, NEW t, t = Sent'
    PROVE  /\ channel'.queue = channel.queue => t = Sent
           /\ \A e \in Messages :
                channel'.queue = Append(channel.queue, e) => Longer(t, Sent, e)
           /\ \A e \in Messages : WithoutOne(channel', channel, e, Messages) =>
                /\ Within(t, Sent)
                /\ \A k \in DOMAIN Sent : Sent[k] = e \/ \E m \in DOMAIN t : t[m] = Sent[k]
<1>1. channel.queue \in Seq(Messages) /\ handled \in Seq(Messages)
  BY SentFacts
<1>2. channel'.queue = channel.queue => t = Sent
  BY DEF Sent
<1>3. ASSUME NEW e \in Messages, channel'.queue = Append(channel.queue, e)
      PROVE  Longer(t, Sent, e)
  <2>1. t = handled \o Append(channel.queue, e)
    BY <1>3 DEF Sent
  <2>2. QED
    BY <1>1, <2>1, ConcatLonger DEF Sent
<1>4. ASSUME NEW e \in Messages, WithoutOne(channel', channel, e, Messages)
      PROVE  /\ Within(t, Sent)
             /\ \A k \in DOMAIN Sent : Sent[k] = e \/ \E m \in DOMAIN t : t[m] = Sent[k]
  <2>1. PICK g, q, r, s : g = handled /\ q = channel.queue /\ r = channel'.queue /\ s = Sent
    OBVIOUS
  <2>2. /\ channel' \in Channels(Messages) /\ Within(r, q)
        /\ \A k \in DOMAIN q : q[k] = e \/ \E m \in DOMAIN r : r[m] = q[k]
    BY <1>4, <2>1 DEF WithoutOne
  <2>3. r \in Seq(Messages) /\ q \in Seq(Messages) /\ g \in Seq(Messages)
    BY <1>1, <2>1, <2>2 DEF Channels
  <2>4. s = g \o q /\ t = g \o r
    BY <2>1 DEF Sent
  <2>5. Within(t, s)
    BY <2>2, <2>3, <2>4, ConcatWithin
  <2>6. /\ \A m \in DOMAIN s : \/ \E k \in DOMAIN g : s[m] = g[k]
                               \/ \E k \in DOMAIN q : s[m] = q[k]
    <3>1. Together(s, g, q)
      BY <2>3, <2>4, ConcatElements
    <3>2. QED
      BY <3>1 DEF Together
  <2>7. /\ \A k \in DOMAIN g : k \in DOMAIN t /\ t[k] = g[k]
        /\ \A k \in DOMAIN r : \E m \in DOMAIN t : t[m] = r[k]
    <3>1. Together(t, g, r)
      BY <2>3, <2>4, ConcatElements
    <3>2. QED
      BY <3>1 DEF Together
  <2>8. \A k \in DOMAIN s : s[k] = e \/ \E m \in DOMAIN t : t[m] = s[k]
    <3> SUFFICES ASSUME NEW k \in DOMAIN s, s[k] # e PROVE \E m \in DOMAIN t : t[m] = s[k]
      OBVIOUS
    <3>1. CASE \E i \in DOMAIN g : s[k] = g[i]
      BY <2>7, <3>1
    <3>2. CASE \E i \in DOMAIN q : s[k] = q[i]
      <4>1. PICK i \in DOMAIN q : s[k] = q[i]
        BY <3>2
      <4>2. PICK m \in DOMAIN r : r[m] = q[i]
        BY <2>2, <4>1
      <4>3. QED
        BY <2>7, <4>1, <4>2
    <3>3. QED
      BY <2>6, <3>1, <3>2
  <2>9. QED
    BY <2>1, <2>5, <2>8
<1>5. QED
  BY <1>2, <1>3, <1>4

LEMMA StepWithin ==
    ASSUME GivenInv, DataInv, OutInv, UNCHANGED given, WholeStays, PastStays,
           NEW t, t = Sent', Within(t, Sent)
    PROVE  OutInv' /\ \A x \in Histories : Spare(x, Sent) => Spare(x, Sent)'
<1>1. PICK s : s = Sent
  OBVIOUS
<1>2. PICK f \in [DOMAIN t -> DOMAIN s] :
        /\ \A i, j \in DOMAIN t : i < j => f[i] < f[j]
        /\ \A i \in DOMAIN t : t[i] = s[f[i]]
  BY <1>1 DEF Within
<1>3. Fits(s) /\ \A k \in DOMAIN s : s[k] \in Messages /\ s[k].bars \in Histories
  BY <1>1, SentFacts DEF OutInv
<1>4. \A k \in DOMAIN s : Whole(s[k].bars)' /\ IsPast(s[k])'
  BY <1>3 DEF Fits, WholeStays, PastStays
<1>5. \A k \in DOMAIN t : f[k] \in DOMAIN s /\ t[k] = s[f[k]]
  BY <1>2
<1>6. \A k \in DOMAIN t : Whole(t[k].bars)' /\ IsPast(t[k])'
  BY <1>4, <1>5
<1>7. ASSUME NEW i \in DOMAIN t, NEW k \in DOMAIN t, i < k
      PROVE  Apart(t[i].bars, t[k].bars)' /\ InOrder(t[i], t[k])'
  <2>1. f[i] \in DOMAIN s /\ f[k] \in DOMAIN s /\ f[i] < f[k]
    BY <1>2, <1>7
  <2>2. Apart(s[f[i]].bars, s[f[k]].bars) /\ InOrder(s[f[i]], s[f[k]])
    BY <1>3, <2>1 DEF Fits
  <2>3. Apart(t[i].bars, t[k].bars) /\ InOrder(t[i], t[k])
    BY <1>5, <2>2
  <2>4. QED
    BY <2>3, SameSets
<1>8. Fits(t)'
  BY <1>6, <1>7 DEF Fits
<1>9. ASSUME NEW x \in Histories, Spare(x, s) PROVE Spare(x, t)'
  <2>1. Whole(x)'
    BY <1>9 DEF Spare, WholeStays
  <2>2. \A k \in DOMAIN t : Apart(t[k].bars, x)
    BY <1>5, <1>9 DEF Spare
  <2>3. \A k \in DOMAIN t : Apart(t[k].bars, x)'
    BY <2>2, SameSets
  <2>4. QED
    BY <2>1, <2>3 DEF Spare
<1>10. QED
  BY <1>1, <1>8, <1>9 DEF OutInv

LEMMA StepLonger ==
    ASSUME GivenInv, DataInv, OutInv, UNCHANGED given, WholeStays, PastStays,
           NEW e \in Messages, NEW t, t = Sent', Longer(t, Sent, e),
           Spare(e.bars, Sent), IsPast(e)', \A k \in DOMAIN Sent : InOrder(Sent[k], e)
    PROVE  /\ OutInv'
           /\ \A x \in Histories : Spare(x, Sent) /\ Apart(e.bars, x) => Spare(x, Sent)'
           /\ HasStays /\ \A a, n : In(a, n, e.bars) => Has(a, n, Sent)'
<1>1. PICK s, m : s = Sent /\ m = Len(s)
  OBVIOUS
<1>2. /\ m \in Nat /\ DOMAIN s = 1..m /\ DOMAIN t = 1..m + 1
      /\ \A k \in 1..m : t[k] = s[k]
      /\ t[m + 1] = e
  BY <1>1 DEF Longer
<1>3. Fits(s) /\ \A k \in DOMAIN s : s[k] \in Messages /\ s[k].bars \in Histories
  BY <1>1, SentFacts DEF OutInv
<1>4. \A k \in DOMAIN s : Whole(s[k].bars)' /\ IsPast(s[k])'
  BY <1>3 DEF Fits, WholeStays, PastStays
<1>5. \A k \in DOMAIN t : (k \in DOMAIN s /\ t[k] = s[k]) \/ (k = m + 1 /\ t[k] = e)
  BY <1>2
<1>6. Whole(e.bars)' /\ \A k \in DOMAIN s : Apart(s[k].bars, e.bars)
  BY <1>1, EventFacts DEF Spare, WholeStays
<1>7. \A k \in DOMAIN t : Whole(t[k].bars)' /\ IsPast(t[k])'
  BY <1>4, <1>5, <1>6
<1>8. ASSUME NEW i \in DOMAIN t, NEW k \in DOMAIN t, i < k
      PROVE  Apart(t[i].bars, t[k].bars)' /\ InOrder(t[i], t[k])'
  <2>1. i \in DOMAIN s /\ t[i] = s[i]
    BY <1>2, <1>8
  <2>2. CASE k \in DOMAIN s /\ t[k] = s[k]
    BY <1>3, <1>8, <2>1, <2>2, SameSets DEF Fits
  <2>3. CASE k = m + 1 /\ t[k] = e
    BY <1>1, <1>6, <2>1, <2>3, SameSets
  <2>4. QED
    BY <1>5, <2>2, <2>3
<1>9. Fits(t)'
  BY <1>7, <1>8 DEF Fits
<1>10. ASSUME NEW x \in Histories, Spare(x, s), Apart(e.bars, x) PROVE Spare(x, t)'
  <2>1. Whole(x)'
    BY <1>10 DEF Spare, WholeStays
  <2>2. \A k \in DOMAIN t : Apart(t[k].bars, x)
    BY <1>5, <1>10 DEF Spare
  <2>3. \A k \in DOMAIN t : Apart(t[k].bars, x)'
    BY <2>2, SameSets
  <2>4. QED
    BY <2>1, <2>3 DEF Spare
<1>11. \A k \in DOMAIN s : k \in DOMAIN t /\ t[k] = s[k]
  BY <1>2
<1>12. m + 1 \in DOMAIN t /\ t[m + 1] = e
  BY <1>2
<1>13. HasStays
  BY <1>1, <1>11, SameSets DEF HasStays, Has
<1>14. \A a, n : In(a, n, e.bars) => Has(a, n, Sent)'
  BY <1>12, SameSets DEF Has
<1>15. QED
  BY <1>1, <1>9, <1>10, <1>13, <1>14 DEF OutInv

-----------------------------------------------------------------------------
(* What a step leaves alone.                                               *)
LEMMA QuietFeed ==
    ASSUME GivenInv, DataInv, OrderInv, HistoryInv, UNCHANGED <<given, feedVars, took>>,
           history' = history \/ history' = Continued
    PROVE  GivenInv' /\ OrderInv' /\ HistoryInv' /\ WholeStays
<1>1. /\ events' = events /\ continuation' = continuation /\ took' = took /\ c' = c
      /\ next' = next /\ UNCHANGED given
  BY DEF given, feedVars
<1>2. GivenInv'
  BY <1>1, SameSets
<1>3. OrderInv'
  BY <1>1 DEF OrderInv
<1>4. WholeStays
  BY <1>1, WholeSame
<1>5. CASE history' = history
  <2>1. \A a : PricesOf(a)' = PricesOf(a)
    BY <1>1 DEF PricesOf
  <2>2. \A a, bar : IsLatest(a, bar) => IsLatest(a, bar)'
    BY <1>1, <2>1 DEF IsLatest
  <2>3. PICK h : h = history /\ h = history'
    BY <1>5
  <2>4. \A a \in Assets : /\ a \in DOMAIN h => IsLatest(a, h[a])'
                          /\ a \notin DOMAIN h /\ continuation' => PricesOf(a)' = {}
    BY <1>1, <2>1, <2>2, <2>3 DEF HistoryInv
  <2>5. HistoryInv'
    BY <2>3, <2>4 DEF HistoryInv
  <2>6. QED
    BY <1>2, <1>3, <1>4, <2>5
<1>6. CASE history' = Continued
  BY <1>1, <1>2, <1>3, <1>4, <1>6, ContinuedInv
<1>7. QED
  BY <1>2, <1>3, <1>4, <1>5, <1>6

LEMMA PastSame ==
    ASSUME expiration' = expiration,
           timer \in {"suspended", "stopped"} => timer' \in {"suspended", "stopped"}
    PROVE  PastStays
BY DEF PastStays, IsPast

LEMMA QuietSent ==
    ASSUME GivenInv, DataInv, OutInv, UNCHANGED given, WholeStays, PastStays, Sent' = Sent
    PROVE  OutInv' /\ HasStays /\ \A x \in Histories : Spare(x, Sent) => Spare(x, Sent)'
<1>1. PICK t : t = Sent /\ t = Sent'
  OBVIOUS
<1>2. Within(t, t)
  BY WithinItself
<1>3. \A a, n : Has(a, n, t) => Has(a, n, t)'
  BY SameSets DEF Has
<1>4. QED
  BY <1>1, <1>2, <1>3, StepWithin DEF HasStays

(* What is taken from the history is newer than everything that was sent.  *)
LEMMA TakenSpare ==
    ASSUME GivenInv, DataInv, HistoryInv, OutInv, UNCHANGED <<given, took>>,
           history' = Continued, NEW x, x = history, NEW t, t = Sent', Within(t, Sent)
    PROVE  Spare(x, Sent)' /\ \A y \in Histories : Whole(y) => Apart(x, y) /\ Apart(y, x)
<1>1. /\ events' = events /\ continuation' = continuation /\ took' = took /\ UNCHANGED given
  BY DEF given
<1>2. \A a : PricesOf(a)' = PricesOf(a)
  BY <1>1 DEF PricesOf
<1>3. \A a \in DOMAIN x : IsAggregate(a, x[a])
  BY ContinuedFacts, LatestFacts
<1>4. \A a \in DOMAIN x : IsAggregate(a, x[a])'
  BY <1>1, <1>2, <1>3 DEF IsAggregate
<1>5. PICK y : y = Continued
  OBVIOUS
<1>6. \A a, n : ~In(a, n, y)'
  BY <1>1, <1>5, ContinuedFacts, SameSets
<1>7. Older(x, history)'
  <2>1. history' = y
    BY <1>5
  <2>2. Older(x, y)'
    BY <1>6 DEF Older
  <2>3. QED
    BY <2>1, <2>2
<1>8. Whole(x)'
  BY <1>4, <1>7 DEF Whole
<1>9. ASSUME NEW z \in Histories, Whole(z) PROVE Apart(x, z) /\ Apart(z, x)
  <2>1. \A a \in Assets, n, m \in Positions : In(a, n, z) /\ In(a, m, x) => n < m
    BY <1>9 DEF Whole, Older
  <2>2. \A n \in Positions : ~(n < n)
    BY GivenFacts
  <2>3. QED
    BY <2>1, <2>2 DEF Apart
<1>10. \A k \in DOMAIN Sent : Apart(Sent[k].bars, x)
  BY <1>9, SentFacts DEF OutInv, Fits
<1>11. \A k \in DOMAIN t : Apart(t[k].bars, x)
  <2>1. PICK s : s = Sent
    OBVIOUS
  <2>2. PICK f \in [DOMAIN t -> DOMAIN s] : \A i \in DOMAIN t : t[i] = s[f[i]]
    BY <2>1 DEF Within
  <2>3. QED
    BY <1>10, <2>1, <2>2
<1>12. \A k \in DOMAIN t : Apart(t[k].bars, x)'
  BY <1>1, <1>11, SameSets
<1>13. Spare(x, t)'
  BY <1>8, <1>12 DEF Spare
<1>14. QED
  BY <1>9, <1>13

(* As long as the expiration time is not past the timeframe ...            *)
LEMMA InTimeFacts ==
    ASSUME TimesInv, InTime
    PROVE  \A t \in FirstEnd..expiration : t \in Nat /\ InTimeframe(t) /\ ~AfterTimeframe(t)
<1>1. FirstEnd \in Nat /\ expiration \in Nat /\ Start \in Nat /\ Start <= FirstEnd
  BY AggregatorLiveAssumption, ChannelAssumption DEF TimesInv, InTime
<1>2. ~AfterTimeframe(expiration)
  BY DEF InTime
<1>3. ASSUME NEW t \in FirstEnd..expiration PROVE t \in Nat /\ Start <= t /\ ~AfterTimeframe(t)
  BY <1>1, <1>2, ChannelAssumption DEF AfterTimeframe
<1>4. QED
  BY <1>3, TimeframeFacts

LEMMA KeptMoves ==
    ASSUME Inv, UNCHANGED <<given, took, worker>>, expiration' \in Nat, expiration <= expiration',
           InTime =>
                /\ channel'.closed => play' = "stopped"
                /\ worker = "finished" => channel'.closed /\ channel'.queue = <<>>
                /\ \A a \in Assets, n \in Positions : Kept(a, n) => Kept(a, n)'
                /\ timer' = "suspended" => \A a \in Assets, n \in Positions :
                                            In(a, n, bars.bars)' => Has(a, n, Sent)'
                /\ remaining => play' # "end"
                /\ remaining /\ play' \in {"send", "final", "stopped"} =>
                    \A a \in Assets, n \in Positions : ~In(a, n, history)'
    PROVE  KeptInv'
<1>1. SUFFICES ASSUME InTime' PROVE KeptInv'
  BY DEF KeptInv
<1>2. /\ Positions' = Positions /\ remaining' = remaining /\ worker' = worker /\ took' = took
      /\ events' = events
  BY SameSets
<1>3. InTime
  <2>1. expiration \in Nat /\ ~AfterTimeframe(expiration') /\ Start <= FirstEnd
        /\ worker \in {"running", "finished"}
    BY <1>1, <1>2 DEF InTime, Inv, StateInv, TimesInv
  <2>2. ~AfterTimeframe(expiration)
    BY <2>1, ChannelAssumption DEF AfterTimeframe
  <2>3. QED
    BY <2>1, <2>2 DEF InTime
<1>4. \A a : PricesOf(a)' = PricesOf(a)
  BY <1>2 DEF PricesOf
<1>5. \A a \in Assets : \A n \in PricesOf(a) : Kept(a, n) /\ n \in Positions
  BY <1>3, PriceFacts DEF Inv, KeptInv, StateInv
<1>6. \A a \in Assets : \A n \in PricesOf(a)' : Kept(a, n)'
  BY <1>3, <1>4, <1>5
<1>7. QED
  BY <1>2, <1>3, <1>6 DEF KeptInv

-----------------------------------------------------------------------------
(* The live feed                                                           *)
LEMMA SendEventInv ==
    ASSUME Inv, SendEvent
    PROVE  Inv'
<1>1. /\ next <= Len(events) /\ ~SendFails(c, events[next].time) /\ next' = next + 1
      /\ c' = Send(c, next, events[next].time)
      /\ UNCHANGED <<given, playVars, expiration, history, published, timerVars, channel,
                     workerVars>>
  BY DEF SendEvent
<1>2. /\ play' = play /\ rest' = rest /\ failed' = failed /\ took' = took /\ seen' = seen
      /\ timer' = timer /\ bars' = bars /\ dropped' = dropped /\ cancelled' = cancelled
      /\ worker' = worker /\ handled' = handled /\ channel' = channel /\ UNCHANGED given
      /\ expiration' = expiration /\ history' = history /\ published' = published
  BY <1>1 DEF playVars, timerVars, workerVars
<1>3. GivenInv /\ ControlInv /\ TimesInv /\ DataInv /\ OrderInv
  BY DEF Inv, StateInv
<1>4. /\ next \in Positions /\ next \in Nat /\ next + 1 \in 1..Len(events) + 1
      /\ c \in Channels(Positions) /\ events[next].time \in Nat
  BY <1>1, <1>3, GivenFacts DEF DataInv
<1>5. PICK q : q = c.queue /\ q \in Seq(Positions)
  BY <1>4 DEF Channels
<1>6. c' \in Channels(Positions) /\
         (c'.queue = q \/ (c'.queue = Append(q, next) /\ InTimeframe(events[next].time)))
  <2>1. PICK n, tm : n = c' /\ tm = events[next].time
    OBVIOUS
  <2>2. tm \in Nat /\ ~SendFails(c, tm) /\ n = Send(c, next, tm)
    BY <1>1, <1>4, <2>1
  <2>3. /\ n \in Channels(Positions)
        /\ (n.queue = Append(c.queue, next) /\ InTimeframe(tm)) \/ n.queue = c.queue
    BY <1>4, <2>2, SendFacts
  <2>4. QED
    BY <1>5, <2>1, <2>3
<1>7. StateInv'
  <2>1. GivenInv'
    BY <1>2, <1>3, SameSets
  <2>2. ControlInv' /\ TimesInv'
    BY <1>2, <1>3 DEF ControlInv, TimesInv
  <2>3. DataInv'
    <3>1. events' = events /\ Positions' = Positions
          /\ Histories' = Histories /\ Messages' = Messages
      BY <1>2, SameSets
    <3>2. QED
      BY <1>1, <1>2, <1>3, <1>4, <1>6, <3>1 DEF DataInv
  <2>4. QED
    BY <2>1, <2>2, <2>3 DEF StateInv
<1>8. OrderInv'
  <2>1. events' = events /\ took' = took
    BY <1>2, SameSets
  <2>2. /\ \A k \in DOMAIN q : q[k] < next /\ q[k] \in Nat /\ InTimeframe(events[q[k]].time)
        /\ \A k, m \in DOMAIN q : k < m => q[k] < q[m]
        /\ \A n \in ToSet(took) : n < next /\ n \in Nat /\ \A k \in DOMAIN q : n < q[k]
    <3>1. \A k \in DOMAIN q : q[k] \in Nat
      BY <1>3, <1>5, GivenFacts
    <3>2. \A n \in ToSet(took) : n \in Nat
      BY <1>3, GivenFacts, ToSetFacts DEF DataInv
    <3>3. QED
      BY <1>3, <1>5, <3>1, <3>2 DEF OrderInv
  <2>3. CASE c'.queue = q
    <3>1. /\ \A k \in DOMAIN q : q[k] < next' /\ InTimeframe(events[q[k]].time)
          /\ \A n \in ToSet(took) : n < next'
      BY <1>1, <1>4, <2>2
    <3>2. QED
      BY <2>1, <2>2, <2>3, <3>1 DEF OrderInv
  <2>4. CASE c'.queue = Append(q, next) /\ InTimeframe(events[next].time)
    <3>1. PICK r : r = c'.queue
      OBVIOUS
    <3>2. /\ Len(q) \in Nat /\ DOMAIN q = 1..Len(q) /\ DOMAIN r = 1..Len(q) + 1
          /\ \A k \in 1..Len(q) : r[k] = q[k]
          /\ r[Len(q) + 1] = next
      BY <1>4, <1>5, <2>4, <3>1, AppendFacts
    <3>3. \A k \in DOMAIN r : (k \in DOMAIN q /\ r[k] = q[k]) \/ (k = Len(q) + 1 /\ r[k] = next)
      BY <3>2
    <3>4. \A k \in DOMAIN r : r[k] < next' /\ InTimeframe(events[r[k]].time)
      BY <1>1, <1>4, <2>2, <2>4, <3>3
    <3>5. ASSUME NEW k \in DOMAIN r, NEW m \in DOMAIN r, k < m PROVE r[k] < r[m]
      <4>1. k \in DOMAIN q /\ r[k] = q[k]
        BY <3>2, <3>5
      <4>2. QED
        BY <2>2, <3>3, <3>5, <4>1
    <3>6. \A n \in ToSet(took) : n < next' /\ \A k \in DOMAIN r : n < r[k]
      BY <1>1, <1>4, <2>2, <3>3
    <3>7. QED
      BY <2>1, <3>1, <3>4, <3>5, <3>6 DEF OrderInv
  <2>5. QED
    BY <1>6, <2>3, <2>4
<1>9. HistoryInv' /\ WholeStays
  <2>1. \A a : PricesOf(a)' = PricesOf(a)
    BY <1>2, SameSets DEF PricesOf
  <2>2. \A a, bar : IsLatest(a, bar) => IsLatest(a, bar)'
    BY <1>2, <2>1, SameSets DEF IsLatest
  <2>3. HistoryInv'
    BY <1>2, <2>1, <2>2, SameSets DEF Inv, HistoryInv
  <2>4. WholeStays
    BY <1>2, <1>3, WholeSame DEF Inv
  <2>5. QED
    BY <2>3, <2>4
<1>10. PastStays
  BY <1>2, PastSame
<1>11. Sent' = Sent
  BY <1>2 DEF Sent
<1>12. OutInv' /\ HasStays /\ \A x \in Histories : Spare(x, Sent) => Spare(x, Sent)'
  BY <1>2, <1>3, <1>9, <1>10, <1>11, QuietSent DEF Inv
<1>13. HandInv'
  BY <1>2, <1>3, <1>12, SameSets, EventFacts DEF Inv, HandInv, DataInv
<1>14. KeptInv'
  <2>1. \A a, n : Kept(a, n) => Kept(a, n)'
    BY <1>2, <1>12, SameSets DEF Kept, HasStays
  <2>2. expiration' \in Nat /\ expiration <= expiration'
    BY <1>2, <1>3 DEF TimesInv
  <2>3. QED
    BY <1>2, <1>12, <2>1, <2>2, SameSets, KeptMoves DEF Inv, KeptInv, HasStays
<1>15. QED
  BY <1>7, <1>8, <1>9, <1>12, <1>13, <1>14 DEF Inv

-----------------------------------------------------------------------------
(* The timer                                                               *)
LEMMA TakeBarsInv ==
    ASSUME Inv, TakeBars
    PROVE  Inv'
<1>1. /\ timer = "take" /\ timer' = "send" /\ history' = Continued /\ published' = expiration
      /\ bars' = [time |-> expiration, bars |-> history, by |-> ByTimer]
      /\ next' = next /\ c' = c /\ play' = play /\ rest' = rest /\ failed' = failed
      /\ took' = took /\ seen' = seen /\ expiration' = expiration /\ dropped' = dropped
      /\ channel' = channel /\ cancelled' = cancelled /\ worker' = worker /\ handled' = handled
      /\ UNCHANGED given /\ UNCHANGED feedVars
  BY DEF TakeBars, feedVars, playVars, workerVars
<1>2. GivenInv /\ ControlInv /\ TimesInv /\ DataInv /\ OrderInv /\ HistoryInv /\ OutInv
  BY DEF Inv, StateInv
<1>3. /\ history \in Histories /\ Continued \in Histories /\ expiration \in Nat
      /\ \A a, n : ~In(a, n, Continued)
  BY <1>2, ContinuedFacts DEF DataInv, TimesInv
<1>4. GivenInv' /\ OrderInv' /\ HistoryInv' /\ WholeStays
  BY <1>1, <1>2, QuietFeed
<1>5. bars' \in Messages /\ bars'.time = expiration /\ bars'.by = ByTimer /\ bars'.bars = history
  BY <1>1, <1>3 DEF Messages
<1>6. StateInv'
  <2>1. ControlInv'
    BY <1>1, <1>2 DEF ControlInv
  <2>2. TimesInv'
    BY <1>1, <1>2, AggregatorLiveAssumption DEF TimesInv
  <2>3. DataInv'
    BY <1>1, <1>2, <1>3, <1>5, SameSets DEF DataInv
  <2>4. QED
    BY <1>4, <2>1, <2>2, <2>3 DEF StateInv
<1>7. PastStays
  BY <1>1, PastSame
<1>8. Sent' = Sent
  BY <1>1 DEF Sent
<1>9. OutInv' /\ HasStays /\ \A x \in Histories : Spare(x, Sent) => Spare(x, Sent)'
  BY <1>1, <1>2, <1>4, <1>7, <1>8, QuietSent
<1>11. PICK x : x = history
  OBVIOUS
<1>12. Spare(x, Sent)' /\ \A y \in Histories : Whole(y) => Apart(x, y) /\ Apart(y, x)
  <2>1. PICK t : t = Sent /\ t = Sent'
    BY <1>8
  <2>2. Within(t, Sent)
    BY <2>1, WithinItself
  <2>3. QED
    BY <1>1, <1>2, <1>11, <2>1, <2>2, TakenSpare
<1>13. HandInv'
  <2>1. Spare(bars.bars, Sent)'
    BY <1>5, <1>11, <1>12
  <2>2. rest.bars \in Histories
    BY <1>2, EventFacts DEF DataInv
  <2>3. play = "send" => Spare(rest.bars, Sent)' /\ Apart(x, rest.bars)
    <3>1. play = "send" => Spare(rest.bars, Sent) /\ Whole(rest.bars)
      BY DEF Inv, HandInv, Spare
    <3>2. play = "send" => Apart(x, rest.bars)
      BY <1>12, <2>2, <3>1
    <3>3. PICK y : y = rest.bars
      OBVIOUS
    <3>4. play = "send" => Spare(y, Sent)'
      BY <1>9, <2>2, <3>1, <3>3
    <3>5. QED
      BY <1>1, <3>2, <3>3, <3>4
  <2>4. play = "send" => Apart(x, rest.bars)'
    BY <1>1, <2>3, SameSets
  <2>5. QED
    BY <1>1, <1>5, <1>11, <2>1, <2>3, <2>4 DEF HandInv
<1>14. KeptInv'
  <2>1. ASSUME NEW a \in Assets, NEW n \in Positions, Kept(a, n) PROVE Kept(a, n)'
    <3>1. ~In(a, n, bars.bars)
      BY <1>1, <1>2, NoHistoryFacts DEF DataInv
    <3>2. In(a, n, history) => In(a, n, bars.bars)'
      BY <1>1, <1>5, SameSets DEF In
    <3>3. QED
      BY <1>1, <1>9, <2>1, <3>1, <3>2, SameSets DEF Kept, HasStays
  <2>2. \A a, n : ~In(a, n, history)'
    BY <1>1, <1>3, SameSets
  <2>3. expiration' \in Nat /\ expiration <= expiration'
    BY <1>1, <1>3
  <2>4. QED
    BY <1>1, <1>2, <2>1, <2>2, <2>3, KeptMoves DEF Inv, KeptInv
<1>15. QED
  BY <1>4, <1>6, <1>9, <1>13, <1>14 DEF Inv

LEMMA SendBarsInv ==
    ASSUME Inv, SendBars
    PROVE  Inv'
<1>1. /\ timer = "send" /\ timer' = "suspended" /\ ~Fails(bars) /\ channel' = SendNotEmpty(bars)
      /\ next' = next /\ c' = c /\ play' = play /\ rest' = rest /\ failed' = failed
      /\ took' = took /\ seen' = seen /\ expiration' = expiration /\ history' = history
      /\ published' = published /\ bars' = bars /\ dropped' = dropped
      /\ cancelled' = cancelled /\ worker' = worker /\ handled' = handled
      /\ UNCHANGED given /\ UNCHANGED feedVars
  BY DEF SendBars, feedVars, playVars, workerVars
<1>2. GivenInv /\ ControlInv /\ TimesInv /\ DataInv /\ OrderInv /\ HistoryInv /\ OutInv /\ HandInv
  BY DEF Inv, StateInv
<1>3. /\ bars \in Messages /\ bars.time = expiration /\ bars.by = ByTimer /\ expiration \in Nat
      /\ channel \in Channels(Messages) /\ bars.bars \in Histories
  BY <1>1, <1>2, EventFacts DEF DataInv, TimesInv
<1>4. GivenInv' /\ OrderInv' /\ HistoryInv' /\ WholeStays
  BY <1>1, <1>2, QuietFeed
<1>5. /\ channel' \in Channels(Messages)
      /\ \/ /\ channel'.queue = Append(channel.queue, bars) /\ InTimeframe(expiration)
            /\ channel'.closed <=> channel.closed
         \/ /\ channel'.queue = channel.queue
            /\ bars.bars = NoHistory \/ ~InTimeframe(expiration)
            /\ channel'.closed <=>
                (channel.closed \/ (bars.bars # NoHistory /\ AfterTimeframe(expiration)))
  <2>1. CASE bars.bars = NoHistory
    BY <1>1, <1>3, <2>1 DEF SendNotEmpty
  <2>2. CASE bars.bars # NoHistory
    <3>1. PICK n : n = channel'
      OBVIOUS
    <3>2. n = Send(channel, bars, expiration) /\ ~SendFails(channel, expiration)
      BY <1>1, <1>3, <2>2, <3>1 DEF SendNotEmpty, Fails
    <3>3. /\ n \in Channels(Messages)
          /\ \/ /\ n.queue = Append(channel.queue, bars) /\ InTimeframe(expiration)
                /\ n.closed <=> channel.closed
             \/ /\ n.queue = channel.queue /\ ~InTimeframe(expiration)
                /\ n.closed <=> (channel.closed \/ AfterTimeframe(expiration))
      BY <1>3, <3>2, SendFacts
    <3>4. QED
      BY <2>2, <3>1, <3>3
  <2>3. QED
    BY <2>1, <2>2
<1>6. StateInv'
  <2>1. ControlInv'
    BY <1>1, <1>2 DEF ControlInv
  <2>2. TimesInv'
    BY <1>1, <1>2 DEF TimesInv
  <2>3. DataInv'
    BY <1>1, <1>2, <1>5, SameSets DEF DataInv
  <2>4. QED
    BY <1>4, <2>1, <2>2, <2>3 DEF StateInv
<1>7. PastStays
  BY <1>1, PastSame
<1>8. Spare(bars.bars, Sent) /\
      (play = "send" => Spare(rest.bars, Sent) /\ Apart(bars.bars, rest.bars))
  BY <1>1, <1>2 DEF HandInv
<1>9. rest.bars \in Histories
  BY <1>2, EventFacts DEF DataInv
<1>10. OutInv' /\ HasStays /\ (play = "send" => Spare(rest.bars, Sent)')
       /\ (InTimeframe(expiration) => \A a, n : In(a, n, bars.bars) => Has(a, n, Sent)')
  <2>1. PICK t : t = Sent'
    OBVIOUS
  <2>2. CASE channel'.queue = Append(channel.queue, bars) /\ InTimeframe(expiration)
    <3>1. Longer(t, Sent, bars)
      BY <1>1, <1>2, <1>3, <2>1, <2>2, SentEffects
    <3>2. IsPast(bars)'
      BY <1>1, <1>3, <2>2 DEF IsPast
    <3>3. \A k \in DOMAIN Sent : InOrder(Sent[k], bars)
      <4>1. ASSUME NEW k \in DOMAIN Sent, Sent[k].by = ByTimer PROVE Sent[k].time < expiration
        <5>1. IsPast(Sent[k]) /\ Sent[k].time \in Nat
          BY <1>2, SentFacts DEF OutInv, Fits
        <5>2. Sent[k].time <= expiration /\ Sent[k].time # expiration
          BY <1>1, <4>1, <5>1 DEF IsPast
        <5>3. QED
          BY <1>3, <5>1, <5>2
      <4>2. QED
        BY <1>3, <4>1 DEF InOrder
    <3>4. /\ OutInv'
          /\ \A x \in Histories : Spare(x, Sent) /\ Apart(bars.bars, x) => Spare(x, Sent)'
          /\ HasStays /\ \A a, n : In(a, n, bars.bars) => Has(a, n, Sent)'
      BY <1>1, <1>2, <1>3, <1>4, <1>7, <1>8, <2>1, <3>1, <3>2, <3>3, StepLonger
    <3>5. QED
      BY <1>1, <1>8, <1>9, <3>4
  <2>3. CASE channel'.queue = channel.queue /\ (bars.bars = NoHistory \/ ~InTimeframe(expiration))
    <3>1. Sent' = Sent
      BY <1>1, <2>3 DEF Sent
    <3>2. OutInv' /\ HasStays /\ \A x \in Histories : Spare(x, Sent) => Spare(x, Sent)'
      BY <1>1, <1>2, <1>4, <1>7, <3>1, QuietSent
    <3>3. InTimeframe(expiration) => \A a, n : ~In(a, n, bars.bars)
      BY <2>3, NoHistoryFacts DEF In
    <3>4. QED
      BY <1>1, <1>8, <1>9, <3>2, <3>3
  <2>4. QED
    BY <1>5, <2>2, <2>3
<1>11. HandInv'
  BY <1>1, <1>10 DEF HandInv
<1>12. KeptInv'
  <2>1. \A a, n : Kept(a, n) => Kept(a, n)'
    BY <1>1, <1>10, SameSets DEF Kept, HasStays
  <2>2. InTime => InTimeframe(expiration) /\ ~AfterTimeframe(expiration)
    BY <1>2, InTimeFacts, AggregatorLiveAssumption DEF TimesInv
  <2>3. InTime => /\ channel'.closed <=> channel.closed
                  /\ channel.closed => channel'.queue = channel.queue
    <3>1. channel.closed /\ InTimeframe(expiration) => bars.bars = NoHistory
      BY <1>1, <1>3 DEF Fails, SendFails
    <3>2. bars.bars = NoHistory => channel' = channel
      BY <1>1 DEF SendNotEmpty
    <3>3. QED
      BY <1>5, <2>2, <3>1, <3>2
  <2>4. InTime => \A a, n : In(a, n, bars.bars)' => Has(a, n, Sent)'
    BY <1>1, <1>10, <2>2, SameSets
  <2>5. expiration' \in Nat /\ expiration <= expiration'
    BY <1>1, <1>3
  <2>6. \A a, n : In(a, n, history)' <=> In(a, n, history)
    BY <1>1, SameSets
  <2>7. QED
    BY <1>1, <1>2, <2>1, <2>3, <2>4, <2>5, <2>6, KeptMoves DEF Inv, KeptInv
<1>13. QED
  BY <1>4, <1>6, <1>10, <1>11, <1>12 DEF Inv

LEMMA SendBarsFailsInv ==
    ASSUME Inv, SendBarsFails
    PROVE  Inv'
<1>1. /\ timer = "send" /\ timer' = "stopped" /\ bars' = NoBars /\ dropped' = bars
      /\ next' = next /\ c' = c /\ play' = play /\ rest' = rest /\ failed' = failed
      /\ took' = took /\ seen' = seen /\ expiration' = expiration /\ history' = history
      /\ published' = published /\ channel' = channel
      /\ cancelled' = cancelled /\ worker' = worker /\ handled' = handled
      /\ UNCHANGED given /\ UNCHANGED feedVars
  BY DEF SendBarsFails, feedVars, playVars, workerVars
<1>2. GivenInv /\ ControlInv /\ TimesInv /\ DataInv /\ OrderInv /\ HistoryInv /\ OutInv /\ HandInv
  BY DEF Inv, StateInv
<1>3. GivenInv' /\ OrderInv' /\ HistoryInv' /\ WholeStays
  BY <1>1, <1>2, QuietFeed
<1>4. StateInv'
  <2>1. ControlInv'
    BY <1>1, <1>2 DEF ControlInv
  <2>2. TimesInv'
    BY <1>1, <1>2 DEF TimesInv
  <2>3. DataInv'
    BY <1>1, <1>2, NoHistoryFacts, SameSets DEF DataInv
  <2>4. QED
    BY <1>3, <2>1, <2>2, <2>3 DEF StateInv
<1>5. OutInv' /\ HasStays /\ \A x \in Histories : Spare(x, Sent) => Spare(x, Sent)'
  <2>1. PastStays
    BY <1>1, PastSame
  <2>2. Sent' = Sent
    BY <1>1 DEF Sent
  <2>3. QED
    BY <1>1, <1>2, <1>3, <2>1, <2>2, QuietSent
<1>6. HandInv'
  <2>1. rest.bars \in Histories
    BY <1>2, EventFacts DEF DataInv
  <2>2. QED
    BY <1>1, <1>2, <1>5, <2>1 DEF HandInv
<1>7. KeptInv'
  <2>1. \A a, n : Kept(a, n) => Kept(a, n)'
    <3>1. \A a, n : ~In(a, n, dropped.bars) /\ (In(a, n, bars.bars) => In(a, n, dropped.bars)')
      <4>1. dropped.bars = NoHistory
        BY <1>1, <1>2 DEF DataInv, NoBars
      <4>2. DOMAIN dropped.bars = {}
        BY <4>1, NoHistoryFacts
      <4>3. QED
        BY <1>1, <4>2, SameSets DEF In
    <3>2. QED
      BY <1>1, <1>5, <3>1, SameSets DEF Kept, HasStays
  <2>2. expiration' \in Nat /\ expiration <= expiration'
    BY <1>1, <1>2 DEF TimesInv
  <2>3. \A a, n : In(a, n, history)' <=> In(a, n, history)
    BY <1>1, SameSets
  <2>4. QED
    BY <1>1, <1>2, <2>1, <2>2, <2>3, KeptMoves DEF Inv, KeptInv
<1>8. QED
  BY <1>3, <1>4, <1>5, <1>6, <1>7 DEF Inv

LEMMA MinFacts ==
    ASSUME NEW x \in Nat, NEW y \in Nat
    PROVE  Min({x, y}) \in {x, y} /\ Min({x, y}) <= x /\ Min({x, y}) <= y
<1>1. \E z \in {x, y} : \A w \in {x, y} : z <= w
  <2>1. CASE x <= y
    BY <2>1
  <2>2. CASE ~(x <= y)
    BY <2>2
  <2>3. QED
    BY <2>1, <2>2
<1>2. QED
  BY <1>1 DEF Min

LEMMA NextPeriodInv ==
    ASSUME Inv, NextPeriod
    PROVE  Inv'
<1>1. /\ timer = "suspended" /\ timer' = "delay" /\ bars' = NoBars
      /\ expiration' = Min({expiration + Period, LastEnd})
      /\ next' = next /\ c' = c /\ play' = play /\ rest' = rest /\ failed' = failed
      /\ took' = took /\ seen' = seen /\ dropped' = dropped /\ history' = history
      /\ published' = published /\ channel' = channel
      /\ cancelled' = cancelled /\ worker' = worker /\ handled' = handled
      /\ UNCHANGED given /\ UNCHANGED feedVars
  BY DEF NextPeriod, feedVars, playVars, workerVars
<1>2. GivenInv /\ ControlInv /\ TimesInv /\ DataInv /\ OrderInv /\ HistoryInv /\ OutInv /\ HandInv
  BY DEF Inv, StateInv
<1>3. /\ expiration \in Nat /\ Period \in Nat \ {0} /\ LastEnd \in Nat /\ expiration <= LastEnd
      /\ published = expiration /\ FirstEnd \in Nat /\ published \in Nat
  BY <1>1, <1>2, AggregatorLiveAssumption DEF TimesInv
<1>4. /\ expiration' \in Nat /\ expiration <= expiration' /\ expiration' <= LastEnd
      /\ expiration' <= expiration + Period /\ (expiration < LastEnd => expiration < expiration')
  <2>1. PICK z, w : z = Min({w, LastEnd}) /\ w = expiration + Period /\ z = expiration'
    BY <1>1
  <2>2. w \in Nat /\ LastEnd \in Nat
    BY <1>3, <2>1
  <2>3. Min({w, LastEnd}) \in {w, LastEnd} /\ Min({w, LastEnd}) <= w /\ Min({w, LastEnd}) <= LastEnd
    BY <2>2, MinFacts
  <2>4. z \in {w, LastEnd} /\ z <= w /\ z <= LastEnd
    BY <2>1, <2>3
  <2>5. QED
    BY <1>3, <2>1, <2>2, <2>4
<1>5. GivenInv' /\ OrderInv' /\ HistoryInv' /\ WholeStays
  BY <1>1, <1>2, QuietFeed
<1>6. StateInv'
  <2>1. ControlInv'
    BY <1>1, <1>2 DEF ControlInv
  <2>2. TimesInv'
    BY <1>1, <1>2, <1>3, <1>4 DEF TimesInv
  <2>3. DataInv'
    <3>1. play = "send" => rest.by = ByPlay /\ rest.time \in FirstEnd..expiration'
      BY <1>2, <1>3, <1>4 DEF DataInv
    <3>2. QED
      BY <1>1, <1>2, <3>1, NoHistoryFacts, SameSets DEF DataInv
  <2>4. QED
    BY <1>5, <2>1, <2>2, <2>3 DEF StateInv
<1>7. PastStays
  <2>1. ASSUME NEW e \in Messages, IsPast(e), e.by = ByTimer
        PROVE  InTimeframe(e.time) /\ e.time <= expiration' /\ e.time # expiration'
    <3>1. e.time \in Nat /\ InTimeframe(e.time) /\ e.time <= expiration
      BY <2>1, EventFacts DEF IsPast
    <3>2. e.time # LastEnd
      BY <3>1, TimeframeFacts, AggregatorLiveAssumption
    <3>3. QED
      BY <1>3, <1>4, <3>1, <3>2
  <2>2. QED
    BY <2>1 DEF PastStays, IsPast
<1>8. OutInv' /\ HasStays /\ \A x \in Histories : Spare(x, Sent) => Spare(x, Sent)'
  <2>1. Sent' = Sent
    BY <1>1 DEF Sent
  <2>2. QED
    BY <1>1, <1>2, <1>5, <1>7, <2>1, QuietSent
<1>9. HandInv'
  <2>1. rest.bars \in Histories
    BY <1>2, EventFacts DEF DataInv
  <2>2. QED
    BY <1>1, <1>2, <1>8, <2>1 DEF HandInv
<1>10. KeptInv'
  <2>1. InTime => \A a \in Assets, n \in Positions : Kept(a, n) => Kept(a, n)'
    <3>1. InTime => \A a \in Assets, n \in Positions : In(a, n, bars.bars) => Has(a, n, Sent)
      BY <1>1 DEF Inv, KeptInv
    <3>2. QED
      BY <1>1, <1>8, <3>1, SameSets DEF Kept, HasStays
  <2>2. \A a, n : In(a, n, history)' <=> In(a, n, history)
    BY <1>1, SameSets
  <2>3. QED
    BY <1>1, <1>2, <1>4, <2>1, <2>2, KeptMoves DEF Inv, KeptInv
<1>11. QED
  BY <1>5, <1>6, <1>8, <1>9, <1>10 DEF Inv

LEMMA WakeUpInv ==
    ASSUME Inv, WakeUp
    PROVE  Inv'
<1>1. /\ timer = "delay" /\ timer' = "take" /\ bars' = bars /\ expiration' = expiration
      /\ next' = next /\ c' = c /\ play' = play /\ rest' = rest /\ failed' = failed
      /\ took' = took /\ seen' = seen /\ dropped' = dropped /\ history' = history
      /\ published' = published /\ channel' = channel
      /\ cancelled' = cancelled /\ worker' = worker /\ handled' = handled
      /\ UNCHANGED given /\ UNCHANGED feedVars
  BY DEF WakeUp, feedVars, playVars, workerVars
<1>2. GivenInv /\ ControlInv /\ TimesInv /\ DataInv /\ OrderInv /\ HistoryInv /\ OutInv /\ HandInv
  BY DEF Inv, StateInv
<1>3. GivenInv' /\ OrderInv' /\ HistoryInv' /\ WholeStays
  BY <1>1, <1>2, QuietFeed
<1>4. StateInv'
  <2>1. ControlInv'
    BY <1>1, <1>2 DEF ControlInv
  <2>2. TimesInv'
    BY <1>1, <1>2 DEF TimesInv
  <2>3. DataInv'
    BY <1>1, <1>2, SameSets DEF DataInv
  <2>4. QED
    BY <1>3, <2>1, <2>2, <2>3 DEF StateInv
<1>5. OutInv' /\ HasStays /\ \A x \in Histories : Spare(x, Sent) => Spare(x, Sent)'
  <2>1. PastStays
    BY <1>1, PastSame
  <2>2. Sent' = Sent
    BY <1>1 DEF Sent
  <2>3. QED
    BY <1>1, <1>2, <1>3, <2>1, <2>2, QuietSent
<1>6. HandInv'
  <2>1. rest.bars \in Histories
    BY <1>2, EventFacts DEF DataInv
  <2>2. QED
    BY <1>1, <1>2, <1>5, <2>1 DEF HandInv
<1>7. KeptInv'
  <2>1. \A a, n : Kept(a, n) => Kept(a, n)'
    BY <1>1, <1>5, SameSets DEF Kept, HasStays
  <2>2. expiration' \in Nat /\ expiration <= expiration'
    BY <1>1, <1>2 DEF TimesInv
  <2>3. \A a, n : In(a, n, history)' <=> In(a, n, history)
    BY <1>1, SameSets
  <2>4. QED
    BY <1>1, <1>2, <2>1, <2>2, <2>3, KeptMoves DEF Inv, KeptInv
<1>8. QED
  BY <1>3, <1>4, <1>5, <1>6, <1>7 DEF Inv

LEMMA StopTimerInv ==
    ASSUME Inv, StopTimer
    PROVE  Inv'
<1>1. /\ play = "stopped" /\ timer \in {"suspended", "delay"} /\ timer' = "stopped"
      /\ bars' = NoBars /\ channel' = TakenBack(bars)
      /\ dropped' = (IF Buffered(channel, bars) THEN dropped ELSE bars)
      /\ next' = next /\ c' = c /\ play' = play /\ rest' = rest /\ failed' = failed
      /\ took' = took /\ seen' = seen /\ expiration' = expiration /\ history' = history
      /\ published' = published
      /\ cancelled' = cancelled /\ worker' = worker /\ handled' = handled
      /\ UNCHANGED given /\ UNCHANGED feedVars
  BY DEF StopTimer, feedVars, playVars, workerVars
<1>2. GivenInv /\ ControlInv /\ TimesInv /\ DataInv /\ OrderInv /\ HistoryInv /\ OutInv
  BY DEF Inv, StateInv
<1>3. GivenInv' /\ OrderInv' /\ HistoryInv' /\ WholeStays
  BY <1>1, <1>2, QuietFeed
<1>4. bars \in Messages /\ dropped \in Messages
  BY <1>2 DEF DataInv
<1>5. /\ WithoutOne(channel', channel, bars, Messages)
      /\ Buffered(channel, bars) => channel' = channel
      /\ channel.queue = <<>> => Buffered(channel, bars)
  BY <1>1, <1>2, <1>4, TakenBackFacts
<1>6. channel' \in Channels(Messages) /\ channel'.closed = channel.closed
  BY <1>5 DEF WithoutOne
<1>7. StateInv'
  <2>1. ControlInv'
    BY <1>1, <1>2 DEF ControlInv
  <2>2. TimesInv'
    BY <1>1, <1>2 DEF TimesInv
  <2>3. DataInv'
    BY <1>1, <1>2, <1>4, <1>6, NoHistoryFacts, SameSets DEF DataInv
  <2>4. QED
    BY <1>3, <2>1, <2>2, <2>3 DEF StateInv
<1>8. PICK t : t = Sent'
  OBVIOUS
<1>9. /\ Within(t, Sent)
      /\ \A k \in DOMAIN Sent : Sent[k] = bars \/ \E m \in DOMAIN t : t[m] = Sent[k]
  BY <1>1, <1>2, <1>4, <1>5, <1>8, SentEffects
<1>10. OutInv'
  <2>1. PastStays
    BY <1>1, PastSame
  <2>2. QED
    BY <1>1, <1>2, <1>3, <1>8, <1>9, <2>1, StepWithin
<1>11. HandInv'
  BY <1>1 DEF HandInv
<1>12. KeptInv'
  <2>1. ASSUME InTime, NEW a \in Assets, NEW n \in Positions, Kept(a, n) PROVE Kept(a, n)'
    <3>1. ~In(a, n, dropped.bars)
      BY <1>1, <1>2, NoHistoryFacts DEF DataInv
    <3>2. CASE Buffered(channel, bars)
      <4>1. Sent' = Sent
        BY <1>1, <1>5, <3>2 DEF Sent
      <4>2. Has(a, n, Sent) => Has(a, n, Sent)'
        BY <1>1, <4>1, SameSets DEF Has
      <4>3. In(a, n, bars.bars) => Has(a, n, Sent)
        <5>1. CASE timer = "suspended"
          BY <2>1, <5>1 DEF Inv, KeptInv
        <5>2. CASE timer = "delay"
          BY <1>2, <5>2, NoHistoryFacts DEF DataInv
        <5>3. QED
          BY <1>1, <5>1, <5>2
      <4>4. QED
        BY <1>1, <2>1, <3>1, <4>2, <4>3, SameSets DEF Kept
    <3>3. CASE ~Buffered(channel, bars)
      <4>1. In(a, n, bars.bars) => In(a, n, dropped.bars)'
        BY <1>1, <3>3, SameSets
      <4>2. Has(a, n, Sent) => Has(a, n, Sent)' \/ In(a, n, dropped.bars)'
        <5>1. SUFFICES ASSUME NEW k \in DOMAIN Sent, In(a, n, Sent[k].bars)
                       PROVE  Has(a, n, Sent)' \/ In(a, n, dropped.bars)'
          BY DEF Has
        <5>2. CASE Sent[k] = bars
          BY <4>1, <5>1, <5>2
        <5>3. CASE \E m \in DOMAIN t : t[m] = Sent[k]
          BY <1>1, <1>8, <5>1, <5>3, SameSets DEF Has
        <5>4. QED
          BY <1>9, <5>2, <5>3
      <4>3. QED
        BY <1>1, <2>1, <3>1, <4>1, <4>2, SameSets DEF Kept
    <3>4. QED
      BY <3>2, <3>3
  <2>2. expiration' \in Nat /\ expiration <= expiration'
    BY <1>1, <1>2 DEF TimesInv
  <2>3. \A a, n : In(a, n, history)' <=> In(a, n, history)
    BY <1>1, SameSets
  <2>4. QED
    BY <1>1, <1>2, <1>5, <1>6, <2>1, <2>2, <2>3, KeptMoves DEF Inv, KeptInv
<1>13. QED
  BY <1>3, <1>7, <1>10, <1>11, <1>12 DEF Inv

-----------------------------------------------------------------------------
(* play()                                                                  *)
LEMMA StartPlayInv ==
    ASSUME Inv, StartPlay
    PROVE  Inv'
<1>1. /\ play = "new" /\ ~cancelled /\ play' = "receive" /\ timer' = "delay"
      /\ next' = next /\ c' = c /\ rest' = rest /\ failed' = failed /\ bars' = bars
      /\ took' = took /\ seen' = seen /\ expiration' = expiration /\ history' = history
      /\ published' = published /\ channel' = channel /\ dropped' = dropped
      /\ cancelled' = cancelled /\ worker' = worker /\ handled' = handled
      /\ UNCHANGED given /\ UNCHANGED feedVars
  BY DEF StartPlay, feedVars, workerVars
<1>2. GivenInv /\ ControlInv /\ TimesInv /\ DataInv /\ OrderInv /\ HistoryInv /\ OutInv
  BY DEF Inv, StateInv
<1>3. GivenInv' /\ OrderInv' /\ HistoryInv' /\ WholeStays
  BY <1>1, <1>2, QuietFeed
<1>4. timer = "idle" 
  BY <1>1, <1>2 DEF ControlInv
<1>5. StateInv'
  <2>1. ControlInv'
    BY <1>1, <1>2 DEF ControlInv
  <2>2. TimesInv'
    BY <1>1, <1>2 DEF TimesInv
  <2>3. DataInv'
    BY <1>1, <1>2, <1>4, SameSets DEF DataInv
  <2>4. QED
    BY <1>3, <2>1, <2>2, <2>3 DEF StateInv
<1>6. OutInv' /\ HasStays
  <2>1. PastStays
    BY <1>1, <1>4, PastSame
  <2>2. Sent' = Sent
    BY <1>1 DEF Sent
  <2>3. QED
    BY <1>1, <1>2, <1>3, <2>1, <2>2, QuietSent
<1>7. HandInv'
  BY <1>1, <1>4 DEF HandInv
<1>8. KeptInv'
  <2>1. \A a, n : Kept(a, n) => Kept(a, n)'
    BY <1>1, <1>6, SameSets DEF Kept, HasStays
  <2>2. expiration' \in Nat /\ expiration <= expiration'
    BY <1>1, <1>2 DEF TimesInv
  <2>3. InTime => ~channel.closed /\ worker # "finished" /\ ~cancelled
    BY <1>1, <1>2 DEF Inv, KeptInv, InTime, ControlInv
  <2>4. QED
    BY <1>1, <1>4, <2>1, <2>2, <2>3, KeptMoves
<1>9. QED
  BY <1>3, <1>5, <1>6, <1>7, <1>8 DEF Inv

LEMMA NeverStartedInv ==
    ASSUME Inv, NeverStarted
    PROVE  Inv'
<1>1. /\ play = "new" /\ cancelled /\ play' = "stopped" /\ timer' = timer
      /\ next' = next /\ c' = c /\ rest' = rest /\ failed' = failed /\ bars' = bars
      /\ took' = took /\ seen' = seen /\ expiration' = expiration /\ history' = history
      /\ published' = published /\ channel' = channel /\ dropped' = dropped
      /\ cancelled' = cancelled /\ worker' = worker /\ handled' = handled
      /\ UNCHANGED given /\ UNCHANGED feedVars
  BY DEF NeverStarted, feedVars, timerVars, workerVars
<1>2. GivenInv /\ ControlInv /\ TimesInv /\ DataInv /\ OrderInv /\ HistoryInv /\ OutInv
  BY DEF Inv, StateInv
<1>3. GivenInv' /\ OrderInv' /\ HistoryInv' /\ WholeStays
  BY <1>1, <1>2, QuietFeed
<1>4. timer = "idle" 
  BY <1>1, <1>2 DEF ControlInv
<1>5. StateInv'
  <2>1. ControlInv'
    BY <1>1, <1>2 DEF ControlInv
  <2>2. TimesInv'
    BY <1>1, <1>2 DEF TimesInv
  <2>3. DataInv'
    BY <1>1, <1>2, <1>4, SameSets DEF DataInv
  <2>4. QED
    BY <1>3, <2>1, <2>2, <2>3 DEF StateInv
<1>6. OutInv' /\ HasStays
  <2>1. PastStays
    BY <1>1, <1>4, PastSame
  <2>2. Sent' = Sent
    BY <1>1 DEF Sent
  <2>3. QED
    BY <1>1, <1>2, <1>3, <2>1, <2>2, QuietSent
<1>7. HandInv'
  BY <1>1, <1>4 DEF HandInv
<1>8. KeptInv'
  <2>1. ~InTime
    BY <1>1, <1>2 DEF Inv, KeptInv, InTime, ControlInv
  <2>2. InTime' => InTime
    BY <1>1 DEF InTime
  <2>3. QED
    BY <2>1, <2>2 DEF KeptInv
<1>9. QED
  BY <1>3, <1>5, <1>6, <1>7, <1>8 DEF Inv

(* An event that play() has received.                                      *)
LEMMA ReceiveOrder ==
    ASSUME GivenInv, DataInv, OrderInv, UNCHANGED given, next' = next,
           CanReceive(c), c' = Receive(c),
           NEW n, n = NextEvent, \A m \in ToSet(took') : m \in ToSet(took) \/ m = n
    PROVE  /\ OrderInv' /\ c' \in Channels(Positions)
           /\ n \in Positions /\ events[n].time \in Nat /\ InTimeframe(events[n].time)
<1>1. PICK q, r : q = c.queue /\ r = c'.queue
  OBVIOUS
<1>2. c \in Channels(Positions) /\ events' = events
  BY SameSets DEF DataInv
<1>3. /\ c' \in Channels(Positions) /\ n \in Positions /\ n = q[1] /\ 1 \in DOMAIN q
      /\ \A k \in DOMAIN r : k + 1 \in DOMAIN q /\ r[k] = q[k + 1] /\ k + 1 > 1 /\ k \in Nat
  BY <1>1, <1>2, ReceiveFacts DEF NextEvent
<1>4. /\ \A k \in DOMAIN q : q[k] < next /\ InTimeframe(events[q[k]].time)
      /\ \A k, m \in DOMAIN q : k < m => q[k] < q[m]
      /\ \A m \in ToSet(took) : m < next /\ \A k \in DOMAIN q : m < q[k]
  BY <1>1 DEF OrderInv
<1>5. \A k \in DOMAIN r : r[k] < next /\ InTimeframe(events[r[k]].time) /\ n < r[k]
  BY <1>3, <1>4
<1>6. ASSUME NEW k \in DOMAIN r, NEW m \in DOMAIN r, k < m PROVE r[k] < r[m]
  <2>1. k + 1 \in DOMAIN q /\ m + 1 \in DOMAIN q /\ k + 1 < m + 1
    BY <1>3, <1>6
  <2>2. q[k + 1] < q[m + 1]
    BY <1>4, <2>1
  <2>3. QED
    BY <1>3, <2>2
<1>7. \A m \in ToSet(took') : m < next /\ \A k \in DOMAIN r : m < r[k]
  <2>1. \A m \in ToSet(took) : m < next /\ \A k \in DOMAIN r : m < r[k]
    BY <1>3, <1>4
  <2>2. n < next /\ \A k \in DOMAIN r : n < r[k]
    BY <1>3, <1>4, <1>5
  <2>3. QED
    BY <2>1, <2>2
<1>8. OrderInv'
  BY <1>1, <1>2, <1>5, <1>6, <1>7 DEF OrderInv
<1>9. QED
  BY <1>3, <1>4, <1>8, GivenFacts

LEMMA AddPricesInv ==
    ASSUME Inv, AddPrices
    PROVE  Inv'
<1>1. /\ play = "receive" /\ CanReceive(c) /\ c' = Receive(c) /\ seen' = published
      /\ next' = next /\ play' = play /\ rest' = rest /\ failed' = failed /\ bars' = bars
      /\ expiration' = expiration /\ timer' = timer
      /\ published' = published /\ channel' = channel /\ dropped' = dropped
      /\ cancelled' = cancelled /\ worker' = worker /\ handled' = handled
      /\ UNCHANGED given
  BY DEF AddPrices, timerVars, workerVars
<1>2. GivenInv /\ ControlInv /\ TimesInv /\ DataInv /\ OrderInv /\ HistoryInv /\ OutInv
  BY DEF Inv, StateInv
<1>3. PICK n, h : n = NextEvent /\ h = history'
  OBVIOUS
<1>4. /\ n \in Positions /\ n \in Nat \ {0} /\ took' = Append(took, n) /\ took' \in Seq(Positions)
      /\ history' = AddPrice(history, n)
      /\ \A a, m : m \in PricesOf(a)' <=> m \in PricesOf(a) \/ (m = n /\ a \in events[n].items)
  BY <1>2, <1>3, NewPrice
<1>5. /\ h \in Histories
      /\ \A a, m : In(a, m, h) <=> In(a, m, history) \/ (m = n /\ a \in events[n].items)
  <2>1. h = AddPrice(history, n)
    BY <1>3, <1>4
  <2>2. QED
    BY <1>2, <1>4, <2>1, AddPriceFacts
<1>6. OrderInv' /\ c' \in Channels(Positions)
  <2>1. \A m \in ToSet(took') : m \in ToSet(took) \/ m = n
    BY <1>2, <1>4, ToSetFacts DEF DataInv
  <2>2. QED
    BY <1>1, <1>2, <1>3, <2>1, ReceiveOrder
<1>7. HistoryInv' /\ WholeStays
  BY <1>2, AddPricesHistory, AddPricesWhole
<1>8. StateInv'
  <2>1. ControlInv'
    BY <1>1, <1>2 DEF ControlInv
  <2>2. TimesInv'
    BY <1>1, <1>2, AggregatorLiveAssumption DEF TimesInv
  <2>3. DataInv'
    BY <1>1, <1>2, <1>3, <1>4, <1>5, <1>6, SameSets DEF DataInv
  <2>4. QED
    BY <1>1, <1>2, <2>1, <2>2, <2>3, SameSets DEF StateInv
<1>9. OutInv' /\ HasStays /\ \A x \in Histories : Spare(x, Sent) => Spare(x, Sent)'
  <2>1. PastStays
    BY <1>1, PastSame
  <2>2. Sent' = Sent
    BY <1>1 DEF Sent
  <2>3. QED
    BY <1>1, <1>2, <1>7, <2>1, <2>2, QuietSent
<1>10. HandInv'
  <2>1. bars.bars \in Histories
    BY <1>2, EventFacts DEF DataInv
  <2>2. QED
    BY <1>1, <1>9, <2>1 DEF Inv, HandInv
<1>11. KeptInv'
  <2>1. SUFFICES ASSUME InTime' PROVE KeptInv'
    BY DEF KeptInv
  <2>2. InTime
    BY <1>1, <2>1 DEF InTime
  <2>3. \A a, m : In(a, m, history)' <=> In(a, m, h)
    BY <1>1, <1>3, SameSets
  <2>4. ASSUME NEW a \in Assets, NEW m \in PricesOf(a)' PROVE Kept(a, m)'
    <3>1. CASE m \in PricesOf(a)
      <4>1. Kept(a, m)
        BY <2>2, <3>1 DEF Inv, KeptInv
      <4>2. In(a, m, history) => In(a, m, history)'
        BY <1>5, <2>3
      <4>3. QED
        BY <1>1, <1>9, <4>1, <4>2, SameSets DEF Kept, HasStays
    <3>2. CASE m = n /\ a \in events[n].items
      BY <1>5, <2>3, <3>2 DEF Kept
    <3>3. QED
      BY <1>4, <2>4, <3>1, <3>2
  <2>5. timer = "suspended" => \A a \in Assets, m \in Positions :
                                In(a, m, bars.bars)' => Has(a, m, Sent)'
    BY <1>1, <1>9, <2>2, SameSets DEF Inv, KeptInv, HasStays
  <2>6. /\ channel.closed => play = "stopped"
        /\ worker = "finished" => channel.closed /\ channel.queue = <<>>
    BY <2>2 DEF Inv, KeptInv
  <2>7. Positions' = Positions
    BY <1>1, SameSets
  <2>8. QED
    BY <1>1, <2>4, <2>5, <2>6, <2>7 DEF KeptInv
<1>12. QED
  BY <1>6, <1>7, <1>8, <1>9, <1>10, <1>11 DEF Inv

LEMMA PassHeartbeatInv ==
    ASSUME Inv, PassHeartbeat
    PROVE  Inv'
<1>1. /\ play = "receive" /\ play' = "heartbeat" /\ CanReceive(c) /\ c' = Receive(c)
      /\ ~SendFails(channel, events[NextEvent].time) /\ rest' = Heartbeat(NextEvent)
      /\ channel' = Send(channel, rest', rest'.time)
      /\ next' = next /\ failed' = failed /\ bars' = bars /\ took' = took /\ seen' = seen
      /\ expiration' = expiration /\ timer' = timer /\ history' = history
      /\ published' = published /\ dropped' = dropped
      /\ cancelled' = cancelled /\ worker' = worker /\ handled' = handled
      /\ UNCHANGED given
  BY DEF PassHeartbeat, timerVars, workerVars
<1>2. GivenInv /\ ControlInv /\ TimesInv /\ DataInv /\ OrderInv /\ HistoryInv /\ OutInv
  BY DEF Inv, StateInv
<1>3. PICK n, e, ch : n = NextEvent /\ e = rest' /\ ch = channel'
  OBVIOUS
<1>4. /\ OrderInv' /\ c' \in Channels(Positions)
      /\ n \in Positions /\ events[n].time \in Nat /\ InTimeframe(events[n].time)
  <2>1. \A m \in ToSet(took') : m \in ToSet(took) \/ m = n
    BY <1>1
  <2>2. QED
    BY <1>1, <1>2, <1>3, <2>1, ReceiveOrder
<1>5. e \in Messages /\ e.bars = NoHistory /\ e.by = n /\ e.time = events[n].time
  <2>1. e = [time |-> events[n].time, bars |-> NoHistory, by |-> n]
    BY <1>1, <1>3 DEF Heartbeat
  <2>2. QED
    BY <1>4, <2>1, NoHistoryFacts DEF Messages
<1>6. e.by # ByTimer
  BY <1>2, <1>4, <1>5, GivenFacts DEF ByTimer
<1>7. ch \in Channels(Messages) /\ ch.queue = Append(channel.queue, e) /\
      (ch.closed <=> channel.closed)
  <2>1. PICK tm : tm = e.time
    OBVIOUS
  <2>2. /\ ch = Send(channel, e, tm) /\ tm \in Nat /\ InTimeframe(tm) /\ ~SendFails(channel, tm)
        /\ channel \in Channels(Messages)
    BY <1>1, <1>2, <1>3, <1>4, <1>5, <2>1 DEF DataInv
  <2>3. QED
    BY <1>5, <2>2, SendFacts
<1>8. GivenInv' /\ HistoryInv' /\ WholeStays
  <2>1. \A a : PricesOf(a)' = PricesOf(a)
    BY <1>1, SameSets DEF PricesOf
  <2>2. \A a, bar : IsLatest(a, bar) => IsLatest(a, bar)'
    BY <1>1, <2>1, SameSets DEF IsLatest
  <2>3. HistoryInv'
    BY <1>1, <2>1, <2>2, SameSets DEF Inv, HistoryInv
  <2>4. WholeStays
    BY <1>1, <1>2, WholeSame DEF Inv
  <2>5. QED
    BY <1>1, <1>2, <2>3, <2>4, SameSets
<1>9. StateInv'
  <2>1. ControlInv'
    BY <1>1, <1>2 DEF ControlInv
  <2>2. TimesInv'
    BY <1>1, <1>2 DEF TimesInv
  <2>3. DataInv'
    BY <1>1, <1>2, <1>3, <1>4, <1>5, <1>7, SameSets DEF DataInv
  <2>4. QED
    BY <1>8, <2>1, <2>2, <2>3 DEF StateInv
<1>10. \A a, m : ~In(a, m, e.bars)
  BY <1>5, NoHistoryFacts DEF In
<1>11. /\ OutInv' /\ HasStays
       /\ \A x \in Histories : Spare(x, Sent) /\ Apart(e.bars, x) => Spare(x, Sent)'
  <2>1. PastStays
    BY <1>1, PastSame
  <2>2. PICK t : t = Sent'
    OBVIOUS
  <2>3. Longer(t, Sent, e)
    BY <1>1, <1>2, <1>3, <1>5, <1>7, <2>2, SentEffects
  <2>4. Spare(e.bars, Sent)
    BY <1>5, <1>10, NoHistoryFacts DEF Spare, Whole, Older, Apart
  <2>5. IsPast(e)'
    BY <1>6 DEF IsPast
  <2>6. \A k \in DOMAIN Sent : InOrder(Sent[k], e)
    BY <1>6 DEF InOrder
  <2>7. QED
    BY <1>1, <1>2, <1>5, <1>8, <2>1, <2>2, <2>3, <2>4, <2>5, <2>6, StepLonger
<1>12. HandInv'
  <2>1. bars.bars \in Histories /\ Apart(e.bars, bars.bars)
    BY <1>2, <1>10, EventFacts DEF DataInv, Apart
  <2>2. QED
    BY <1>1, <1>11, <2>1 DEF Inv, HandInv
<1>13. KeptInv'
  <2>1. \A a, m : Kept(a, m) => Kept(a, m)'
    BY <1>1, <1>11, SameSets DEF Kept, HasStays
  <2>2. expiration' \in Nat /\ expiration <= expiration'
    BY <1>1, <1>2 DEF TimesInv
  <2>3. InTime => ~channel.closed /\ worker # "finished"
    BY <1>1 DEF Inv, KeptInv
  <2>4. InTime => (timer = "suspended" => \A a \in Assets, m \in Positions :
                                            In(a, m, bars.bars)' => Has(a, m, Sent)')
    BY <1>1, <1>11, SameSets DEF Inv, KeptInv, HasStays
  <2>5. QED
    BY <1>1, <1>3, <1>7, <2>1, <2>2, <2>3, <2>4, KeptMoves
<1>14. QED
  BY <1>4, <1>8, <1>9, <1>11, <1>12, <1>13 DEF Inv

LEMMA ResumePlayInv ==
    ASSUME Inv, ResumePlay
    PROVE  Inv'
<1>1. /\ play = "heartbeat" /\ play' = "receive" /\ rest' = NoBars
      /\ next' = next /\ c' = c /\ failed' = failed /\ bars' = bars /\ timer' = timer
      /\ took' = took /\ seen' = seen /\ expiration' = expiration /\ history' = history
      /\ published' = published /\ channel' = channel /\ dropped' = dropped
      /\ cancelled' = cancelled /\ worker' = worker /\ handled' = handled
      /\ UNCHANGED given /\ UNCHANGED feedVars
  BY DEF ResumePlay, feedVars, timerVars, workerVars
<1>2. GivenInv /\ ControlInv /\ TimesInv /\ DataInv /\ OrderInv /\ HistoryInv /\ OutInv
  BY DEF Inv, StateInv
<1>3. GivenInv' /\ OrderInv' /\ HistoryInv' /\ WholeStays
  BY <1>1, <1>2, QuietFeed
<1>4. StateInv'
  <2>1. ControlInv'
    BY <1>1, <1>2 DEF ControlInv
  <2>2. TimesInv'
    BY <1>1, <1>2 DEF TimesInv
  <2>3. DataInv'
    BY <1>1, <1>2, NoHistoryFacts, SameSets DEF DataInv
  <2>4. QED
    BY <1>3, <2>1, <2>2, <2>3 DEF StateInv
<1>5. OutInv' /\ HasStays /\ \A x \in Histories : Spare(x, Sent) => Spare(x, Sent)'
  <2>1. PastStays
    BY <1>1, PastSame
  <2>2. Sent' = Sent
    BY <1>1 DEF Sent
  <2>3. QED
    BY <1>1, <1>2, <1>3, <2>1, <2>2, QuietSent
<1>6. HandInv'
  <2>1. bars.bars \in Histories
    BY <1>2, EventFacts DEF DataInv
  <2>2. QED
    BY <1>1, <1>5, <2>1 DEF Inv, HandInv
<1>7. KeptInv'
  <2>1. \A a, n : Kept(a, n) => Kept(a, n)'
    BY <1>1, <1>5, SameSets DEF Kept, HasStays
  <2>2. expiration' \in Nat /\ expiration <= expiration'
    BY <1>1, <1>2 DEF TimesInv
  <2>3. InTime => ~channel.closed /\ worker # "finished"
    BY <1>1 DEF Inv, KeptInv
  <2>4. InTime => (timer = "suspended" => \A a \in Assets, n \in Positions :
                                            In(a, n, bars.bars)' => Has(a, n, Sent)')
    BY <1>1, <1>5, SameSets DEF Inv, KeptInv, HasStays
  <2>5. QED
    BY <1>1, <2>1, <2>2, <2>3, <2>4, KeptMoves
<1>8. QED
  BY <1>3, <1>4, <1>5, <1>6, <1>7 DEF Inv

(* The finally block: the channel is as before, or a suspended heartbeat   *)
(* is taken back because the job is cancelled.                             *)
LEMMA TakeRemainingInv ==
    ASSUME Inv, NEW x \in BOOLEAN, TakeRemaining(x), play \in {"receive", "heartbeat"},
           WithoutOne(channel', channel, rest, Messages),
           channel' = channel \/ cancelled
    PROVE  Inv'
<1>1. /\ failed' = x
      /\ \/ /\ remaining /\ play' = "send" /\ history' = Continued
            /\ \E tm \in Readable : rest' = [time |-> tm, bars |-> history, by |-> ByPlay]
         \/ ~remaining /\ play' = "end" /\ history' = history /\ rest' = NoBars
      /\ next' = next /\ c' = c /\ bars' = bars /\ timer' = timer
      /\ took' = took /\ seen' = seen /\ expiration' = expiration
      /\ published' = published /\ dropped' = dropped
      /\ cancelled' = cancelled /\ worker' = worker /\ handled' = handled
      /\ UNCHANGED given /\ UNCHANGED feedVars
  BY DEF TakeRemaining, feedVars, timerVars, workerVars
<1>2. GivenInv /\ ControlInv /\ TimesInv /\ DataInv /\ OrderInv /\ HistoryInv /\ OutInv
  BY DEF Inv, StateInv
<1>3. GivenInv' /\ OrderInv' /\ HistoryInv' /\ WholeStays
  BY <1>1, <1>2, QuietFeed
<1>4. channel' \in Channels(Messages) /\ channel'.closed = channel.closed
  BY DEF WithoutOne
<1>5. history \in Histories /\ Continued \in Histories /\ \A a, n : ~In(a, n, Continued)
  BY <1>2, ContinuedFacts DEF DataInv
<1>6. remaining => /\ rest' \in Messages /\ rest'.by = ByPlay /\ rest'.bars = history
                   /\ rest'.time \in FirstEnd..expiration
  <2>1. SUFFICES ASSUME remaining, NEW tm \in Readable,
                        rest' = [time |-> tm, bars |-> history, by |-> ByPlay]
                 PROVE  /\ rest' \in Messages /\ rest'.by = ByPlay /\ rest'.bars = history
                        /\ rest'.time \in FirstEnd..expiration
    BY <1>1
  <2>2. tm \in Nat /\ tm \in FirstEnd..expiration
    <3>1. tm \in seen..expiration
      BY DEF Readable
    <3>2. QED
      BY <1>2, <3>1, AggregatorLiveAssumption DEF TimesInv
  <2>3. QED
    BY <1>5, <2>1, <2>2 DEF Messages
<1>7. StateInv'
  <2>1. ControlInv'
    <3>1. timer # "idle" /\ play' # "new"
      BY <1>1, <1>2 DEF ControlInv
    <3>2. play' \in {"send", "end"}
      BY <1>1
    <3>3. QED
      BY <1>1, <1>2, <3>1, <3>2 DEF ControlInv
  <2>2. TimesInv'
    BY <1>1, <1>2 DEF TimesInv
  <2>3. DataInv'
    <3>1. history' \in Histories /\ rest' \in Messages
      BY <1>1, <1>5, <1>6, NoHistoryFacts
    <3>2. play' = "send" => rest'.by = ByPlay /\ rest'.time \in FirstEnd..expiration
      BY <1>1, <1>6
    <3>3. QED
      BY <1>1, <1>2, <1>4, <3>1, <3>2, SameSets DEF DataInv
  <2>4. QED
    BY <1>3, <2>1, <2>2, <2>3 DEF StateInv
<1>8. PICK t : t = Sent'
  OBVIOUS
<1>9. Within(t, Sent)
  <2>1. rest \in Messages
    BY <1>2 DEF DataInv
  <2>2. QED
    BY <1>1, <1>2, <1>8, <2>1, SentEffects
<1>10. OutInv' /\ \A y \in Histories : Spare(y, Sent) => Spare(y, Sent)'
  <2>1. PastStays
    BY <1>1, PastSame
  <2>2. QED
    BY <1>1, <1>2, <1>3, <1>8, <1>9, <2>1, StepWithin
<1>11. HandInv'
  <2>1. bars.bars \in Histories
    BY <1>2, EventFacts DEF DataInv
  <2>2. timer = "send" => Spare(bars.bars, Sent) /\ Spare(bars.bars, Sent)' /\ Whole(bars.bars)
    <3>1. timer = "send" => Spare(bars.bars, Sent) /\ Whole(bars.bars)
      BY DEF Inv, HandInv, Spare
    <3>2. PICK y : y = bars.bars
      OBVIOUS
    <3>3. timer = "send" => Spare(y, Sent)'
      BY <1>10, <2>1, <3>1, <3>2
    <3>4. QED
      BY <1>1, <3>1, <3>2, <3>3
  <2>3. CASE remaining
    <3>1. PICK h : h = history
      OBVIOUS
    <3>2. Spare(h, Sent)' /\ \A y \in Histories : Whole(y) => Apart(h, y) /\ Apart(y, h)
      BY <1>1, <1>2, <1>8, <1>9, <2>3, <3>1, TakenSpare
    <3>3. Spare(rest.bars, Sent)'
      BY <1>6, <2>3, <3>1, <3>2
    <3>4. timer = "send" => Apart(bars.bars, h)
      BY <2>1, <2>2, <3>2
    <3>5. timer = "send" => Apart(bars.bars, h)'
      BY <1>1, <3>4, SameSets
    <3>6. QED
      BY <1>1, <1>6, <2>2, <2>3, <3>1, <3>3, <3>5 DEF HandInv
  <2>4. CASE ~remaining
    BY <1>1, <2>2, <2>4 DEF HandInv
  <2>5. QED
    BY <2>3, <2>4
<1>12. KeptInv'
  <2>1. InTime => ~channel.closed /\ worker = "running" /\ ~cancelled /\ channel' = channel
    BY <1>2 DEF Inv, KeptInv, InTime, ControlInv
  <2>2. InTime => \A a, n : Has(a, n, Sent) => Has(a, n, Sent)'
    BY <1>1, <2>1, SameSets DEF Has, Sent
  <2>3. \A a, n : In(a, n, history) =>
            In(a, n, history)' \/ (play' = "send" /\ In(a, n, rest.bars)')
    <3>1. CASE remaining
      BY <1>1, <1>6, <3>1, SameSets DEF In
    <3>2. CASE ~remaining
      BY <1>1, <3>2, SameSets DEF In
    <3>3. QED
      BY <3>1, <3>2
  <2>4. InTime => \A a \in Assets, n \in Positions : Kept(a, n) => Kept(a, n)'
    BY <1>1, <2>2, <2>3, SameSets DEF Kept
  <2>5. expiration' \in Nat /\ expiration <= expiration'
    BY <1>1, <1>2 DEF TimesInv
  <2>6. InTime => (timer = "suspended" => \A a \in Assets, n \in Positions :
                                            In(a, n, bars.bars)' => Has(a, n, Sent)')
    BY <1>1, <2>2, SameSets DEF Inv, KeptInv
  <2>7. remaining => \A a, n : ~In(a, n, history)'
    BY <1>1, <1>5, SameSets
  <2>8. remaining => play' # "end"
    BY <1>1
  <2>9. QED
    BY <1>1, <1>4, <2>1, <2>4, <2>5, <2>6, <2>7, <2>8, KeptMoves
<1>13. QED
  BY <1>3, <1>7, <1>10, <1>11, <1>12 DEF Inv

LEMMA EndsInv ==
    ASSUME Inv, InputEnds \/ HeartbeatFails \/ CancelPlay
    PROVE  Inv'
<1>1. DataInv /\ channel \in Channels(Messages) /\ rest \in Messages
  BY DEF Inv, StateInv, DataInv
<1>2. WithoutOne(channel, channel, rest, Messages)
  BY <1>1, WithinItself DEF WithoutOne
<1>3. CASE InputEnds
  <2>1. play = "receive" /\ TakeRemaining(FALSE) /\ channel' = channel
    BY <1>3 DEF InputEnds
  <2>2. QED
    BY <1>2, <2>1, TakeRemainingInv
<1>4. CASE HeartbeatFails
  <2>1. play = "receive" /\ TakeRemaining(TRUE) /\ channel' = channel
    BY <1>4 DEF HeartbeatFails
  <2>2. QED
    BY <1>2, <2>1, TakeRemainingInv
<1>5. CASE CancelPlay
  <2>1. /\ cancelled /\ play \in {"receive", "heartbeat"} /\ TakeRemaining(TRUE)
        /\ channel' = TakenBack(rest)
    BY <1>5 DEF CancelPlay
  <2>2. WithoutOne(channel', channel, rest, Messages)
    BY <1>1, <2>1, TakenBackFacts
  <2>3. QED
    BY <2>1, <2>2, TakeRemainingInv
<1>6. QED
  BY <1>3, <1>4, <1>5

LEMMA SendRestInv ==
    ASSUME Inv, SendRest
    PROVE  Inv'
<1>1. PICK room, fails :
        /\ room = (cancelled => Len(SendNotEmpty(rest).queue) <= Capacity)
        /\ fails = (Fails(rest) \/ ~room) /\ room \in BOOLEAN /\ fails \in BOOLEAN
  OBVIOUS
<1>2. /\ play = "send" /\ play' = (IF fails THEN "end" ELSE "final")
      /\ channel' = (IF fails THEN channel ELSE SendNotEmpty(rest))
      /\ failed' = (failed \/ fails)
      /\ next' = next /\ c' = c /\ bars' = bars /\ timer' = timer /\ rest' = rest
      /\ took' = took /\ seen' = seen /\ expiration' = expiration /\ history' = history
      /\ published' = published /\ dropped' = dropped
      /\ cancelled' = cancelled /\ worker' = worker /\ handled' = handled
      /\ UNCHANGED given /\ UNCHANGED feedVars
  BY <1>1 DEF SendRest, feedVars, timerVars, workerVars
<1>3. GivenInv /\ ControlInv /\ TimesInv /\ DataInv /\ OrderInv /\ HistoryInv /\ OutInv /\ HandInv
  BY DEF Inv, StateInv
<1>4. GivenInv' /\ OrderInv' /\ HistoryInv' /\ WholeStays
  BY <1>2, <1>3, QuietFeed
<1>5. PICK tm : tm = rest.time
  OBVIOUS
<1>6. /\ rest \in Messages /\ rest.by = ByPlay /\ rest.bars \in Histories /\ tm \in Nat
      /\ tm \in FirstEnd..expiration /\ channel \in Channels(Messages)
  BY <1>2, <1>3, <1>5, EventFacts DEF DataInv
<1>7. /\ channel' \in Channels(Messages)
      /\ \/ /\ channel'.queue = Append(channel.queue, rest) /\ ~fails
            /\ channel'.closed <=> channel.closed
         \/ /\ channel'.queue = channel.queue
            /\ fails \/ rest.bars = NoHistory \/ ~InTimeframe(tm)
            /\ channel'.closed => channel.closed \/ AfterTimeframe(tm)
            /\ channel.closed => channel'.closed
  <2>1. CASE fails \/ rest.bars = NoHistory
    BY <1>2, <1>6, <2>1 DEF SendNotEmpty
  <2>2. CASE ~fails /\ rest.bars # NoHistory
    <3>1. PICK n : n = channel'
      OBVIOUS
    <3>2. n = Send(channel, rest, tm) /\ ~SendFails(channel, tm)
      BY <1>1, <1>2, <1>5, <2>2, <3>1 DEF SendNotEmpty, Fails
    <3>3. /\ n \in Channels(Messages)
          /\ \/ /\ n.queue = Append(channel.queue, rest) /\ InTimeframe(tm)
                /\ n.closed <=> channel.closed
             \/ /\ n.queue = channel.queue /\ ~InTimeframe(tm)
                /\ n.closed <=> (channel.closed \/ AfterTimeframe(tm))
      BY <1>6, <3>2, SendFacts
    <3>4. QED
      BY <2>2, <3>1, <3>3
  <2>3. QED
    BY <1>1, <2>1, <2>2
<1>8. StateInv'
  <2>1. ControlInv'
    <3>1. play' \in {"end", "final"} /\ failed' \in BOOLEAN /\ timer # "idle"
      BY <1>1, <1>2, <1>3 DEF ControlInv
    <3>2. QED
      BY <1>2, <1>3, <3>1 DEF ControlInv
  <2>2. TimesInv'
    BY <1>2, <1>3 DEF TimesInv
  <2>3. DataInv'
    <3>1. play' # "send"
      BY <1>2
    <3>2. QED
      BY <1>2, <1>3, <1>7, <3>1, SameSets DEF DataInv
  <2>4. QED
    BY <1>4, <2>1, <2>2, <2>3 DEF StateInv
<1>9. Spare(rest.bars, Sent) /\ bars.bars \in Histories
      /\ (timer = "send" => Spare(bars.bars, Sent) /\ Apart(rest.bars, bars.bars))
  BY <1>2, <1>3, EventFacts DEF HandInv, DataInv, Apart
<1>10. PastStays
  BY <1>2, PastSame
<1>11. /\ OutInv' /\ HasStays /\ (timer = "send" => Spare(bars.bars, Sent)')
       /\ InTimeframe(tm) /\ ~fails => \A a, n : In(a, n, rest.bars) => Has(a, n, Sent)'
  <2>1. PICK t : t = Sent'
    OBVIOUS
  <2>2. CASE channel'.queue = Append(channel.queue, rest) /\ ~fails
    <3>1. Longer(t, Sent, rest)
      BY <1>2, <1>3, <1>6, <2>1, <2>2, SentEffects
    <3>2. rest.by # ByTimer
      BY <1>6 DEF ByTimer, ByPlay
    <3>3. IsPast(rest)'
      BY <1>2, <3>2 DEF IsPast
    <3>4. \A k \in DOMAIN Sent : InOrder(Sent[k], rest)
      BY <3>2 DEF InOrder
    <3>5. /\ OutInv'
          /\ \A x \in Histories : Spare(x, Sent) /\ Apart(rest.bars, x) => Spare(x, Sent)'
          /\ HasStays /\ \A a, n : In(a, n, rest.bars) => Has(a, n, Sent)'
      BY <1>2, <1>3, <1>4, <1>6, <1>9, <1>10, <2>1, <3>1, <3>3, <3>4, StepLonger
    <3>6. timer = "send" => Spare(bars.bars, Sent)'
      BY <1>2, <1>9, <3>5
    <3>7. QED
      BY <3>5, <3>6
  <2>3. CASE channel'.queue = channel.queue /\ (fails \/ rest.bars = NoHistory \/ ~InTimeframe(tm))
    <3>1. Sent' = Sent
      BY <1>2, <2>3 DEF Sent
    <3>2. OutInv' /\ HasStays /\ \A x \in Histories : Spare(x, Sent) => Spare(x, Sent)'
      BY <1>2, <1>3, <1>4, <1>10, <3>1, QuietSent
    <3>3. InTimeframe(tm) /\ ~fails => \A a, n : ~In(a, n, rest.bars)
      BY <2>3, NoHistoryFacts DEF In
    <3>4. timer = "send" => Spare(bars.bars, Sent)'
      BY <1>2, <1>9, <3>2
    <3>5. QED
      BY <3>2, <3>3, <3>4
  <2>4. QED
    BY <1>7, <2>2, <2>3
<1>12. HandInv'
  BY <1>2, <1>11 DEF HandInv
<1>13. KeptInv'
  <2>1. InTime => InTimeframe(tm) /\ ~AfterTimeframe(tm)
    BY <1>3, <1>6, InTimeFacts
  <2>2. InTime => ~channel.closed /\ worker = "running" /\ ~cancelled
    BY <1>2, <1>3 DEF Inv, KeptInv, InTime, ControlInv
  <2>3. InTime => ~fails
    BY <1>1, <1>5, <2>1, <2>2 DEF Fails, SendFails
  <2>4. InTime => ~channel'.closed
    BY <1>7, <2>1, <2>2
  <2>5. InTime => \A a \in Assets, n \in Positions : Kept(a, n) => Kept(a, n)'
    <3>1. InTime => \A a, n : In(a, n, rest.bars) => Has(a, n, Sent)'
      BY <1>11, <2>1, <2>3
    <3>2. QED
      BY <1>2, <1>11, <3>1, SameSets DEF Kept, HasStays
  <2>6. expiration' \in Nat /\ expiration <= expiration'
    BY <1>2, <1>3 DEF TimesInv
  <2>7. InTime => (timer = "suspended" => \A a \in Assets, n \in Positions :
                                            In(a, n, bars.bars)' => Has(a, n, Sent)')
    BY <1>2, <1>11, SameSets DEF Inv, KeptInv, HasStays
  <2>8. InTime /\ remaining => \A a \in Assets, n \in Positions : ~In(a, n, history)'
    BY <1>2, SameSets DEF Inv, KeptInv
  <2>9. InTime => play' = "final"
    BY <1>2, <2>3
  <2>10. QED
    BY <1>2, <2>2, <2>4, <2>5, <2>6, <2>7, <2>8, <2>9, KeptMoves
<1>14. QED
  BY <1>4, <1>8, <1>11, <1>12, <1>13 DEF Inv

LEMMA CancelRestInv ==
    ASSUME Inv, CancelRest
    PROVE  Inv'
<1>1. /\ cancelled /\ play = "final" /\ play' = "end" /\ failed' = TRUE
      /\ channel' = TakenBack(rest)
      /\ next' = next /\ c' = c /\ bars' = bars /\ timer' = timer /\ rest' = rest
      /\ took' = took /\ seen' = seen /\ expiration' = expiration /\ history' = history
      /\ published' = published /\ dropped' = dropped
      /\ cancelled' = cancelled /\ worker' = worker /\ handled' = handled
      /\ UNCHANGED given /\ UNCHANGED feedVars
  BY DEF CancelRest, feedVars, timerVars, workerVars
<1>2. GivenInv /\ ControlInv /\ TimesInv /\ DataInv /\ OrderInv /\ HistoryInv /\ OutInv
  BY DEF Inv, StateInv
<1>3. GivenInv' /\ OrderInv' /\ HistoryInv' /\ WholeStays
  BY <1>1, <1>2, QuietFeed
<1>4. rest \in Messages
  BY <1>2 DEF DataInv
<1>5. WithoutOne(channel', channel, rest, Messages)
  BY <1>1, <1>2, <1>4, TakenBackFacts
<1>6. channel' \in Channels(Messages)
  BY <1>5 DEF WithoutOne
<1>7. StateInv'
  <2>1. ControlInv'
    BY <1>1, <1>2 DEF ControlInv
  <2>2. TimesInv'
    BY <1>1, <1>2 DEF TimesInv
  <2>3. DataInv'
    BY <1>1, <1>2, <1>6, SameSets DEF DataInv
  <2>4. QED
    BY <1>3, <2>1, <2>2, <2>3 DEF StateInv
<1>8. OutInv' /\ \A x \in Histories : Spare(x, Sent) => Spare(x, Sent)'
  <2>1. PastStays
    BY <1>1, PastSame
  <2>2. PICK t : t = Sent'
    OBVIOUS
  <2>3. Within(t, Sent)
    BY <1>1, <1>2, <1>4, <1>5, <2>2, SentEffects
  <2>4. QED
    BY <1>1, <1>2, <1>3, <2>1, <2>2, <2>3, StepWithin
<1>9. HandInv'
  <2>1. bars.bars \in Histories
    BY <1>2, EventFacts DEF DataInv
  <2>2. QED
    BY <1>1, <1>8, <2>1 DEF Inv, HandInv
<1>10. KeptInv'
  <2>1. ~InTime
    BY <1>1, <1>2 DEF Inv, KeptInv, InTime, ControlInv
  <2>2. expiration' \in Nat /\ expiration <= expiration'
    BY <1>1, <1>2 DEF TimesInv
  <2>3. QED
    BY <1>1, <2>1, <2>2, KeptMoves
<1>11. QED
  BY <1>3, <1>7, <1>8, <1>9, <1>10 DEF Inv

LEMMA EndPlayInv ==
    ASSUME Inv, EndPlay
    PROVE  Inv'
<1>1. /\ play \in {"end", "final"} /\ play' = "stopped" /\ rest' = NoBars
      /\ channel' = Close(channel)
      /\ next' = next /\ c' = c /\ bars' = bars /\ timer' = timer /\ failed' = failed
      /\ took' = took /\ seen' = seen /\ expiration' = expiration /\ history' = history
      /\ published' = published /\ dropped' = dropped
      /\ cancelled' = cancelled /\ worker' = worker /\ handled' = handled
      /\ UNCHANGED given /\ UNCHANGED feedVars
  BY DEF EndPlay, feedVars, timerVars, workerVars
<1>2. GivenInv /\ ControlInv /\ TimesInv /\ DataInv /\ OrderInv /\ HistoryInv /\ OutInv
  BY DEF Inv, StateInv
<1>3. GivenInv' /\ OrderInv' /\ HistoryInv' /\ WholeStays
  BY <1>1, <1>2, QuietFeed
<1>4. channel' \in Channels(Messages) /\ channel'.queue = channel.queue /\ channel'.closed
  <2>1. channel \in Channels(Messages)
    BY <1>2 DEF DataInv
  <2>2. PICK n : n = channel' /\ n = Close(channel)
    BY <1>1
  <2>3. QED
    BY <2>1, <2>2, CloseFacts
<1>5. StateInv'
  <2>1. ControlInv'
    BY <1>1, <1>2 DEF ControlInv
  <2>2. TimesInv'
    BY <1>1, <1>2 DEF TimesInv
  <2>3. DataInv'
    BY <1>1, <1>2, <1>4, NoHistoryFacts, SameSets DEF DataInv
  <2>4. QED
    BY <1>3, <2>1, <2>2, <2>3 DEF StateInv
<1>6. OutInv' /\ HasStays /\ \A x \in Histories : Spare(x, Sent) => Spare(x, Sent)'
  <2>1. PastStays
    BY <1>1, PastSame
  <2>2. Sent' = Sent
    BY <1>1, <1>4 DEF Sent
  <2>3. QED
    BY <1>1, <1>2, <1>3, <2>1, <2>2, QuietSent
<1>7. HandInv'
  <2>1. bars.bars \in Histories
    BY <1>2, EventFacts DEF DataInv
  <2>2. QED
    BY <1>1, <1>6, <2>1 DEF Inv, HandInv
<1>8. KeptInv'
  <2>1. \A a, n : Kept(a, n) => Kept(a, n)'
    BY <1>1, <1>6, SameSets DEF Kept, HasStays
  <2>2. expiration' \in Nat /\ expiration <= expiration'
    BY <1>1, <1>2 DEF TimesInv
  <2>3. InTime => worker # "finished" /\ (remaining => play = "final")
    BY <1>1 DEF Inv, KeptInv
  <2>4. InTime => (timer = "suspended" => \A a \in Assets, n \in Positions :
                                            In(a, n, bars.bars)' => Has(a, n, Sent)')
    BY <1>1, <1>6, SameSets DEF Inv, KeptInv, HasStays
  <2>5. InTime /\ remaining => \A a \in Assets, n \in Positions : ~In(a, n, history)'
    BY <1>1, <2>3, SameSets DEF Inv, KeptInv
  <2>6. QED
    BY <1>1, <2>1, <2>2, <2>3, <2>4, <2>5, KeptMoves
<1>9. QED
  BY <1>3, <1>5, <1>6, <1>7, <1>8 DEF Inv

-----------------------------------------------------------------------------
(* The worker                                                              *)
LEMMA TakeEventInv ==
    ASSUME Inv, TakeEvent
    PROVE  Inv'
<1>1. /\ CanReceive(channel) /\ worker = "running"
      /\ handled' = Append(handled, Head(channel.queue)) /\ channel' = Receive(channel)
      /\ next' = next /\ c' = c /\ bars' = bars /\ timer' = timer /\ failed' = failed
      /\ took' = took /\ seen' = seen /\ expiration' = expiration /\ history' = history
      /\ published' = published /\ dropped' = dropped /\ play' = play /\ rest' = rest
      /\ cancelled' = cancelled /\ worker' = worker
      /\ UNCHANGED given /\ UNCHANGED feedVars
  BY DEF TakeEvent, feedVars, playVars, timerVars
<1>2. GivenInv /\ ControlInv /\ TimesInv /\ DataInv /\ OrderInv /\ HistoryInv /\ OutInv
  BY DEF Inv, StateInv
<1>3. GivenInv' /\ OrderInv' /\ HistoryInv' /\ WholeStays
  BY <1>1, <1>2, QuietFeed
<1>4. PICK q, g : q = channel.queue /\ g = handled
  OBVIOUS
<1>5. /\ channel' \in Channels(Messages) /\ channel'.closed = channel.closed
      /\ channel'.queue = Tail(q)
  <2>1. channel \in Channels(Messages)
    BY <1>2 DEF DataInv
  <2>2. PICK n : n = channel' /\ n = Receive(channel)
    BY <1>1
  <2>3. QED
    BY <1>1, <1>4, <2>1, <2>2, ReceiveFacts
<1>6. handled' \in Seq(Messages) /\ Sent' = Sent
  <2>1. q \in Seq(Messages) /\ q # <<>> /\ g \in Seq(Messages)
    BY <1>1, <1>2, <1>4, SentFacts DEF CanReceive
  <2>2. PICK h, t : h = Append(g, Head(q)) /\ t = Tail(q)
    OBVIOUS
  <2>3. h \in Seq(Messages) /\ h \o t = g \o q
    BY <2>1, <2>2, TakeFacts
  <2>4. handled' = h /\ channel'.queue = t
    BY <1>1, <1>4, <1>5, <2>2
  <2>5. QED
    BY <1>4, <2>3, <2>4 DEF Sent
<1>7. StateInv'
  <2>1. ControlInv'
    BY <1>1, <1>2 DEF ControlInv
  <2>2. TimesInv'
    BY <1>1, <1>2 DEF TimesInv
  <2>3. DataInv'
    BY <1>1, <1>2, <1>5, <1>6, SameSets DEF DataInv
  <2>4. QED
    BY <1>3, <2>1, <2>2, <2>3 DEF StateInv
<1>8. OutInv' /\ HasStays /\ \A x \in Histories : Spare(x, Sent) => Spare(x, Sent)'
  <2>1. PastStays
    BY <1>1, PastSame
  <2>2. QED
    BY <1>1, <1>2, <1>3, <1>6, <2>1, QuietSent
<1>9. HandInv'
  <2>1. bars.bars \in Histories /\ rest.bars \in Histories
    BY <1>2, EventFacts DEF DataInv
  <2>2. timer = "send" /\ play = "send" => Apart(bars.bars, rest.bars)'
    BY <1>1, SameSets DEF Inv, HandInv
  <2>3. QED
    BY <1>1, <1>8, <2>1, <2>2 DEF Inv, HandInv
<1>10. KeptInv'
  <2>1. \A a, n : Kept(a, n) => Kept(a, n)'
    BY <1>1, <1>8, SameSets DEF Kept, HasStays
  <2>2. expiration' \in Nat /\ expiration <= expiration'
    BY <1>1, <1>2 DEF TimesInv
  <2>3. \A a, n : In(a, n, history)' <=> In(a, n, history)
    BY <1>1, SameSets
  <2>4. InTime => (timer = "suspended" => \A a \in Assets, n \in Positions :
                                            In(a, n, bars.bars)' => Has(a, n, Sent)')
    BY <1>1, <1>8, SameSets DEF Inv, KeptInv, HasStays
  <2>5. QED
    BY <1>1, <1>5, <2>1, <2>2, <2>3, <2>4, KeptMoves DEF Inv, KeptInv
<1>11. QED
  BY <1>3, <1>7, <1>8, <1>9, <1>10 DEF Inv

LEMMA EndRunInv ==
    ASSUME Inv, Finish \/ TimeIsUp \/ Abort
    PROVE  Inv'
<1>1. /\ worker = "running" /\ worker' \in {"finished", "timeout", "aborted"} /\ cancelled' = TRUE
      /\ next' = next /\ c' = c /\ bars' = bars /\ timer' = timer /\ failed' = failed
      /\ took' = took /\ seen' = seen /\ expiration' = expiration /\ history' = history
      /\ published' = published /\ dropped' = dropped /\ play' = play /\ rest' = rest
      /\ handled' = handled
      /\ channel' = channel \/ (channel' = Close(channel) /\ worker' = "timeout")
      /\ worker' = "finished" => channel' = channel /\ channel.queue = <<>> /\ channel.closed
      /\ UNCHANGED given /\ UNCHANGED feedVars
  BY DEF Finish, TimeIsUp, Abort, EndRun, ReceiveFails, feedVars, playVars, timerVars
<1>2. GivenInv /\ ControlInv /\ TimesInv /\ DataInv /\ OrderInv /\ HistoryInv /\ OutInv
  BY DEF Inv, StateInv
<1>3. GivenInv' /\ OrderInv' /\ HistoryInv' /\ WholeStays
  BY <1>1, <1>2, QuietFeed
<1>4. channel' \in Channels(Messages) /\ channel'.queue = channel.queue
  <2>1. channel \in Channels(Messages)
    BY <1>2 DEF DataInv
  <2>2. PICK n : n = Close(channel)
    OBVIOUS
  <2>3. n \in Channels(Messages) /\ n.queue = channel.queue
    BY <2>1, <2>2, CloseFacts
  <2>4. QED
    BY <1>1, <2>1, <2>2, <2>3
<1>5. StateInv'
  <2>1. ControlInv'
    BY <1>1, <1>2 DEF ControlInv
  <2>2. TimesInv'
    BY <1>1, <1>2 DEF TimesInv
  <2>3. DataInv'
    BY <1>1, <1>2, <1>4, SameSets DEF DataInv
  <2>4. QED
    BY <1>3, <2>1, <2>2, <2>3 DEF StateInv
<1>6. Sent' = Sent
  BY <1>1, <1>4 DEF Sent
<1>7. OutInv' /\ HasStays /\ \A x \in Histories : Spare(x, Sent) => Spare(x, Sent)'
  <2>1. PastStays
    BY <1>1, PastSame
  <2>2. QED
    BY <1>1, <1>2, <1>3, <1>6, <2>1, QuietSent
<1>8. HandInv'
  <2>1. bars.bars \in Histories /\ rest.bars \in Histories
    BY <1>2, EventFacts DEF DataInv
  <2>2. timer = "send" /\ play = "send" => Apart(bars.bars, rest.bars)'
    BY <1>1, SameSets DEF Inv, HandInv
  <2>3. QED
    BY <1>1, <1>7, <2>1, <2>2 DEF Inv, HandInv
<1>9. KeptInv'
  <2>1. SUFFICES ASSUME InTime' PROVE KeptInv'
    BY DEF KeptInv
  <2>2. worker' = "finished" /\ InTime
    BY <1>1, <2>1 DEF InTime
  <2>3. channel' = channel /\ channel.queue = <<>> /\ channel.closed
    BY <1>1, <2>2
  <2>4. \A a : PricesOf(a)' = PricesOf(a)
    BY <1>1, SameSets DEF PricesOf
  <2>5. \A a, n : Kept(a, n) => Kept(a, n)'
    BY <1>1, <1>7, SameSets DEF Kept, HasStays
  <2>6. \A a \in Assets : \A n \in PricesOf(a)' : Kept(a, n)'
    BY <2>2, <2>4, <2>5 DEF Inv, KeptInv
  <2>7. timer = "suspended" => \A a \in Assets, n \in Positions :
                                In(a, n, bars.bars)' => Has(a, n, Sent)'
    BY <1>1, <1>7, <2>2, SameSets DEF Inv, KeptInv, HasStays
  <2>8. /\ channel.closed => play = "stopped"
        /\ remaining => play # "end"
        /\ remaining /\ play \in {"send", "final", "stopped"} =>
            \A a \in Assets, n \in Positions : ~In(a, n, history)'
    BY <1>1, <2>2, SameSets DEF Inv, KeptInv
  <2>9. Positions' = Positions /\ remaining' = remaining
    BY <1>1, SameSets
  <2>10. QED
    BY <1>1, <2>2, <2>3, <2>6, <2>7, <2>8, <2>9 DEF KeptInv
<1>10. QED
  BY <1>3, <1>5, <1>7, <1>8, <1>9 DEF Inv

-----------------------------------------------------------------------------
LEMMA InitInv ==
    ASSUME Init
    PROVE  Inv
<1>1. /\ events \in Feeds /\ remaining \in BOOLEAN /\ continuation \in BOOLEAN
      /\ next = 1 /\ c = NewChannel /\ play = "new" /\ rest = NoBars /\ failed = FALSE
      /\ took = <<>> /\ expiration = FirstEnd /\ history = NoHistory /\ published = FirstEnd
      /\ seen = FirstEnd /\ timer = "idle" /\ bars = NoBars /\ dropped = NoBars
      /\ channel = NewChannel /\ cancelled = FALSE /\ worker = "running" /\ handled = <<>>
  BY DEF Init
<1>2. GivenInv
  BY <1>1 DEF GivenInv
<1>3. FirstEnd \in Nat /\ LastEnd \in Nat /\ FirstEnd <= LastEnd /\ Period \in Nat
  BY AggregatorLiveAssumption
<1>4. ControlInv
  BY <1>1 DEF ControlInv
<1>5. TimesInv
  BY <1>1, <1>3 DEF TimesInv
<1>6. /\ NewChannel \in Channels(Positions) /\ NewChannel \in Channels(Messages)
      /\ NewChannel.queue = <<>> /\ NewChannel.closed = FALSE
  BY DEF NewChannel, Channels
<1>7. DataInv
  BY <1>1, <1>2, <1>6, GivenFacts, NoHistoryFacts DEF DataInv
<1>8. c.queue = <<>> /\ channel.queue = <<>> /\ channel.closed = FALSE
  BY <1>1, <1>6
<1>9. \A n : n \notin ToSet(took)
  <2>1. \A k : k \notin DOMAIN took
    BY <1>1
  <2>2. QED
    BY <2>1 DEF ToSet
<1>10. OrderInv
  <2>1. \A k : k \notin DOMAIN c.queue
    BY <1>8
  <2>2. QED
    BY <1>9, <2>1 DEF OrderInv
<1>11. \A a : PricesOf(a) = {}
  BY <1>9 DEF PricesOf
<1>12. HistoryInv
  BY <1>1, <1>11, NoHistoryFacts DEF HistoryInv
<1>13. \A k : k \notin DOMAIN Sent
  <2>1. PICK s : s = <<>> \o <<>>
    OBVIOUS
  <2>2. s = <<>>
    BY <2>1
  <2>3. Sent = s
    BY <1>1, <1>8, <2>1 DEF Sent
  <2>4. QED
    BY <2>2, <2>3
<1>14. OutInv
  BY <1>13 DEF OutInv, Fits
<1>15. HandInv
  BY <1>1 DEF HandInv
<1>16. KeptInv
  BY <1>1, <1>8, <1>11 DEF KeptInv
<1>17. QED
  BY <1>2, <1>4, <1>5, <1>7, <1>10, <1>12, <1>14, <1>15, <1>16 DEF Inv, StateInv

LEMMA StutterInv ==
    ASSUME Inv, UNCHANGED vars
    PROVE  Inv'
<1>1. /\ next' = next /\ c' = c /\ bars' = bars /\ timer' = timer /\ failed' = failed
      /\ took' = took /\ seen' = seen /\ expiration' = expiration /\ history' = history
      /\ published' = published /\ dropped' = dropped /\ play' = play /\ rest' = rest
      /\ cancelled' = cancelled /\ worker' = worker /\ channel' = channel /\ handled' = handled
      /\ UNCHANGED given /\ UNCHANGED feedVars
  BY DEF vars, feedVars, playVars, timerVars, workerVars
<1>2. GivenInv /\ ControlInv /\ TimesInv /\ DataInv /\ OrderInv /\ HistoryInv /\ OutInv
  BY DEF Inv, StateInv
<1>3. GivenInv' /\ OrderInv' /\ HistoryInv' /\ WholeStays
  BY <1>1, <1>2, QuietFeed
<1>4. StateInv'
  <2>1. ControlInv'
    BY <1>1, <1>2 DEF ControlInv
  <2>2. TimesInv'
    BY <1>1, <1>2 DEF TimesInv
  <2>3. DataInv'
    BY <1>1, <1>2, SameSets DEF DataInv
  <2>4. QED
    BY <1>3, <2>1, <2>2, <2>3 DEF StateInv
<1>5. OutInv' /\ HasStays /\ \A x \in Histories : Spare(x, Sent) => Spare(x, Sent)'
  <2>1. PastStays
    BY <1>1, PastSame
  <2>2. Sent' = Sent
    BY <1>1 DEF Sent
  <2>3. QED
    BY <1>1, <1>2, <1>3, <2>1, <2>2, QuietSent
<1>6. HandInv'
  <2>1. bars.bars \in Histories /\ rest.bars \in Histories
    BY <1>2, EventFacts DEF DataInv
  <2>2. timer = "send" /\ play = "send" => Apart(bars.bars, rest.bars)'
    BY <1>1, SameSets DEF Inv, HandInv
  <2>3. QED
    BY <1>1, <1>5, <2>1, <2>2 DEF Inv, HandInv
<1>7. KeptInv'
  <2>1. \A a, n : Kept(a, n) => Kept(a, n)'
    BY <1>1, <1>5, SameSets DEF Kept, HasStays
  <2>2. expiration' \in Nat /\ expiration <= expiration'
    BY <1>1, <1>2 DEF TimesInv
  <2>3. \A a, n : In(a, n, history)' <=> In(a, n, history)
    BY <1>1, SameSets
  <2>4. InTime => (timer = "suspended" => \A a \in Assets, n \in Positions :
                                            In(a, n, bars.bars)' => Has(a, n, Sent)')
    BY <1>1, <1>5, SameSets DEF Inv, KeptInv, HasStays
  <2>5. QED
    BY <1>1, <2>1, <2>2, <2>3, <2>4, KeptMoves DEF Inv, KeptInv
<1>8. QED
  BY <1>3, <1>4, <1>5, <1>6, <1>7 DEF Inv

LEMMA NextInv ==
    ASSUME Inv, [Next]_vars
    PROVE  Inv'
<1>1. CASE TimerStep
  BY <1>1, TakeBarsInv, SendBarsInv, SendBarsFailsInv, NextPeriodInv, WakeUpInv, StopTimerInv
     DEF TimerStep
<1>2. CASE PlayStep
  BY <1>2, StartPlayInv, NeverStartedInv, AddPricesInv, PassHeartbeatInv, ResumePlayInv,
     EndsInv, SendRestInv, CancelRestInv, EndPlayInv
     DEF PlayStep
<1>3. CASE SendEvent \/ TakeEvent \/ Finish \/ TimeIsUp \/ Abort
  BY <1>3, SendEventInv, TakeEventInv, EndRunInv
<1>4. CASE UNCHANGED vars
  BY <1>4, StutterInv
<1>5. QED
  BY <1>1, <1>2, <1>3, <1>4 DEF Next, WorkerStep

LEMMA Invariance == Spec => []Inv
<1>1. Init => Inv
  BY InitInv
<1>2. Inv /\ [Next]_vars => Inv'
  BY NextInv
<1>3. QED
  BY <1>1, <1>2, PTL DEF Spec

-----------------------------------------------------------------------------
(* Theorems                                                                *)

(* The state keeps its shape: what play() and the timer take from the      *)
(* history, send and give up are always well-formed bars of known prices,  *)
(* and the expiration time that play() may read without the lock lags at   *)
(* most one period behind the one the timer has reached.                   *)
THEOREM TypeCorrect == Spec => []TypeOK
<1>1. Inv => TypeOK
  <2> SUFFICES ASSUME Inv PROVE TypeOK
    OBVIOUS
  <2>1. GivenInv /\ ControlInv /\ TimesInv /\ DataInv
    BY DEF Inv, StateInv
  <2>2. IsEvent(rest) /\ IsEvent(bars) /\ IsEvent(dropped) /\ IsHistory(history)
    BY <2>1, EventFacts, HistoryFacts DEF DataInv
  <2>3. PICK q, h : q = channel.queue /\ h = handled
    OBVIOUS
  <2>4. q \in Seq(Messages) /\ h \in Seq(Messages)
    BY <2>1, <2>3, SentFacts
  <2>5. \A k \in DOMAIN q : IsEvent(q[k])
    <3>1. \A k \in DOMAIN q : q[k] \in Messages
      BY <2>4
    <3>2. QED
      BY <3>1, EventFacts
  <2>6. \A k \in DOMAIN h : IsEvent(h[k])
    <3>1. \A k \in DOMAIN h : h[k] \in Messages
      BY <2>4
    <3>2. QED
      BY <3>1, EventFacts
  <2>7. QED
    BY <2>1, <2>2, <2>3, <2>5, <2>6 DEF TypeOK, ControlInv, TimesInv, DataInv
<1>2. QED
  BY <1>1, Invariance, PTL

(* Whatever the timer and play() do between taking bars with the lock and  *)
(* sending them without it, the bars the strategy gets are made of         *)
(* consecutive prices, no price is in two of them, and those of the timer  *)
(* come in the order of their times.                                       *)
THEOREM NoPriceIsTwice == Spec => []NoPriceTwice
<1>1. Inv => NoPriceTwice
  <2> SUFFICES ASSUME Inv PROVE NoPriceTwice
    OBVIOUS
  <2>1. GivenInv /\ DataInv /\ Fits(Sent)
    BY DEF Inv, StateInv, OutInv
  <2>2. PICK h, s : h = handled /\ s = Sent
    OBVIOUS
  <2>3. \A k \in DOMAIN h : k \in DOMAIN s /\ s[k] = h[k]
    <3>1. PICK q : q = channel.queue
      OBVIOUS
    <3>2. h \in Seq(Messages) /\ q \in Seq(Messages) /\ s = h \o q
      BY <2>1, <2>2, <3>1, SentFacts DEF Sent
    <3>3. Together(s, h, q)
      BY <3>2, ConcatElements
    <3>4. QED
      BY <3>3 DEF Together
  <2>4. \A k \in DOMAIN h : \A a \in DOMAIN h[k].bars : IsAggregate(a, h[k].bars[a])
    BY <2>1, <2>2, <2>3 DEF Fits, Whole
  <2>5. \A i, j \in DOMAIN h : i < j => Apart(h[i].bars, h[j].bars) /\ InOrder(h[i], h[j])
    BY <2>1, <2>2, <2>3 DEF Fits
  <2>6. QED
    BY <2>2, <2>4, <2>5 DEF NoPriceTwice, Apart, InOrder
<1>2. QED
  BY <1>1, Invariance, PTL

(* A run that ends with its feed and within its timeframe has shown the    *)
(* strategy every price play() took, but for those the timer had taken and *)
(* not sent when the channel closed, and those of the last period when     *)
(* remaining is off.                                                       *)
THEOREM NothingIsMissing == Spec => []NothingMissing
<1>1. Inv => NothingMissing
  <2> SUFFICES ASSUME Inv, worker = "finished", Start <= FirstEnd, ~AfterTimeframe(expiration),
                      NEW a \in Assets, NEW n \in PricesOf(a)
               PROVE  \/ Shown(a, n)
                      \/ In(a, n, bars.bars) \/ In(a, n, dropped.bars)
                      \/ ~remaining /\ In(a, n, history)
    BY DEF NothingMissing
  <2>1. InTime /\ DataInv /\ GivenInv
    BY DEF InTime, Inv, StateInv
  <2>2. n \in Positions
    BY <2>1, PriceFacts
  <2>3. channel.queue = <<>> /\ play = "stopped" /\ Kept(a, n)
    BY <2>1 DEF Inv, KeptInv
  <2>4. Has(a, n, Sent) => Shown(a, n)
    <3>1. handled \in Seq(Messages)
      BY <2>1 DEF DataInv
    <3>2. handled \o <<>> = handled
      BY <3>1
    <3>3. Sent = handled
      BY <2>3, <3>2 DEF Sent
    <3>4. QED
      BY <3>3 DEF Has, Shown
  <2>5. remaining => ~In(a, n, history)
    BY <2>1, <2>2, <2>3 DEF Inv, KeptInv
  <2>6. QED
    BY <2>1, <2>3, <2>4, <2>5 DEF Kept, GivenInv
<1>2. QED
  BY <1>1, Invariance, PTL
=============================================================================
