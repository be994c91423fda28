------------------------ MODULE AggregatorFeedProofs ------------------------
(***************************************************************************)
(* An aggregating feed is type correct, puts every price the strategy sees *)
(* into the one bar of its window, with the right open, high, low, close   *)
(* and volume, and leaves no price out that it should not.                 *)
(*                                                                         *)
(* What the strategy has got says nothing about the bars to come. The      *)
(* invariant therefore follows the events from the feed below to play(),   *)
(* the current window, and what was sent but not taken yet. It says little *)
(* once the run is over: nothing that a cancelled play() still sends       *)
(* reaches the strategy, and it may well send the same bars again.         *)
(***************************************************************************)
EXTENDS AggregatorFeed, SequenceTheorems, WellFoundedInduction, TLAPS

Positions == DOMAIN events
Histories == UNION {[D -> Bars] : D \in SUBSET Assets}
BarEvents == [time : Nat, bars : Histories, upTo : 0..Len(events)]
Sent      == handled \o channel.queue

LastUpTo(s) == IF s = <<>> THEN 0 ELSE Last(s).upTo

GivenInv == events \in Feeds /\ remaining \in BOOLEAN

ControlInv ==
    /\ feed \in {"idle", "new", "send", "suspended", "closing", "stopped"}
    /\ play \in {"new", "receive", "send", "final", "closing", "stopped"}
    /\ worker \in {"running", "finished", "aborted"}
    /\ feedCancelled \in BOOLEAN /\ cancelled \in BOOLEAN
    /\ cancelled <=> worker # "running"
    /\ event # 0 <=> play = "send"

DataInv ==
    /\ c \in Channels(Positions) /\ next \in 1..Len(events) + 1
    /\ event \in 0..Len(events) /\ upTo \in 0..Len(events)
    /\ expiration \in Nat /\ history \in Histories
    /\ channel \in Channels(BarEvents) /\ handled \in Seq(BarEvents)

StateInv == GivenInv /\ ControlInv /\ DataInv

(* The events on their way from the feed to play().                        *)
Cursor  == IF play = "send" THEN event ELSE upTo
Playing == ~cancelled /\ play \in {"new", "receive", "send"}

PathInv ==
    Playing =>
        /\ ~feedCancelled /\ Cursor < next
        /\ \A k \in DOMAIN c.queue :
            c.queue[k] \in Visible /\ Cursor < c.queue[k] /\ c.queue[k] < next
        /\ \A i, k \in DOMAIN c.queue : i < k => c.queue[i] < c.queue[k]
        /\ \A n \in Visible : Cursor < n /\ n < next => \E k \in DOMAIN c.queue : c.queue[k] = n
        /\ c.closed \/ feed \in {"closing", "stopped"} => \A n \in Visible : n < next

(* The current window.                                                     *)
Periodic(t) == \E m \in Nat : t = m * Period

WindowInv ==
    Playing =>
        /\ Periodic(expiration)
        /\ expiration = 0 <=> upTo = 0
        /\ expiration = 0 => play # "send" /\ history = NoHistory
        /\ expiration # 0 => /\ upTo \in Visible
                             /\ expiration - Period <= Time(upTo) /\ Time(upTo) <= expiration
        /\ play = "send" => /\ event \in Visible /\ upTo < event /\ expiration <= Time(event)
                            /\ \A n \in Visible : ~(upTo < n /\ n < event)

(* The bars that were sent, and those of the current window.               *)
Shows(bars, a, ps, v) ==
    IF a \in DOMAIN bars THEN IsAggregate(bars[a], ps) /\ bars[a].volume = v ELSE ps = {} /\ v = 0

Window(bars, from, to) ==
    \A a \in Assets : Shows(bars, a, Parts(Segment(from, to), a),
                           VolumeUpTo(to, a) - VolumeUpTo(from, a))

Fits(s) ==
    \A k \in DOMAIN s :
        /\ k > 1 => s[k - 1].time < s[k].time
        /\ HasBars(s[k], From(s, k)) /\ InWindow(s[k], From(s, k))

SentInv == ~cancelled => Fits(Sent)

LinkInv ==
    Playing =>
        /\ \A k \in DOMAIN Sent : /\ Sent[k].time <= expiration /\ Sent[k].upTo <= upTo
                                  /\ play # "send" => Sent[k].time < expiration
        /\ ~AfterTimeframe(expiration) =>
            /\ InWindow(BarEvent, LastUpTo(Sent))
            /\ Window(IF play = "send" THEN NoHistory ELSE history, LastUpTo(Sent), upTo)

(* What was not sent.                                                      *)
Accounted(n, s) ==
    \/ n <= LastUpTo(s)
    \/ AfterTimeframe(WindowEnd(Time(n)))
    \/ ~remaining /\ \A m \in Visible : Time(m) <= WindowEnd(Time(n))

Priced == {n \in Visible : events[n].items # <<>>}

OutInv ==
    ~cancelled =>
        /\ Playing => \A n \in Priced :
            \/ n <= LastUpTo(Sent) \/ AfterTimeframe(WindowEnd(Time(n)))
            \/ IF play = "send" THEN event <= n ELSE expiration - Period <= Time(n)
        /\ ~Playing => \A n \in Priced : Accounted(n, Sent)
        /\ channel.closed => play = "stopped" \/ AfterTimeframe(expiration)

RunningInv == PathInv /\ WindowInv /\ SentInv /\ LinkInv /\ OutInv

(* What the strategy has got, and what it has got when the run finished.   *)
EndInv == Fits(handled) /\ (worker = "finished" => \A n \in Priced : Accounted(n, handled))

Inv == StateInv /\ RunningInv /\ EndInv
-----------------------------------------------------------------------------
(* Sequences                                                               *)
LEMMA AppendFacts ==
    ASSUME NEW S, NEW q \in Seq(S), NEW e \in S
    PROVE  /\ Append(q, e) \in Seq(S) /\ Len(q) \in Nat
           /\ DOMAIN q = 1..Len(q) /\ DOMAIN Append(q, e) = 1..Len(q) + 1
           /\ \A k \in 1..Len(q) : Append(q, e)[k] = q[k]
           /\ Append(q, e)[Len(q) + 1] = e
OBVIOUS

LEMMA ConcatFacts ==
    ASSUME NEW S, NEW g \in Seq(S), NEW q \in Seq(S)
    PROVE  /\ g \o q \in Seq(S) /\ Len(g) \in Nat /\ Len(q) \in Nat
           /\ DOMAIN g = 1..Len(g) /\ DOMAIN q = 1..Len(q)
           /\ DOMAIN (g \o q) = 1..Len(g) + Len(q)
           /\ \A k \in 1..Len(g) : (g \o q)[k] = g[k]
           /\ \A k \in 1..Len(q) : (g \o q)[Len(g) + k] = q[k]
OBVIOUS

(* The worker moves the head of the queue to the end of what it has got.   *)
LEMMA TakeFacts ==
    ASSUME NEW S, NEW q \in Seq(S), q # <<>>, NEW g \in Seq(S),
           NEW h, h = Append(g, Head(q)), NEW t, t = Tail(q)
    PROVE  h \in Seq(S) /\ t \in Seq(S) /\ h \o t = g \o q
<1>1. /\ Head(q) \in S /\ Head(q) = q[1] /\ t \in Seq(S) /\ h \in Seq(S)
      /\ Len(q) \in Nat /\ Len(q) >= 1 /\ Len(t) = Len(q) - 1
      /\ \A i \in 1..Len(q) - 1 : t[i] = q[i + 1]
      /\ Len(g) \in Nat /\ DOMAIN g = 1..Len(g)
  OBVIOUS
<1>2. /\ Len(h) = Len(g) + 1 /\ h[Len(g) + 1] = q[1]
      /\ \A i \in 1..Len(g) : h[i] = g[i]
  BY <1>1, AppendFacts
<1>3. PICK a, b : a = h \o t /\ b = g \o q
  OBVIOUS
<1>4. /\ a \in Seq(S) /\ DOMAIN a = 1..Len(g) + 1 + (Len(q) - 1)
      /\ \A i \in 1..Len(g) + 1 : a[i] = h[i]
      /\ \A i \in 1..Len(q) - 1 : a[Len(g) + 1 + i] = t[i]
  <2>1. /\ a \in Seq(S) /\ DOMAIN a = 1..Len(h) + Len(t)
        /\ \A i \in 1..Len(h) : a[i] = h[i]
        /\ \A i \in 1..Len(t) : a[Len(h) + i] = t[i]
    BY <1>1, <1>3, ConcatFacts
  <2>2. QED
    BY <1>1, <1>2, <2>1
<1>5. /\ b \in Seq(S) /\ DOMAIN b = 1..Len(g) + Len(q)
      /\ \A i \in 1..Len(g) : b[i] = g[i]
      /\ \A i \in 1..Len(q) : b[Len(g) + i] = q[i]
  BY <1>1, <1>3, ConcatFacts
<1>6. DOMAIN a = DOMAIN b
  <2>1. Len(g) + 1 + (Len(q) - 1) = Len(g) + Len(q)
    BY <1>1
  <2>2. QED
    BY <1>4, <1>5, <2>1
<1>7. ASSUME NEW i \in DOMAIN b PROVE a[i] = b[i]
  <2>1. CASE i \in 1..Len(g)
    <3>1. i \in 1..Len(g) + 1
      BY <1>1, <2>1
    <3>2. QED
      BY <1>2, <1>4, <1>5, <2>1, <3>1
  <2>2. CASE i = Len(g) + 1
    <3>1. i \in 1..Len(g) + 1 /\ 1 \in 1..Len(q)
      BY <1>1, <2>2
    <3>2. QED
      BY <1>2, <1>4, <1>5, <2>2, <3>1
  <2>3. CASE i > Len(g) + 1
    <3>1. PICK j \in 1..Len(q) - 1 : i = Len(g) + 1 + j
      <4>1. i - (Len(g) + 1) \in 1..Len(q) - 1 /\ i = Len(g) + 1 + (i - (Len(g) + 1))
        BY <1>1, <1>5, <2>3
      <4>2. QED
        BY <4>1
    <3>2. j + 1 \in 1..Len(q) /\ i = Len(g) + (j + 1)
      BY <1>1, <3>1
    <3>3. a[i] = t[j] /\ b[i] = q[j + 1]
      BY <1>4, <1>5, <3>1, <3>2
    <3>4. QED
      BY <1>1, <3>1, <3>3
  <2>4. QED
    BY <1>1, <1>5, <2>1, <2>2, <2>3
<1>8. a = b
  <2>1. a = [i \in DOMAIN a |-> a[i]] /\ b = [i \in DOMAIN b |-> b[i]]
    BY <1>4, <1>5
  <2>2. QED
    BY <1>6, <1>7, <2>1
<1>9. QED
  BY <1>1, <1>3, <1>8

(* A set of numbers has a least one; with it the numbers are counted up.   *)
LEMMA LeastElement ==
    ASSUME NEW T, T \subseteq Nat, T # {}
    PROVE  \E x \in T : \A y \in T : x <= y
<1> DEFINE R == OpToRel(<, Nat)
<1>1. IsWellFoundedOn(R, Nat)
  BY NatLessThanWellFounded
<1>2. \A x, y \in Nat : x < y => <<x, y>> \in R
  BY DEF OpToRel
<1> HIDE DEF R
<1>3. PICK x \in T : \A y \in T : ~(<<y, x>> \in R)
  BY <1>1, WFMin
<1>4. ASSUME NEW y \in T PROVE x <= y
  <2>1. x \in Nat /\ y \in Nat
    OBVIOUS
  <2>2. ~(y < x)
    BY <1>2, <1>3, <2>1
  <2>3. QED
    BY <2>1, <2>2
<1>5. QED
  BY <1>4

LEMMA Induct ==
    ASSUME NEW S, 0 \in S, \A n \in Nat : n \in S => n + 1 \in S
    PROVE  Nat \subseteq S
<1> DEFINE T == {n \in Nat : n \notin S}
<1> SUFFICES ASSUME T # {} PROVE FALSE
  OBVIOUS
<1>1. PICK x \in T : \A y \in T : x <= y
  BY LeastElement
<1>2. x # 0 /\ x - 1 \in Nat
  OBVIOUS
<1>3. x - 1 \in S
  BY <1>1, <1>2
<1>4. QED
  BY <1>2, <1>3

(* The same up to m.                                                       *)
LEMMA Along ==
    ASSUME NEW S, NEW m \in Nat, 0 \in S, \A n \in 1..m : n - 1 \in S => n \in S
    PROVE  0..m \subseteq S
<1> DEFINE T == {n \in Nat : n <= m => n \in S}
<1>1. 0 \in T
  OBVIOUS
<1>2. ASSUME NEW n \in Nat, n \in T PROVE n + 1 \in T
  <2> SUFFICES ASSUME n + 1 <= m PROVE n + 1 \in S
    OBVIOUS
  <2>1. n \in S /\ n + 1 \in 1..m /\ (n + 1) - 1 = n
    BY <1>2
  <2>2. QED
    BY <2>1
<1> HIDE DEF T
<1>3. Nat \subseteq T
  BY <1>1, <1>2, Induct
<1>4. QED
  BY <1>3 DEF T

-----------------------------------------------------------------------------
(* Total adds up the numbers of a sequence.                                *)
Sums(f, m, s) == f = [n \in 0..m |-> IF n = 0 THEN 0 ELSE f[n - 1] + s[n]]

LEMMA SumsStep ==
    ASSUME NEW s, NEW m \in Nat, NEW f, Sums(f, m, s), NEW n \in Nat, n + 1 <= m
    PROVE  f[n + 1] = f[n] + s[n + 1]
<1>1. n + 1 \in 0..m /\ n + 1 # 0 /\ (n + 1) - 1 = n
  OBVIOUS
<1> QED
  BY <1>1 DEF Sums

LEMMA SumsAgree ==
    ASSUME NEW s \in Seq(Int), NEW t \in Seq(Int),
           NEW m \in Nat, m <= Len(s), m <= Len(t),
           \A i \in 1..m : s[i] = t[i],
           NEW k \in Nat, m <= k, NEW l \in Nat, m <= l,
           NEW f, Sums(f, k, s), NEW g, Sums(g, l, t)
    PROVE  f[m] = g[m] /\ f[m] \in Int
<1> DEFINE S == {n \in Nat : n <= m => f[n] = g[n] /\ f[n] \in Int}
<1>1. 0 \in S
  <2>1. 0 \in 0..k /\ 0 \in 0..l
    OBVIOUS
  <2>2. f[0] = 0 /\ g[0] = 0
    BY <2>1 DEF Sums
  <2>3. QED
    BY <2>2
<1>2. ASSUME NEW n \in Nat, n \in S PROVE n + 1 \in S
  <2> SUFFICES ASSUME n + 1 <= m PROVE f[n + 1] = g[n + 1] /\ f[n + 1] \in Int
    OBVIOUS
  <2>1. f[n + 1] = f[n] + s[n + 1] /\ g[n + 1] = g[n] + t[n + 1]
    BY SumsStep
  <2>2. s[n + 1] = t[n + 1] /\ s[n + 1] \in Int
    <3>1. n + 1 \in 1..m /\ n + 1 \in 1..Len(s)
      OBVIOUS
    <3>2. QED
      BY <3>1
  <2>3. f[n] = g[n] /\ f[n] \in Int
    BY <1>2
  <2> HIDE DEF S
  <2>4. QED
    BY <2>1, <2>2, <2>3, SMTT(20)
<1> HIDE DEF S
<1>3. Nat \subseteq S
  BY <1>1, <1>2, Induct
<1>4. QED
  BY <1>3 DEF S

LEMMA SumsExist ==
    ASSUME NEW s, NEW m \in Nat
    PROVE  \E f : Sums(f, m, s)
<1> DEFINE S == {n \in Nat : \E f : Sums(f, n, s)}
<1>1. 0 \in S
  <2> DEFINE f == [n \in 0..0 |-> 0]
  <2>1. Sums(f, 0, s)
    BY DEF Sums
  <2>2. QED
    BY <2>1
<1>2. ASSUME NEW n \in Nat, n \in S PROVE n + 1 \in S
  <2>1. PICK f : Sums(f, n, s)
    BY <1>2
  <2> DEFINE g == [i \in 0..n + 1 |-> IF i = n + 1 THEN f[n] + s[n + 1] ELSE f[i]]
  <2>2. Sums(g, n + 1, s)
    <3>1. ASSUME NEW i \in 0..n + 1
          PROVE  g[i] = IF i = 0 THEN 0 ELSE g[i - 1] + s[i]
      <4>1. CASE i = 0
        BY <2>1, <4>1 DEF Sums
      <4>2. CASE i = n + 1
        BY <4>2
      <4>3. CASE i # 0 /\ i # n + 1
        <5>1. i \in 0..n /\ i - 1 \in 0..n + 1 /\ i - 1 # n + 1
          BY <4>3
        <5>2. g[i] = f[i] /\ g[i - 1] = f[i - 1]
          BY <4>3, <5>1
        <5>3. f[i] = f[i - 1] + s[i]
          BY <2>1, <4>3, <5>1 DEF Sums
        <5>4. QED
          BY <4>3, <5>2, <5>3
      <4>4. QED
        BY <4>1, <4>2, <4>3
    <3>2. g = [i \in 0..n + 1 |-> g[i]]
      OBVIOUS
    <3> HIDE DEF g
    <3>3. QED
      BY <3>1, <3>2 DEF Sums
  <2> HIDE DEF g
  <2>3. QED
    BY <2>2
<1> HIDE DEF S
<1>3. Nat \subseteq S
  BY <1>1, <1>2, Induct
<1>4. QED
  BY <1>3 DEF S

LEMMA TotalIsSum ==
    ASSUME NEW s \in Seq(Int)
    PROVE  \E f : Sums(f, Len(s), s) /\ Total(s) = f[Len(s)]
<1> DEFINE g == CHOOSE f : Sums(f, Len(s), s)
<1>1. Len(s) \in Nat
  OBVIOUS
<1>2. \E f : Sums(f, Len(s), s)
  BY <1>1, SumsExist
<1>3. Sums(g, Len(s), s)
  BY <1>2
<1>4. Total(s) = g[Len(s)]
  BY DEF Total, Sums
<1> HIDE DEF g
<1>5. QED
  BY <1>3, <1>4

LEMMA TotalOfNone == Total(<<>>) = 0
<1>1. <<>> \in Seq(Int) /\ Len(<<>>) = 0
  OBVIOUS
<1>2. PICK f : Sums(f, 0, <<>>) /\ Total(<<>>) = f[0]
  BY <1>1, TotalIsSum
<1>3. QED
  BY <1>2 DEF Sums

LEMMA TotalOfAppend ==
    ASSUME NEW s \in Seq(Int), NEW x \in Int
    PROVE  Total(s) \in Int /\ Total(Append(s, x)) = Total(s) + x
<1>1. PICK m, t : m = Len(s) /\ t = Append(s, x)
  OBVIOUS
<1>2. /\ t \in Seq(Int) /\ Len(t) = m + 1 /\ m \in Nat /\ t[m + 1] = x
      /\ \A i \in 1..m : s[i] = t[i]
  BY <1>1
<1>3. PICK f : Sums(f, m, s) /\ Total(s) = f[m]
  BY <1>1, TotalIsSum
<1>4. PICK k : k = m + 1
  OBVIOUS
<1>5. k \in Nat /\ m <= k /\ m <= m /\ m + 1 <= k /\ m <= Len(s) /\ m <= Len(t) /\ Len(t) = k
  BY <1>1, <1>2, <1>4
<1>6. PICK g : Sums(g, k, t) /\ Total(t) = g[k]
  BY <1>2, <1>5, TotalIsSum
<1>7. f[m] = g[m] /\ f[m] \in Int
  BY <1>2, <1>3, <1>5, <1>6, SumsAgree, SMTT(20)
<1>8. g[m + 1] = g[m] + t[m + 1]
  BY <1>2, <1>5, <1>6, SumsStep
<1>9. QED
  BY <1>1, <1>2, <1>3, <1>4, <1>6, <1>7, <1>8

-----------------------------------------------------------------------------
(* The channels                                                            *)
LEMMA TimeframeFacts ==
    ASSUME NEW t \in Nat
    PROVE  InTimeframe(t) <=> Start <= t /\ ~AfterTimeframe(t)
BY ChannelAssumption DEF InTimeframe, AfterTimeframe

LEMMA SendFacts ==
    ASSUME NEW S, NEW ch \in Channels(S), NEW e \in S, NEW t \in Nat, ~SendFails(ch, t),
           NEW n, n = Send(ch, e, t)
    PROVE  /\ n \in Channels(S)
           /\ \/ /\ n.queue = Append(ch.queue, e) /\ InTimeframe(t)
                 /\ n.closed <=> ch.closed
              \/ /\ n.queue = ch.queue /\ ~InTimeframe(t)
                 /\ n.closed <=> (ch.closed \/ AfterTimeframe(t))
<1>1. CASE InTimeframe(t)
  <2>1. ~ch.closed /\ ~AfterTimeframe(t)
    BY <1>1, TimeframeFacts DEF SendFails
  <2> DEFINE q == Append(ch.queue, e)
  <2>2. q \in Seq(S)
    BY DEF Channels
  <2>3. n = [ch EXCEPT !.queue = q]
    BY <1>1, <2>1 DEF Send
  <2> HIDE DEF q
  <2>4. n \in Channels(S) /\ n.queue = q /\ n.closed = ch.closed
    BY <2>2, <2>3 DEF Channels
  <2>5. QED
    BY <1>1, <2>1, <2>4 DEF q
<1>2. CASE ~InTimeframe(t) /\ AfterTimeframe(t) /\ ~ch.closed
  <2>1. n = [ch EXCEPT !.closed = TRUE, !.locked = FALSE]
    BY <1>2 DEF Send, Close
  <2>2. n \in Channels(S) /\ n.queue = ch.queue /\ n.closed
    BY <2>1 DEF Channels
  <2>3. QED
    BY <1>2, <2>2
<1>3. CASE ~InTimeframe(t) /\ (ch.closed \/ ~AfterTimeframe(t))
  <2>1. n = ch /\ (ch.closed \/ ~AfterTimeframe(t))
    BY <1>3 DEF Send, Close
  <2>2. n.closed <=> (ch.closed \/ AfterTimeframe(t))
    BY <2>1 DEF Channels
  <2>3. QED
    BY <1>3, <2>1, <2>2
<1>4. QED
  BY <1>1, <1>2, <1>3

LEMMA CloseFacts ==
    ASSUME NEW S, NEW ch \in Channels(S), NEW n, n = Close(ch)
    PROVE  n \in Channels(S) /\ n.queue = ch.queue /\ n.closed
BY DEF Close, Channels

LEMMA ReceiveFacts ==
    ASSUME NEW S, NEW ch \in Channels(S), CanReceive(ch), NEW n, n = Receive(ch)
    PROVE  /\ n \in Channels(S) /\ n.closed = ch.closed /\ n.queue = Tail(ch.queue)
           /\ Head(ch.queue) \in S /\ Head(ch.queue) = ch.queue[1] /\ 1 \in DOMAIN ch.queue
           /\ \A k \in DOMAIN n.queue :
                k + 1 \in DOMAIN ch.queue /\ n.queue[k] = ch.queue[k + 1] /\ k + 1 > 1 /\ k \in Nat
<1>1. ch.queue \in Seq(S) /\ ch.queue # <<>>
  BY DEF Channels, CanReceive
<1>2. n = [ch EXCEPT !.queue = Tail(ch.queue)]
  BY DEF Receive
<1>3. n.queue = Tail(ch.queue) /\ n.closed = ch.closed
  BY <1>2 DEF Channels
<1>4. Tail(ch.queue) \in Seq(S)
  BY <1>1
<1>5. n \in Channels(S)
  BY <1>2, <1>4 DEF Channels
<1>6. QED
  BY <1>1, <1>3, <1>5

(* A suspended sender that takes its event back leaves a channel.          *)
LEMMA WithdrawType ==
    ASSUME NEW S, NEW ch \in Channels(S), NEW e, ~Buffered(ch, e), NEW n, n = Withdraw(ch, e)
    PROVE  n \in Channels(S)
<1>1. PICK q : q = ch.queue
  OBVIOUS
<1>2. q \in Seq(S) /\ Len(q) \in Nat /\ DOMAIN q = 1..Len(q)
  BY <1>1 DEF Channels
<1>3. \E i \in DOMAIN q : q[i] = e
  BY <1>1, <1>2, ChannelAssumption DEF Buffered
<1>4. PICK p : p = CHOOSE i \in DOMAIN q : q[i] = e
  OBVIOUS
<1>5. p \in 1..Len(q)
  BY <1>2, <1>3, <1>4
<1>6. PICK r : r = SubSeq(q, 1, p - 1) \o SubSeq(q, p + 1, Len(q))
  OBVIOUS
<1>7. r \in Seq(S)
  BY <1>2, <1>5, <1>6
<1>8. n = [ch EXCEPT !.queue = r]
  BY <1>1, <1>4, <1>6 DEF Withdraw
<1>9. QED
  BY <1>7, <1>8 DEF Channels

-----------------------------------------------------------------------------
(* Windows                                                                 *)
LEMMA Products ==
    ASSUME NEW p \in Nat \ {0}, NEW a \in Int, NEW b \in Int
    PROVE  /\ a * p \in Int /\ (a + b) * p = a * p + b * p
           /\ a * p < b * p => a < b
           /\ a <= b => a * p <= b * p
<1>1. a * p \in Int /\ b * p \in Int /\ (a + b) * p = a * p + b * p
  OBVIOUS
<1>2. ASSUME a <= b PROVE a * p <= b * p
  <2>1. PICK d \in Nat : b = a + d
    <3>1. b - a \in Nat /\ b = a + (b - a)
      BY <1>2
    <3>2. QED
      BY <3>1
  <2>2. d * p >= 0 /\ b * p = a * p + d * p
    BY <2>1
  <2>3. QED
    BY <1>1, <2>2
<1>3. ASSUME NEW x \in Int, NEW y \in Int, y <= x PROVE y * p <= x * p
  <2>1. PICK d \in Nat : x = y + d
    <3>1. x - y \in Nat /\ x = y + (x - y)
      BY <1>3
    <3>2. QED
      BY <3>1
  <2>2. d * p >= 0 /\ x * p = y * p + d * p
    BY <2>1
  <2>3. QED
    BY <2>2
<1>4. a * p < b * p => a < b
  <2>1. b <= a => b * p <= a * p
    BY <1>3
  <2>2. QED
    BY <1>1, <2>1
<1>5. QED
  BY <1>1, <1>2, <1>4

LEMMA Division ==
    ASSUME NEW p \in Nat \ {0}, NEW t \in Nat
    PROVE  /\ t \div p \in Nat /\ t % p \in 0..p - 1
           /\ t = (t \div p) * p + (t % p)
OBVIOUS

LEMMA PeriodFacts == Period \in Nat \ {0} /\ Capacity \in Nat /\ Start \in Nat /\ End \in Nat
BY AggregatorAssumption, ChannelAssumption

(* The first window has the time of the first event.                       *)
LEMMA ExpirationFacts ==
    ASSUME NEW t \in Nat, NEW e, e = ExpirationTime(t)
    PROVE  e \in Nat /\ Periodic(e) /\ e # 0 /\ e - Period <= t /\ t < e
<1>1. PICK q, r : q = t \div Period /\ r = t % Period
  OBVIOUS
<1>2. q \in Nat /\ r \in 0..Period - 1 /\ t = q * Period + r
  BY <1>1, Division, PeriodFacts
<1>3. e = q * Period + Period
  BY <1>1 DEF ExpirationTime
<1>4. q * Period \in Nat /\ (q + 1) * Period = q * Period + Period
  BY <1>2, PeriodFacts
<1>5. Periodic(e)
  BY <1>2, <1>3, <1>4 DEF Periodic
<1>6. QED
  BY <1>2, <1>3, <1>4, <1>5, PeriodFacts

(* And the next one that of the event that comes next.                     *)
LEMMA NextFacts ==
    ASSUME expiration \in Nat, NEW t \in Nat, NEW e, e = NextExpiration(t)
    PROVE  /\ e \in Nat
           /\ Periodic(expiration) => Periodic(e)
           /\ expiration <= t => e > expiration /\ e - Period <= t /\ t <= e
<1>1. PICK d, q, h : /\ d = t - expiration + Period - 1 /\ q = d \div Period
                     /\ h = Highest(1, q)
  OBVIOUS
<1>2. d \in Int /\ q \in Int
  BY <1>1, PeriodFacts
<1>3. h \in Nat /\ h >= 1 /\ h >= q /\ (h = 1 \/ h = q)
  BY <1>1, <1>2 DEF Highest
<1>4. e = expiration + h * Period
  BY <1>1, <1>3, PeriodFacts DEF NextExpiration
<1>5. h * Period \in Nat
  BY <1>3, PeriodFacts
<1>6. ASSUME Periodic(expiration) PROVE Periodic(e)
  <2>1. PICK m \in Nat : expiration = m * Period
    BY <1>6 DEF Periodic
  <2>2. m + h \in Nat /\ (m + h) * Period = m * Period + h * Period
    BY <1>3, PeriodFacts, Products
  <2>3. QED
    BY <1>4, <2>1, <2>2 DEF Periodic
<1>7. ASSUME expiration <= t PROVE e > expiration /\ e - Period <= t /\ t <= e
  <2>1. d \in Nat
    BY <1>1, <1>7, PeriodFacts
  <2>2. PICK r : r = d % Period
    OBVIOUS
  <2>3. q \in Nat /\ r \in 0..Period - 1 /\ d = q * Period + r
    BY <1>1, <2>1, <2>2, Division, PeriodFacts
  <2>4. PICK x : x = q * Period /\ x \in Nat
    BY <2>3, PeriodFacts
  <2>5. CASE q = 0
    <3>1. d = r /\ h = 1 /\ h * Period = Period
      BY <1>3, <2>3, <2>5, PeriodFacts
    <3>2. QED
      BY <1>1, <1>4, <1>7, <2>3, <3>1, PeriodFacts
  <2>6. CASE q # 0
    <3>1. h = q /\ h * Period = x /\ d = x + r
      BY <1>3, <2>3, <2>4, <2>6
    <3>2. x >= Period
      BY <2>3, <2>4, <2>6, PeriodFacts, Products
    <3>3. e = expiration + x
      BY <1>4, <3>1
    <3>4. QED
      BY <1>1, <1>7, <2>3, <2>4, <3>1, <3>2, <3>3, PeriodFacts
  <2>7. QED
    BY <2>5, <2>6
<1>8. QED
  BY <1>4, <1>5, <1>6, <1>7

(* The window of a time ends after the times of all windows before.        *)
LEMMA WindowEndFacts ==
    ASSUME NEW t \in Nat, NEW e \in Nat, Periodic(e), e - Period <= t
    PROVE  WindowEnd(t) \in Nat /\ e <= WindowEnd(t)
<1>1. PICK q, r : q = t \div Period /\ r = t % Period
  OBVIOUS
<1>2. q \in Nat /\ r \in 0..Period - 1 /\ t = q * Period + r
  BY <1>1, Division, PeriodFacts
<1>3. PICK m \in Nat : e = m * Period
  BY DEF Periodic
<1>4. PICK x, y : x = q * Period /\ x \in Nat /\ y = m * Period /\ y \in Nat
  BY <1>2, <1>3, PeriodFacts
<1>5. WindowEnd(t) = x + Period
  BY <1>1, <1>2, <1>4, PeriodFacts DEF WindowEnd
<1>6. (q + 2) * Period = x + Period + Period /\ (q + 1) * Period = x + Period
  BY <1>2, <1>4, PeriodFacts
<1>7. m * Period < (q + 2) * Period
  BY <1>2, <1>3, <1>4, <1>6, PeriodFacts
<1>8. m < q + 2
  BY <1>2, <1>7, PeriodFacts, Products
<1>9. m <= q + 1
  BY <1>2, <1>8
<1>10. m * Period <= (q + 1) * Period
  BY <1>2, <1>9, PeriodFacts, Products
<1>11. QED
  BY <1>3, <1>4, <1>5, <1>6, <1>10, PeriodFacts

LEMMA AfterFacts ==
    ASSUME NEW t \in Nat, NEW u \in Nat, t <= u, AfterTimeframe(t)
    PROVE  AfterTimeframe(u)
BY PeriodFacts DEF AfterTimeframe

-----------------------------------------------------------------------------
(* Bars                                                                    *)
Items == [asset : Assets, bar : Bars]

LEMMA GivenFacts ==
    ASSUME GivenInv
    PROVE  /\ Len(events) \in Nat /\ Positions = 1..Len(events) /\ DOMAIN events = Positions
           /\ events \in Seq([time : Nat, items : Seq([asset : Assets, bar : Bars])])
           /\ \A n \in Positions :
               n \in Nat \ {0} /\ Time(n) \in Nat /\ events[n].items \in Seq(Items)
           /\ \A i, j \in Positions : i <= j => Time(i) <= Time(j)
<1>1. /\ events \in Seq([time : Nat, items : Seq([asset : Assets, bar : Bars])])
      /\ \A i, j \in DOMAIN events : i <= j => events[i].time <= events[j].time
  BY AggregatorAssumption DEF GivenInv
<1>2. Len(events) \in Nat /\ Positions = 1..Len(events) /\ DOMAIN events = Positions
  BY <1>1 DEF Positions
<1>3. PICK I : I = Seq(Items) /\ I = Seq([asset : Assets, bar : Bars])
  BY DEF Items
<1>4. PICK S : S = [time : Nat, items : I] /\ events \in Seq(S)
  BY <1>1, <1>3
<1>5. \A n \in Positions : events[n] \in S
  <2>1. events \in Seq(S)
    BY <1>4
  <2>2. \A n \in 1..Len(events) : events[n] \in S
    BY <2>1
  <2>3. QED
    BY <1>2, <2>2
<1>6. \A e \in S : e.time \in Nat /\ e.items \in I
  BY <1>4
<1>7. \A n \in Positions : n \in Nat \ {0} /\ Time(n) \in Nat /\ events[n].items \in Seq(Items)
  BY <1>2, <1>3, <1>5, <1>6 DEF Time
<1>8. \A i, j \in Positions : i <= j => Time(i) <= Time(j)
  BY <1>1, <1>2 DEF Time
<1>9. QED
  BY <1>1, <1>2, <1>7, <1>8

LEMMA ItemFacts ==
    ASSUME NEW its \in Seq(Items)
    PROVE  /\ Len(its) \in Nat /\ DOMAIN its = 1..Len(its)
           /\ \A j \in DOMAIN its :
               its[j] \in Items /\ its[j].asset \in Assets /\ its[j].bar \in Bars
<1>1. Len(its) \in Nat /\ DOMAIN its = 1..Len(its) /\ \A j \in DOMAIN its : its[j] \in Items
  OBVIOUS
<1>2. \A i \in Items : i.asset \in Assets /\ i.bar \in Bars
  BY DEF Items
<1>3. QED
  BY <1>1, <1>2

LEMMA HistoryFacts ==
    ASSUME NEW x \in Histories
    PROVE  /\ DOMAIN x \subseteq Assets /\ \A a \in DOMAIN x : x[a] \in Bars
           /\ DOMAIN x = {} => x = NoHistory
<1>1. PICK D \in SUBSET Assets : x \in [D -> Bars]
  BY DEF Histories
<1>2. DOMAIN x \subseteq Assets /\ \A a \in DOMAIN x : x[a] \in Bars
  BY <1>1
<1>3. ASSUME DOMAIN x = {} PROVE x = NoHistory
  <2>1. PICK h : h = NoHistory
    OBVIOUS
  <2>2. DOMAIN h = {} /\ h = [a \in {} |-> 0]
    BY <2>1 DEF NoHistory
  <2>3. x = [a \in {} |-> 0]
    BY <1>1, <1>3
  <2>4. QED
    BY <2>1, <2>2, <2>3
<1>4. QED
  BY <1>2, <1>3

LEMMA NoHistoryFacts == NoHistory \in Histories /\ DOMAIN NoHistory = {}
<1>1. PICK h : h = NoHistory
  OBVIOUS
<1>2. DOMAIN h = {} /\ h = [a \in {} |-> 0]
  BY <1>1 DEF NoHistory
<1>3. h \in [{} -> Bars]
  BY <1>2
<1>4. QED
  BY <1>1, <1>2, <1>3 DEF Histories

LEMMA MergeFacts ==
    ASSUME NEW b \in Bars, NEW o \in Bars, NEW n, n = Merge(b, o)
    PROVE  /\ n \in Bars /\ n.open = b.open /\ n.close = o.close /\ n.volume = b.volume + o.volume
           /\ n.high >= b.high /\ n.high >= o.high /\ (n.high = b.high \/ n.high = o.high)
           /\ n.low <= b.low /\ n.low <= o.low /\ (n.low = b.low \/ n.low = o.low)
<1>1. /\ b.open \in Nat /\ b.high \in Nat /\ b.low \in Nat /\ b.close \in Nat /\ b.volume \in Nat
      /\ o.open \in Nat /\ o.high \in Nat /\ o.low \in Nat /\ o.close \in Nat /\ o.volume \in Nat
  BY DEF Bars
<1>2. n = [b EXCEPT !.high = Highest(@, o.high), !.low = Lowest(@, o.low),
                    !.close = o.close, !.volume = @ + o.volume]
  BY DEF Merge
<1>3. /\ n.open = b.open /\ n.close = o.close /\ n.volume = b.volume + o.volume
      /\ n.high = Highest(b.high, o.high) /\ n.low = Lowest(b.low, o.low)
  BY <1>2 DEF Bars
<1>4. Highest(b.high, o.high) \in Nat /\ Lowest(b.low, o.low) \in Nat
  BY <1>1 DEF Highest, Lowest
<1>5. n \in Bars
  <2>1. b.volume + o.volume \in Nat
    BY <1>1
  <2>2. QED
    BY <1>1, <1>2, <1>4, <2>1 DEF Bars
<1>6. QED
  BY <1>1, <1>3, <1>5 DEF Highest, Lowest

LEMMA AddItemType ==
    ASSUME NEW bars \in Histories, NEW item \in Items, NEW n, n = AddItem(bars, item)
    PROVE  /\ n \in Histories /\ DOMAIN n = DOMAIN bars \cup {item.asset}
           /\ \A a \in DOMAIN n :
                /\ a # item.asset => n[a] = bars[a]
                /\ a = item.asset /\ a \in DOMAIN bars => n[a] = Merge(bars[a], item.bar)
                /\ a = item.asset /\ a \notin DOMAIN bars => n[a] = item.bar
<1>1. item.asset \in Assets /\ item.bar \in Bars
  BY DEF Items
<1>2. PICK D : D = DOMAIN bars \cup {item.asset}
  OBVIOUS
<1>3. n = [a \in D |-> IF a # item.asset THEN bars[a]
                       ELSE IF a \in DOMAIN bars THEN Merge(bars[a], item.bar) ELSE item.bar]
  BY <1>2 DEF AddItem
<1>4. DOMAIN n = D /\ \A a \in D :
          /\ a # item.asset => n[a] = bars[a]
          /\ a = item.asset /\ a \in DOMAIN bars => n[a] = Merge(bars[a], item.bar)
          /\ a = item.asset /\ a \notin DOMAIN bars => n[a] = item.bar
  BY <1>3
<1>5. \A a \in D : n[a] \in Bars
  <2>1. \A a \in DOMAIN bars : bars[a] \in Bars
    BY HistoryFacts
  <2>2. \A a \in DOMAIN bars : Merge(bars[a], item.bar) \in Bars
    BY <1>1, <2>1, MergeFacts
  <2>3. QED
    BY <1>1, <1>2, <1>4, <2>1, <2>2
<1>6. n \in [D -> Bars] /\ D \in SUBSET Assets
  BY <1>1, <1>2, <1>3, <1>4, <1>5, HistoryFacts
<1>7. QED
  BY <1>2, <1>4, <1>6 DEF Histories

(* The first items of an event in the order of the event.                  *)
Added(f, m, bars, items) ==
    f = [j \in 0..m |-> IF j = 0 THEN bars ELSE AddItem(f[j - 1], items[j])]

LEMMA AddedExists ==
    ASSUME NEW bars, NEW its, NEW m \in Nat
    PROVE  \E f : Added(f, m, bars, its)
<1> DEFINE S == {n \in Nat : \E f : Added(f, n, bars, its)}
<1>1. 0 \in S
  <2> DEFINE f == [n \in 0..0 |-> bars]
  <2>1. Added(f, 0, bars, its)
    BY DEF Added
  <2>2. QED
    BY <2>1
<1>2. ASSUME NEW n \in Nat, n \in S PROVE n + 1 \in S
  <2>1. PICK f : Added(f, n, bars, its)
    BY <1>2
  <2>2. PICK x : x = AddItem(f[n], its[n + 1])
    OBVIOUS
  <2> DEFINE g == [i \in 0..n + 1 |-> IF i = n + 1 THEN x ELSE f[i]]
  <2>3. Added(g, n + 1, bars, its)
    <3>1. ASSUME NEW i \in 0..n + 1
          PROVE  g[i] = IF i = 0 THEN bars ELSE AddItem(g[i - 1], its[i])
      <4>1. CASE i = 0
        BY <2>1, <4>1 DEF Added
      <4>2. CASE i = n + 1
        BY <2>2, <4>2
      <4>3. CASE i # 0 /\ i # n + 1
        <5>1. i \in 0..n /\ i - 1 \in 0..n + 1 /\ i - 1 # n + 1
          BY <4>3
        <5>2. g[i] = f[i] /\ g[i - 1] = f[i - 1]
          BY <4>3, <5>1
        <5>3. f[i] = AddItem(f[i - 1], its[i])
          BY <2>1, <4>3, <5>1 DEF Added
        <5>4. QED
          BY <4>3, <5>2, <5>3
      <4>4. QED
        BY <4>1, <4>2, <4>3
    <3>2. g = [i \in 0..n + 1 |-> g[i]]
      OBVIOUS
    <3> HIDE DEF g
    <3>3. QED
      BY <3>1, <3>2 DEF Added
  <2> HIDE DEF g
  <2>4. QED
    BY <2>3
<1> HIDE DEF S
<1>3. Nat \subseteq S
  BY <1>1, <1>2, Induct
<1>4. QED
  BY <1>3 DEF S

Loop(f, m, bars, its) == f[0] = bars /\ \A j \in 1..m : f[j] = AddItem(f[j - 1], its[j])

LEMMA AddItemsFacts ==
    ASSUME NEW bars, NEW n, NEW its, its = events[n].items, NEW m \in Nat, m = Len(its)
    PROVE  \E f : Loop(f, m, bars, its) /\ AddItems(bars, n) = f[m]
<1> DEFINE g == CHOOSE f : Added(f, m, bars, its)
<1>1. Added(g, m, bars, its)
  <2>1. \E f : Added(f, m, bars, its)
    BY AddedExists
  <2>2. QED
    BY <2>1
<1>2. AddItems(bars, n) = g[m]
  BY DEF AddItems, Added
<1> HIDE DEF g
<1>3. g[0] = bars
  <2>1. 0 \in 0..m
    OBVIOUS
  <2>2. QED
    BY <1>1, <2>1 DEF Added
<1>4. ASSUME NEW j \in 1..m PROVE g[j] = AddItem(g[j - 1], its[j])
  <2>1. j \in 0..m /\ j # 0
    OBVIOUS
  <2>2. QED
    BY <1>1, <2>1 DEF Added
<1>5. QED
  BY <1>2, <1>3, <1>4 DEF Loop

LEMMA AddItemsType ==
    ASSUME GivenInv, NEW bars \in Histories, NEW n \in Positions
    PROVE  AddItems(bars, n) \in Histories
<1>1. PICK its, m : its = events[n].items /\ m = Len(its)
  OBVIOUS
<1>2. its \in Seq(Items)
  BY <1>1, GivenFacts
<1>3. m \in Nat /\ \A j \in 1..m : its[j] \in Items
  BY <1>1, <1>2, ItemFacts
<1>4. PICK f : /\ f[0] = bars /\ \A j \in 1..m : f[j] = AddItem(f[j - 1], its[j])
               /\ AddItems(bars, n) = f[m]
  <2>1. its = events[n].items /\ m \in Nat /\ m = Len(its)
    BY <1>1, <1>3
  <2>2. \E f : Loop(f, m, bars, its) /\ AddItems(bars, n) = f[m]
    BY <2>1, AddItemsFacts
  <2>3. QED
    BY <2>2 DEF Loop
<1> DEFINE S == {j \in 0..m : f[j] \in Histories}
<1>5. 0 \in S
  BY <1>3, <1>4
<1>6. ASSUME NEW j \in 1..m, j - 1 \in S PROVE j \in S
  <2>1. f[j] = AddItem(f[j - 1], its[j]) /\ f[j - 1] \in Histories /\ its[j] \in Items
    BY <1>3, <1>4, <1>6
  <2>2. f[j] \in Histories
    BY <2>1, AddItemType
  <2>3. QED
    BY <1>3, <2>2
<1> HIDE DEF S
<1>7. 0..m \subseteq S
  BY <1>3, <1>5, <1>6, Along
<1>8. m \in 0..m
  BY <1>3
<1>9. QED
  BY <1>4, <1>7, <1>8 DEF S

(* One more item, which is after all others, keeps the bars right.         *)
LEMMA ShowsOneMore ==
    ASSUME NEW bars \in Histories, NEW item \in Items, NEW p, Part(p) = item.bar,
           NEW a \in Assets, NEW ps, NEW v \in Int, Shows(bars, a, ps, v),
           Before(p, p), \A q \in ps : Before(q, p) /\ Part(q) \in Bars,
           NEW more, more = (IF item.asset = a THEN ps \cup {p} ELSE ps),
           NEW x, x = AddItem(bars, item)
    PROVE  Shows(x, a, more, v + ItemVolume(item, a))
<1>1. /\ DOMAIN x = DOMAIN bars \cup {item.asset}
      /\ \A b \in DOMAIN x :
            /\ b # item.asset => x[b] = bars[b]
            /\ b = item.asset /\ b \in DOMAIN bars => x[b] = Merge(bars[b], item.bar)
            /\ b = item.asset /\ b \notin DOMAIN bars => x[b] = item.bar
  <2>1. bars \in Histories /\ item \in Items /\ x = AddItem(bars, item)
    OBVIOUS
  <2>2. QED
    BY <2>1, AddItemType
<1>2. item.bar \in Bars
  BY DEF Items
<1>3. CASE item.asset # a
  <2>1. ItemVolume(item, a) = 0 /\ more = ps /\ v + 0 = v
    BY <1>3 DEF ItemVolume
  <2>2. a \in DOMAIN x <=> a \in DOMAIN bars
    BY <1>1, <1>3
  <2>3. a \in DOMAIN bars => x[a] = bars[a]
    BY <1>1, <1>3
  <2>4. QED
    BY <2>1, <2>2, <2>3 DEF Shows
<1>4. CASE item.asset = a /\ a \notin DOMAIN bars
  <2>1. ps = {} /\ v = 0
    BY <1>4 DEF Shows
  <2>2. a \in DOMAIN x /\ x[a] = item.bar /\ more = {p} /\ ItemVolume(item, a) = item.bar.volume
    BY <1>1, <1>4, <2>1 DEF ItemVolume
  <2>3. \A q \in more : q = p
    BY <2>2
  <2>4. /\ item.bar.volume \in Nat /\ item.bar.high \in Nat /\ item.bar.low \in Nat
    BY <1>2 DEF Bars
  <2>5. IsAggregate(x[a], more)
    BY <2>2, <2>3, <2>4 DEF IsAggregate
  <2>6. QED
    BY <2>1, <2>2, <2>4, <2>5 DEF Shows
<1>5. CASE item.asset = a /\ a \in DOMAIN bars
  <2>1. PICK b, o, y : b = bars[a] /\ o = item.bar /\ y = x[a]
    OBVIOUS
  <2>2. b \in Bars /\ o \in Bars
    BY <1>2, <1>5, <2>1, HistoryFacts
  <2>3. IsAggregate(b, ps) /\ b.volume = v
    BY <1>5, <2>1 DEF Shows
  <2>4. a \in DOMAIN x /\ y = Merge(b, o) /\ more = ps \cup {p} /\ ItemVolume(item, a) = o.volume
    BY <1>1, <1>5, <2>1 DEF ItemVolume
  <2>5. /\ y.open = b.open /\ y.close = o.close /\ y.volume = b.volume + o.volume
        /\ y.high >= b.high /\ y.high >= o.high /\ (y.high = b.high \/ y.high = o.high)
        /\ y.low <= b.low /\ y.low <= o.low /\ (y.low = b.low \/ y.low = o.low)
        /\ y \in Bars
    BY <2>2, <2>4, MergeFacts
  <2>6. \A q \in more : (q \in ps \/ q = p) /\ Before(q, p) /\ Part(q) \in Bars
    BY <2>1, <2>2, <2>4
  <2>7. p \in more /\ ps \subseteq more
    BY <2>4
  <2>8. \E q \in more : y.open = Part(q).open /\ \A r \in more : Before(q, r)
    <3>1. PICK q \in ps : b.open = Part(q).open /\ \A r \in ps : Before(q, r)
      BY <2>3 DEF IsAggregate
    <3>2. \A r \in more : Before(q, r)
      BY <2>6, <3>1
    <3>3. QED
      BY <2>5, <2>7, <3>1, <3>2
  <2>9. \E q \in more : y.close = Part(q).close /\ \A r \in more : Before(r, q)
    BY <2>1, <2>5, <2>6, <2>7
  <2>10. \A z \in Bars : z.high \in Nat /\ z.low \in Nat
    BY DEF Bars
  <2>11. \E q \in more : y.high = Part(q).high /\ \A r \in more : Part(r).high <= y.high
    <3>1. PICK q \in ps : b.high = Part(q).high /\ \A r \in ps : Part(r).high <= b.high
      BY <2>3 DEF IsAggregate
    <3>2. \A r \in more : Part(r).high <= y.high
      <4> SUFFICES ASSUME NEW r \in more PROVE Part(r).high <= y.high
        OBVIOUS
      <4>1. Part(r).high \in Nat /\ b.high \in Nat /\ o.high \in Nat /\ y.high \in Nat
        BY <2>2, <2>5, <2>6, <2>10
      <4>2. CASE r \in ps
        BY <2>5, <3>1, <4>1, <4>2
      <4>3. CASE r = p
        BY <2>1, <2>5, <4>1, <4>3
      <4>4. QED
        BY <2>6, <4>2, <4>3
    <3>3. y.high = Part(q).high \/ y.high = Part(p).high
      BY <2>1, <2>5, <3>1
    <3>4. QED
      BY <2>7, <3>1, <3>2, <3>3
  <2>12. \E q \in more : y.low = Part(q).low /\ \A r \in more : y.low <= Part(r).low
    <3>1. PICK q \in ps : b.low = Part(q).low /\ \A r \in ps : b.low <= Part(r).low
      BY <2>3 DEF IsAggregate
    <3>2. \A r \in more : y.low <= Part(r).low
      <4> SUFFICES ASSUME NEW r \in more PROVE y.low <= Part(r).low
        OBVIOUS
      <4>1. Part(r).low \in Nat /\ b.low \in Nat /\ o.low \in Nat /\ y.low \in Nat
        BY <2>2, <2>5, <2>6, <2>10
      <4>2. CASE r \in ps
        BY <2>5, <3>1, <4>1, <4>2
      <4>3. CASE r = p
        BY <2>1, <2>5, <4>1, <4>3
      <4>4. QED
        BY <2>6, <4>2, <4>3
    <3>3. y.low = Part(q).low \/ y.low = Part(p).low
      BY <2>1, <2>5, <3>1
    <3>4. QED
      BY <2>7, <3>1, <3>2, <3>3
  <2>13. IsAggregate(y, more)
    BY <2>8, <2>9, <2>11, <2>12 DEF IsAggregate
  <2>14. QED
    BY <2>1, <2>3, <2>4, <2>5, <2>13 DEF Shows
<1>6. QED
  BY <1>3, <1>4, <1>5

LEMMA PartsFacts ==
    ASSUME NEW ns, NEW a
    PROVE  \A p : p \in Parts(ns, a) <=>
                    \E n \in ns : \E j \in DOMAIN events[n].items :
                        events[n].items[j].asset = a /\ p = <<n, j>>
<1> DEFINE In(n) == {<<n, j>> : j \in {i \in DOMAIN events[n].items : events[n].items[i].asset = a}}
<1>1. ASSUME NEW n, NEW p
      PROVE  p \in In(n) <=> \E j \in DOMAIN events[n].items :
                                events[n].items[j].asset = a /\ p = <<n, j>>
  OBVIOUS
<1>2. Parts(ns, a) = UNION {In(n) : n \in ns}
  BY DEF Parts
<1> HIDE DEF In
<1>3. \A p : p \in Parts(ns, a) <=> \E n \in ns : p \in In(n)
  BY <1>2
<1>4. QED
  BY <1>1, <1>3

LEMMA SegmentFacts ==
    ASSUME GivenInv, NEW from \in Nat, NEW to \in Nat
    PROVE  \A n : n \in Segment(from, to) <=>
                    /\ n \in Positions /\ InTimeframe(Time(n)) /\ n \in Nat
                    /\ from < n /\ n <= to
BY GivenFacts DEF Segment, Visible, Positions

(* The total of the first numbers of a list.                               *)
FirstOf(g, k) == [i \in 1..k |-> g[i]]

LEMMA TotalOfFirst ==
    ASSUME NEW m \in Nat, NEW g, \A i \in 1..m : g[i] \in Int
    PROVE  /\ Total(FirstOf(g, 0)) = 0
           /\ \A k \in 0..m : Total(FirstOf(g, k)) \in Int
           /\ \A k \in 1..m : Total(FirstOf(g, k)) = Total(FirstOf(g, k - 1)) + g[k]
<1>1. FirstOf(g, 0) = <<>>
  BY DEF FirstOf
<1>2. Total(FirstOf(g, 0)) = 0
  BY <1>1, TotalOfNone
<1>3. \A k \in 0..m : FirstOf(g, k) \in Seq(Int)
  BY DEF FirstOf
<1>4. \A k \in 0..m : Total(FirstOf(g, k)) \in Int
  <2> SUFFICES ASSUME NEW k \in 0..m PROVE Total(FirstOf(g, k)) \in Int
    OBVIOUS
  <2>1. FirstOf(g, k) \in Seq(Int) /\ 0 \in Int
    BY <1>3
  <2>2. QED
    BY <2>1, TotalOfAppend
<1>5. ASSUME NEW k \in 1..m PROVE Total(FirstOf(g, k)) = Total(FirstOf(g, k - 1)) + g[k]
  <2>1. k - 1 \in 0..m /\ g[k] \in Int
    OBVIOUS
  <2>2. PICK s : s = FirstOf(g, k - 1)
    OBVIOUS
  <2>3. s \in Seq(Int) /\ Len(s) = k - 1 /\ \A i \in 1..k - 1 : s[i] = g[i]
    BY <1>3, <2>1, <2>2 DEF FirstOf
  <2>4. PICK t : t = FirstOf(g, k)
    OBVIOUS
  <2>5. t \in Seq(Int) /\ Len(t) = k /\ \A i \in 1..k : t[i] = g[i]
    BY <1>3, <2>1, <2>4 DEF FirstOf
  <2>6. t = Append(s, g[k])
    <3>1. PICK e, n : e = g[k] /\ e \in Int /\ n = k - 1 /\ n \in Nat /\ k = n + 1
      BY <2>1
    <3>2. /\ s \in Seq(Int) /\ Len(s) = n /\ \A i \in 1..n : s[i] = g[i]
          /\ t \in Seq(Int) /\ Len(t) = n + 1 /\ \A i \in 1..n + 1 : t[i] = g[i]
      BY <2>3, <2>5, <3>1
    <3>3. ASSUME NEW i \in 1..n PROVE t[i] = s[i]
      <4>1. i \in 1..n + 1
        BY <3>1
      <4>2. QED
        BY <3>2, <4>1
    <3>4. t[n + 1] = e
      <4>1. n + 1 \in 1..n + 1
        BY <3>1
      <4>2. QED
        BY <3>1, <3>2, <4>1
    <3>5. t = Append(s, e)
      BY <3>1, <3>2, <3>3, <3>4, SMTT(20)
    <3>6. QED
      BY <3>1, <3>5
  <2>7. QED
    BY <2>1, <2>2, <2>3, <2>4, <2>6, TotalOfAppend
<1>6. QED
  BY <1>2, <1>4, <1>5

(* The volumes of the items of an event.                                   *)
Volumes(its, a) == [j \in DOMAIN its |-> ItemVolume(its[j], a)]

LEMMA VolumesFacts ==
    ASSUME NEW its \in Seq(Items), NEW a, NEW g, g = Volumes(its, a), NEW m, m = Len(its)
    PROVE  \A j \in 1..m : g[j] \in Int /\ g[j] = ItemVolume(its[j], a)
<1>1. \A j \in 1..m : g[j] = ItemVolume(its[j], a)
  BY ItemFacts DEF Volumes
<1>2. \A i \in Items : i.bar.volume \in Nat
  BY DEF Items, Bars
<1>3. \A i \in Items : ItemVolume(i, a) \in Int
  BY <1>2 DEF ItemVolume
<1>4. QED
  BY <1>1, <1>3, ItemFacts

LEMMA VolumeInFacts ==
    ASSUME GivenInv, NEW n \in Positions, NEW a, NEW its, its = events[n].items
    PROVE  VolumeIn(n, a) = Total(FirstOf(Volumes(its, a), Len(its))) /\ VolumeIn(n, a) \in Int
<1>1. its \in Seq(Items)
  BY GivenFacts
<1>2. PICK g, m : g = Volumes(its, a) /\ m = Len(its)
  OBVIOUS
<1>3. m \in Nat /\ DOMAIN its = 1..m
  BY <1>1, <1>2, ItemFacts
<1>4. \A j \in 1..m : g[j] \in Int /\ g[j] = ItemVolume(its[j], a)
  BY <1>1, <1>2, VolumesFacts
<1>5. [j \in DOMAIN events[n].items |-> ItemVolume(events[n].items[j], a)] = FirstOf(g, m)
  BY <1>3, <1>4 DEF FirstOf
<1>6. VolumeIn(n, a) = Total(FirstOf(g, m))
  BY <1>5 DEF VolumeIn
<1>7. Total(FirstOf(g, m)) \in Int
  <2>1. m \in Nat /\ m \in 0..m /\ \A j \in 1..m : g[j] \in Int
    BY <1>3, <1>4
  <2>2. \A k \in 0..m : Total(FirstOf(g, k)) \in Int
    BY <2>1, TotalOfFirst
  <2>3. QED
    BY <2>1, <2>2
<1>8. QED
  BY <1>2, <1>6, <1>7

LEMMA VolumeUpToFacts ==
    ASSUME GivenInv, NEW a
    PROVE  /\ \A n \in 0..Len(events) : VolumeUpTo(n, a) \in Int
           /\ \A n \in Positions : VolumeUpTo(n, a) =
                VolumeUpTo(n - 1, a) + (IF n \in Visible THEN VolumeIn(n, a) ELSE 0)
<1>1. PICK m : m = Len(events) /\ m \in Nat /\ Positions = 1..m
  BY GivenFacts
<1>2. PICK g : g = [n \in 1..m |-> IF n \in Visible THEN VolumeIn(n, a) ELSE 0]
  OBVIOUS
<1>3. \A n \in 1..m : g[n] \in Int /\ g[n] = IF n \in Visible THEN VolumeIn(n, a) ELSE 0
  <2>1. \A n \in 1..m : VolumeIn(n, a) \in Int
    BY <1>1, VolumeInFacts
  <2>2. QED
    BY <1>2, <2>1
<1>4. ASSUME NEW k \in 0..m PROVE VolumeUpTo(k, a) = Total(FirstOf(g, k))
  <2>1. [n \in 1..k |-> IF n \in Visible THEN VolumeIn(n, a) ELSE 0] = [n \in 1..k |-> g[n]]
    BY <1>1, <1>3
  <2>2. QED
    BY <2>1 DEF VolumeUpTo, FirstOf
<1>5. /\ \A k \in 0..m : Total(FirstOf(g, k)) \in Int
      /\ \A k \in 1..m : Total(FirstOf(g, k)) = Total(FirstOf(g, k - 1)) + g[k]
  BY <1>1, <1>3, TotalOfFirst
<1>6. \A k \in 1..m : k \in 0..m /\ k - 1 \in 0..m
  BY <1>1
<1>7. QED
  BY <1>1, <1>3, <1>4, <1>5, <1>6

(* Events the channel drops have no volume to add.                         *)
LEMMA VolumeOfGap ==
    ASSUME GivenInv, NEW a, NEW from \in Nat, NEW to \in 0..Len(events), from <= to,
           \A n \in Visible : ~(from < n /\ n <= to)
    PROVE  VolumeUpTo(to, a) = VolumeUpTo(from, a)
<1> DEFINE S == {n \in Nat : from <= n /\ n <= to => VolumeUpTo(n, a) = VolumeUpTo(from, a)}
<1>0. Len(events) \in Nat /\ Positions = 1..Len(events) /\ to \in Nat
  BY GivenFacts
<1>1. 0 \in S
  OBVIOUS
<1>2. ASSUME NEW n \in Nat, n \in S PROVE n + 1 \in S
  <2> SUFFICES ASSUME from <= n + 1, n + 1 <= to
               PROVE  VolumeUpTo(n + 1, a) = VolumeUpTo(from, a)
    OBVIOUS
  <2>1. CASE from = n + 1
    BY <2>1
  <2>2. CASE from # n + 1
    <3>1. from <= n /\ n <= to /\ n \in 0..Len(events)
      BY <1>0, <2>2
    <3>2. PICK k : k = n + 1 /\ k \in Positions /\ k - 1 = n /\ k \notin Visible
      BY <1>0, <2>2
    <3>3. VolumeUpTo(k, a) = VolumeUpTo(n, a) + 0 /\ VolumeUpTo(n, a) \in Int
      BY <3>1, <3>2, VolumeUpToFacts
    <3>4. VolumeUpTo(n, a) = VolumeUpTo(from, a)
      BY <1>2, <3>1
    <3>5. QED
      BY <3>2, <3>3, <3>4
  <2>3. QED
    BY <2>1, <2>2
<1> HIDE DEF S
<1>3. Nat \subseteq S
  BY <1>1, <1>2, Induct
<1>4. to \in S
  BY <1>0, <1>3
<1>5. QED
  BY <1>0, <1>4 DEF S

(* The loop over the items of an event adds the event to the window.       *)
LEMMA AddItemsShow ==
    ASSUME GivenInv, NEW bars \in Histories, NEW from \in Nat,
           NEW to \in 0..Len(events), from <= to,
           Window(bars, from, to), NEW n \in Visible, to < n,
           \A k \in Visible : ~(to < k /\ k < n)
    PROVE  Window(AddItems(bars, n), from, n)
<1> SUFFICES ASSUME NEW a \in Assets
             PROVE  Shows(AddItems(bars, n), a, Parts(Segment(from, n), a),
                          VolumeUpTo(n, a) - VolumeUpTo(from, a))
  BY DEF Window
<1>1. /\ n \in Positions /\ n \in Nat /\ to \in Nat /\ InTimeframe(Time(n))
      /\ Len(events) \in Nat /\ Positions = 1..Len(events)
  BY GivenFacts DEF Visible, Positions
<1>2. PICK its, m : its = events[n].items /\ m = Len(its)
  OBVIOUS
<1>3. its \in Seq(Items) /\ m \in Nat /\ DOMAIN its = 1..m
  BY <1>1, <1>2, GivenFacts, ItemFacts
<1>4. \A j \in 1..m : its[j] \in Items
  BY <1>3, ItemFacts
<1>5. PICK f : /\ f[0] = bars /\ \A j \in 1..m : f[j] = AddItem(f[j - 1], its[j])
               /\ AddItems(bars, n) = f[m]
  <2>1. its = events[n].items /\ m \in Nat /\ m = Len(its)
    BY <1>2, <1>3
  <2>2. \E f : Loop(f, m, bars, its) /\ AddItems(bars, n) = f[m]
    BY <2>1, AddItemsFacts
  <2>3. QED
    BY <2>2 DEF Loop
<1>6. PICK g : g = Volumes(its, a)
  OBVIOUS
<1>7. \A j \in 1..m : g[j] \in Int /\ g[j] = ItemVolume(its[j], a)
  <2>1. its \in Seq(Items) /\ g = Volumes(its, a) /\ m = Len(its)
    BY <1>2, <1>3, <1>6
  <2>2. QED
    BY <2>1, VolumesFacts, SMTT(20)
<1>8. /\ Total(FirstOf(g, 0)) = 0
      /\ \A k \in 0..m : Total(FirstOf(g, k)) \in Int
      /\ \A k \in 1..m : Total(FirstOf(g, k)) = Total(FirstOf(g, k - 1)) + g[k]
  BY <1>3, <1>7, TotalOfFirst
<1>9. PICK ps, v : /\ ps = Parts(Segment(from, to), a)
                   /\ v = VolumeUpTo(to, a) - VolumeUpTo(from, a)
  OBVIOUS
<1>10. Shows(bars, a, ps, v)
  BY <1>9 DEF Window
<1>11. v \in Int /\ VolumeUpTo(to, a) \in Int /\ VolumeUpTo(from, a) \in Int
  <2>1. from \in 0..Len(events)
    BY <1>1
  <2>2. VolumeUpTo(to, a) \in Int /\ VolumeUpTo(from, a) \in Int
    BY <2>1, VolumeUpToFacts
  <2>3. QED
    BY <1>9, <2>2
<1>12. \A q : q \in ps =>
           \E k \in Segment(from, to) : \E j \in DOMAIN events[k].items : q = <<k, j>>
  BY <1>9, PartsFacts
<1> DEFINE Ps(j) == ps \cup {<<n, i>> : i \in {i \in 1..j : its[i].asset = a}}
           V(j)  == v + Total(FirstOf(g, j))
           S     == {j \in 0..m : f[j] \in Histories /\ Shows(f[j], a, Ps(j), V(j))}
<1>13. Ps(0) = ps /\ V(0) = v
  <2>1. {i \in 1..0 : its[i].asset = a} = {}
    OBVIOUS
  <2>2. QED
    BY <1>8, <1>11, <2>1
<1>14. 0 \in S
  <2>1. 0 \in 0..m /\ f[0] = bars
    BY <1>3, <1>5
  <2>2. f[0] \in Histories /\ Shows(f[0], a, Ps(0), V(0))
    BY <1>10, <1>13, <2>1
  <2> HIDE DEF Ps, V
  <2>3. QED
    BY <2>1, <2>2
<1>15. ASSUME NEW j \in 1..m, NEW q \in Ps(j - 1) PROVE Before(q, <<n, j>>) /\ Part(q) \in Bars
  <2>1. CASE q \in ps
    <3>1. PICK k \in Segment(from, to) : \E i \in DOMAIN events[k].items : q = <<k, i>>
      BY <1>12, <2>1
    <3>2. PICK i \in DOMAIN events[k].items : q = <<k, i>>
      BY <3>1
    <3>3. k \in Positions /\ k \in Nat /\ k < n
      BY <1>1, SegmentFacts
    <3>4. events[k].items \in Seq(Items)
      BY <3>3, GivenFacts
    <3>5. events[k].items[i].bar \in Bars
      BY <3>4, ItemFacts
    <3>6. QED
      BY <3>2, <3>3, <3>5 DEF Before, Part
  <2>2. CASE q \notin ps
    <3>1. PICK i \in 1..j - 1 : q = <<n, i>>
      BY <2>2
    <3>2. i \in 1..m /\ i <= j
      BY <1>3
    <3>3. its[i].bar \in Bars
      BY <1>3, <3>2, ItemFacts
    <3>4. QED
      BY <1>2, <3>1, <3>2, <3>3 DEF Before, Part
  <2>3. QED
    BY <2>1, <2>2
<1>16. ASSUME NEW j \in 1..m
       PROVE  Ps(j) = IF its[j].asset = a THEN Ps(j - 1) \cup {<<n, j>>} ELSE Ps(j - 1)
  <2>1. \A i : i \in 1..j <=> i \in 1..j - 1 \/ i = j
    BY <1>3
  <2>2. QED
    BY <2>1
<1> HIDE DEF Ps
<1>17. ASSUME NEW j \in 1..m, j - 1 \in S PROVE j \in S
  <2>1. f[j - 1] \in Histories /\ Shows(f[j - 1], a, Ps(j - 1), V(j - 1))
    BY <1>17
  <2>2. PICK x, y, p, w, item, more :
          /\ x = f[j - 1] /\ y = f[j] /\ p = <<n, j>> /\ w = V(j - 1) /\ item = its[j]
          /\ more = Ps(j)
    OBVIOUS
  <2>3. j - 1 \in 0..m /\ j \in 0..m
    BY <1>3
  <2>4. w \in Int /\ V(j) = w + ItemVolume(item, a)
    <3>1. /\ Total(FirstOf(g, j - 1)) \in Int /\ g[j] \in Int /\ g[j] = ItemVolume(item, a)
          /\ Total(FirstOf(g, j)) = Total(FirstOf(g, j - 1)) + g[j]
      BY <1>7, <1>8, <2>2, <2>3
    <3>2. QED
      BY <1>11, <2>2, <3>1
  <2>5. item \in Items /\ y = AddItem(x, item)
    BY <1>4, <1>5, <2>2
  <2>6. Part(p) = item.bar /\ Before(p, p)
    BY <1>1, <1>2, <2>2 DEF Part, Before
  <2>7. \A q \in Ps(j - 1) : Before(q, p) /\ Part(q) \in Bars
    BY <1>15, <2>2
  <2>8. more = IF item.asset = a THEN Ps(j - 1) \cup {p} ELSE Ps(j - 1)
    BY <1>16, <2>2
  <2>9. x \in Histories /\ Shows(x, a, Ps(j - 1), w)
    BY <2>1, <2>2
  <2> HIDE DEF V, S
  <2>10. Shows(y, a, more, w + ItemVolume(item, a))
    BY <2>4, <2>5, <2>6, <2>7, <2>8, <2>9, ShowsOneMore
  <2>11. y \in Histories
    BY <2>5, <2>9, AddItemType
  <2>12. QED
    BY <2>2, <2>3, <2>4, <2>10, <2>11 DEF S
<1> HIDE DEF V, S
<1>18. 0..m \subseteq S
  BY <1>3, <1>14, <1>17, Along
<1>19. Shows(AddItems(bars, n), a, Ps(m), V(m))
  <2>1. m \in S
    BY <1>3, <1>18
  <2>2. QED
    BY <1>5, <2>1 DEF S
<1>20. Ps(m) = Parts(Segment(from, n), a)
  <2>1. \A k : k \in Segment(from, n) <=> k \in Segment(from, to) \/ k = n
    <3>1. \A k : k \in Segment(from, n) <=> k \in Visible /\ k \in Nat /\ from < k /\ k <= n
      BY <1>1, GivenFacts DEF Segment, Visible, Positions
    <3>2. \A k : k \in Segment(from, to) <=> k \in Visible /\ k \in Nat /\ from < k /\ k <= to
      BY <1>1, GivenFacts DEF Segment, Visible, Positions
    <3>3. QED
      BY <1>1, <3>1, <3>2
  <2>2. \A p : p \in Parts(Segment(from, n), a) <=>
                p \in ps \/ \E j \in DOMAIN its : its[j].asset = a /\ p = <<n, j>>
    BY <1>2, <1>9, <2>1, PartsFacts
  <2>3. \A p : p \in Ps(m) <=> p \in ps \/ \E j \in DOMAIN its : its[j].asset = a /\ p = <<n, j>>
    BY <1>3 DEF Ps
  <2>4. QED
    BY <2>2, <2>3
<1>21. V(m) = VolumeUpTo(n, a) - VolumeUpTo(from, a)
  <2>1. VolumeUpTo(n, a) = VolumeUpTo(n - 1, a) + VolumeIn(n, a)
    BY <1>1, VolumeUpToFacts
  <2>2. VolumeUpTo(n - 1, a) = VolumeUpTo(to, a)
    <3>1. PICK k : k = n - 1 /\ k \in 0..Len(events) /\ to <= k /\ k < n
      BY <1>1
    <3>2. \A i \in Visible : ~(to < i /\ i <= k)
      <4>1. \A i \in Visible : i \in Nat
        BY <1>1, GivenFacts DEF Visible, Positions
      <4>2. QED
        BY <1>1, <3>1, <4>1
    <3>3. VolumeUpTo(k, a) = VolumeUpTo(to, a)
      BY <1>1, <3>1, <3>2, VolumeOfGap
    <3>4. QED
      BY <3>1, <3>3
  <2>3. VolumeIn(n, a) = Total(FirstOf(g, m)) /\ VolumeIn(n, a) \in Int
    BY <1>1, <1>2, <1>6, VolumeInFacts
  <2>4. V(m) = v + Total(FirstOf(g, m))
    BY DEF V
  <2>5. QED
    BY <1>9, <1>11, <2>1, <2>2, <2>3, <2>4
<1>22. QED
  BY <1>19, <1>20, <1>21

-----------------------------------------------------------------------------
(* What depends on the events of the feed alone stays as it is.            *)
LEMMA SameVolumes ==
    ASSUME events' = events
    PROVE  \A to, a : VolumeUpTo(to, a)' = VolumeUpTo(to, a)
<1> DEFINE Of(e, n, a) == Total([j \in DOMAIN e[n].items |-> ItemVolume(e[n].items[j], a)])
           UpTo(e, to, a) == Total([n \in 1..to |->
                                IF n \in {k \in DOMAIN e : InTimeframe(e[k].time)}
                                THEN Of(e, n, a) ELSE 0])
<1> SUFFICES ASSUME NEW to, NEW a PROVE VolumeUpTo(to, a)' = VolumeUpTo(to, a)
  OBVIOUS
<1>1. VolumeUpTo(to, a) = UpTo(events, to, a)
  BY DEF VolumeUpTo, VolumeIn, Visible, Time
<1>2. VolumeUpTo(to, a)' = UpTo(events', to, a)
  BY DEF VolumeUpTo, VolumeIn, Visible, Time
<1> HIDE DEF UpTo
<1>3. QED
  BY <1>1, <1>2

LEMMA Same ==
    ASSUME UNCHANGED given
    PROVE  /\ events' = events /\ remaining' = remaining
           /\ Positions' = Positions /\ BarEvents' = BarEvents
           /\ Visible' = Visible /\ Priced' = Priced /\ \A n : Time(n)' = Time(n)
           /\ \A bars, from, to : Window(bars, from, to)' <=> Window(bars, from, to)
           /\ \A e, from : InWindow(e, from)' <=> InWindow(e, from)
           /\ \A s : Fits(s)' <=> Fits(s)
           /\ \A n, s : Accounted(n, s)' <=> Accounted(n, s)
<1>1. events' = events /\ remaining' = remaining
  BY DEF given
<1>2. Positions' = Positions /\ BarEvents' = BarEvents
  BY <1>1 DEF Positions, BarEvents
<1>3. \A n : Time(n)' = Time(n)
  BY <1>1 DEF Time
<1>4. Visible' = Visible
  BY <1>1 DEF Visible, Time
<1>5. Priced' = Priced
  BY <1>1, <1>4 DEF Priced
<1>6. \A from, to : Segment(from, to)' = Segment(from, to)
  BY <1>4 DEF Segment
<1>7. \A ns, a : Parts(ns, a)' = Parts(ns, a)
  <2> SUFFICES ASSUME NEW ns, NEW a PROVE Parts(ns, a)' = Parts(ns, a)
    OBVIOUS
  <2> DEFINE Of(e) ==
        UNION {{<<n, j>> : j \in {i \in DOMAIN e[n].items : e[n].items[i].asset = a}} :
                              n \in ns}
  <2>1. Parts(ns, a) = Of(events) /\ Parts(ns, a)' = Of(events')
    BY DEF Parts
  <2> HIDE DEF Of
  <2>2. QED
    BY <1>1, <2>1
<1>8. \A p : Part(p)' = Part(p)
  BY <1>1 DEF Part
<1>9. \A bar, ps : IsAggregate(bar, ps)' <=> IsAggregate(bar, ps)
  BY <1>8 DEF IsAggregate
<1>10. \A to, a : VolumeUpTo(to, a)' = VolumeUpTo(to, a)
  BY <1>1, SameVolumes
<1>11. \A bars, a, ps, v : Shows(bars, a, ps, v)' <=> Shows(bars, a, ps, v)
  BY <1>9 DEF Shows
<1>12. \A bars, from, to : Window(bars, from, to)' <=> Window(bars, from, to)
  BY <1>6, <1>7, <1>10, <1>11 DEF Window
<1>13. \A e, from : InWindow(e, from)' <=> InWindow(e, from)
  BY <1>1, <1>3, <1>6 DEF InWindow
<1>14. \A e, from : HasBars(e, from)' <=> HasBars(e, from)
  BY <1>6, <1>7, <1>9, <1>10 DEF HasBars
<1>15. \A s : Fits(s)' <=> Fits(s)
  BY <1>13, <1>14 DEF Fits
<1>16. \A n, s : Accounted(n, s)' <=> Accounted(n, s)
  BY <1>1, <1>3, <1>4 DEF Accounted
<1>17. QED
  BY <1>1, <1>2, <1>3, <1>4, <1>5, <1>12, <1>13, <1>15, <1>16

(* Once the run is over only what the strategy has got matters.            *)
LEMMA StepInv ==
    ASSUME Inv, StateInv', UNCHANGED <<given, workerVars>>, ~cancelled => RunningInv'
    PROVE  Inv'
<1>1. UNCHANGED given /\ handled' = handled /\ worker' = worker /\ cancelled' = cancelled
  BY DEF workerVars
<1>2. RunningInv'
  <2>1. CASE cancelled
    BY <1>1, <2>1 DEF RunningInv, PathInv, WindowInv, SentInv, LinkInv, OutInv, Playing
  <2>2. QED
    BY <2>1
<1>3. EndInv'
  <2>1. PICK h : h = handled /\ h = handled'
    BY <1>1
  <2>2. Fits(h) /\ (worker = "finished" => \A n \in Priced : Accounted(n, h))
    BY <2>1 DEF Inv, EndInv
  <2>3. Fits(h)' /\ (worker' = "finished" => \A n \in Priced' : Accounted(n, h)')
    BY <1>1, <2>2, Same
  <2>4. QED
    BY <2>1, <2>3 DEF EndInv
<1>4. QED
  BY <1>2, <1>3 DEF Inv

(* Steps that leave play() and what was sent alone.                        *)
LEMMA QuietSent ==
    ASSUME RunningInv, UNCHANGED <<given, playVars, cancelled>>, Sent' = Sent,
           channel'.closed = channel.closed
    PROVE  WindowInv' /\ SentInv' /\ LinkInv' /\ OutInv'
<1>1. /\ play' = play /\ event' = event /\ expiration' = expiration /\ history' = history
      /\ upTo' = upTo /\ feedCancelled' = feedCancelled /\ cancelled' = cancelled
      /\ UNCHANGED given
  BY DEF playVars, window
<1>2. (Playing' <=> Playing) /\ Sent' = Sent
  BY <1>1 DEF Playing
<1>3. WindowInv'
  BY <1>1, <1>2, Same DEF RunningInv, WindowInv, Periodic
<1>4. PICK s, b : s = Sent /\ s = Sent' /\ b = BarEvent /\ b = BarEvent'
  BY <1>1, <1>2 DEF BarEvent
<1>5. SentInv'
  BY <1>1, <1>4, Same DEF RunningInv, SentInv
<1>6. LinkInv'
  <2>1. PICK h, l : h = (IF play = "send" THEN NoHistory ELSE history) /\ l = LastUpTo(s)
    OBVIOUS
  <2>2. Playing =>
          /\ \A k \in DOMAIN s : /\ s[k].time <= expiration /\ s[k].upTo <= upTo
                                 /\ play # "send" => s[k].time < expiration
          /\ ~AfterTimeframe(expiration) => InWindow(b, l) /\ Window(h, l, upTo)
    BY <1>4, <2>1 DEF RunningInv, LinkInv
  <2>3. h = (IF play = "send" THEN NoHistory ELSE history)' /\ l = LastUpTo(s)'
    BY <1>1, <2>1 DEF LastUpTo
  <2>4. AfterTimeframe(expiration)' <=> AfterTimeframe(expiration)
    BY <1>1
  <2>5. ASSUME Playing, ~AfterTimeframe(expiration)
        PROVE  InWindow(b, l)' /\ Window(h, l, upTo)'
    <3>1. InWindow(b, l) /\ Window(h, l, upTo)
      BY <2>2, <2>5
    <3>2. PICK u : u = upTo /\ u = upTo'
      BY <1>1
    <3>3. InWindow(b, l)' /\ Window(h, l, u)'
      BY <1>1, <3>1, <3>2, Same
    <3>4. QED
      BY <3>2, <3>3
  <2>6. QED
    BY <1>1, <1>2, <1>4, <2>2, <2>3, <2>4, <2>5 DEF LinkInv
<1>7. OutInv'
  BY <1>1, <1>2, <1>4, Same DEF RunningInv, OutInv
<1>8. QED
  BY <1>3, <1>5, <1>6, <1>7

(* The steps of the feed below change nothing else.                        *)
LEMMA QuietPlay ==
    ASSUME RunningInv, UNCHANGED <<given, playVars, channel, workerVars>>
    PROVE  WindowInv' /\ SentInv' /\ LinkInv' /\ OutInv'
<1>1. channel' = channel /\ cancelled' = cancelled /\ handled' = handled
  BY DEF workerVars
<1>2. Sent' = Sent
  BY <1>1 DEF Sent
<1>3. QED
  BY <1>1, <1>2, QuietSent

-----------------------------------------------------------------------------
(* The feed below                                                          *)
LEMMA SendEventInv ==
    ASSUME Inv, SendEvent
    PROVE  Inv'
<1>1. /\ feed = "send" /\ next <= Len(events) /\ ~SendFails(c, Time(next))
      /\ c' = Send(c, next, Time(next)) /\ feed' \in {"send", "suspended"} /\ next' = next + 1
      /\ UNCHANGED <<given, playVars, channel, workerVars>>
  BY DEF SendEvent
<1>2. /\ play' = play /\ event' = event /\ expiration' = expiration /\ history' = history
      /\ upTo' = upTo /\ feedCancelled' = feedCancelled /\ channel' = channel
      /\ cancelled' = cancelled /\ worker' = worker /\ handled' = handled /\ UNCHANGED given
  BY <1>1 DEF playVars, window, workerVars
<1>3. GivenInv /\ ControlInv /\ DataInv
  BY DEF Inv, StateInv
<1>4. /\ Len(events) \in Nat /\ Positions = 1..Len(events) /\ next \in Positions /\ next \in Nat
      /\ Time(next) \in Nat
  <2>1. Len(events) \in Nat /\ Positions = 1..Len(events) /\ next \in Positions /\ next \in Nat
    BY <1>1, <1>3, GivenFacts DEF DataInv
  <2>2. QED
    BY <1>3, <2>1, GivenFacts
<1>5. PICK n, q : n = c' /\ q = c.queue
  OBVIOUS
<1>6. /\ n \in Channels(Positions)
      /\ \/ /\ n.queue = Append(q, next) /\ InTimeframe(Time(next))
            /\ n.closed <=> c.closed
         \/ /\ n.queue = q /\ ~InTimeframe(Time(next))
            /\ n.closed <=> (c.closed \/ AfterTimeframe(Time(next)))
  <2>1. PICK S, t, d : S = Positions /\ t = Time(next) /\ d = c
    OBVIOUS
  <2>2. d \in Channels(S) /\ n = Send(d, next, t) /\ next \in S /\ t \in Nat /\ ~SendFails(d, t)
    BY <1>1, <1>3, <1>4, <1>5, <2>1 DEF DataInv
  <2>3. /\ n \in Channels(S)
        /\ \/ /\ n.queue = Append(d.queue, next) /\ InTimeframe(t)
              /\ n.closed <=> d.closed
           \/ /\ n.queue = d.queue /\ ~InTimeframe(t)
              /\ n.closed <=> (d.closed \/ AfterTimeframe(t))
    BY <2>2, SendFacts
  <2>4. QED
    BY <1>5, <2>1, <2>3
<1>7. StateInv'
  <2>1. GivenInv'
    BY <1>2, <1>3, Same DEF GivenInv
  <2>2. ControlInv'
    BY <1>1, <1>2, <1>3 DEF ControlInv
  <2>3. next' \in 1..Len(events)' + 1
    BY <1>1, <1>2, <1>4, Same
  <2>4. DataInv'
    BY <1>2, <1>3, <1>5, <1>6, <2>3, Same DEF DataInv
  <2>5. QED
    BY <2>1, <2>2, <2>4 DEF StateInv
<1>8. PathInv'
  <2> SUFFICES ASSUME Playing' PROVE PathInv'
    BY DEF PathInv
  <2>1. Playing /\ Cursor' = Cursor
    BY <1>2 DEF Playing, Cursor
  <2>2. /\ ~feedCancelled /\ Cursor < next
        /\ \A k \in DOMAIN q : q[k] \in Visible /\ Cursor < q[k] /\ q[k] < next
        /\ \A i, k \in DOMAIN q : i < k => q[i] < q[k]
        /\ \A m \in Visible : Cursor < m /\ m < next => \E k \in DOMAIN q : q[k] = m
        /\ c.closed => \A m \in Visible : m < next
    BY <1>5, <2>1 DEF Inv, RunningInv, PathInv
  <2>3. /\ q \in Seq(Positions) /\ Len(q) \in Nat /\ DOMAIN q = 1..Len(q)
        /\ \A k \in DOMAIN q : q[k] \in Nat
    <3>1. q \in Seq(Positions)
      BY <1>3, <1>5 DEF DataInv, Channels
    <3>2. Len(q) \in Nat /\ DOMAIN q = 1..Len(q) /\ \A k \in DOMAIN q : q[k] \in Positions
      BY <3>1
    <3>3. QED
      BY <1>4, <3>1, <3>2
  <2>4. Cursor \in Nat
    BY <1>3, <1>4 DEF DataInv, Cursor
  <2>5. \A m \in Visible : m \in Positions /\ m \in Nat /\ InTimeframe(Time(m)) /\ Time(m) \in Nat
    BY <1>3, <1>4, GivenFacts DEF Visible
  <2>6. CASE n.queue = Append(q, next) /\ InTimeframe(Time(next)) /\ (n.closed <=> c.closed)
    <3>1. PICK r : r = Append(q, next)
      OBVIOUS
    <3>2. /\ DOMAIN r = 1..Len(q) + 1 /\ \A k \in 1..Len(q) : r[k] = q[k]
          /\ r[Len(q) + 1] = next
      BY <1>4, <2>3, <3>1, AppendFacts
    <3>3. next \in Visible
      BY <1>3, <1>4, <2>6, GivenFacts DEF Visible
    <3>4. ~n.closed
      BY <1>1, <1>3, <2>6 DEF SendFails, DataInv, Channels
    <3>5. ASSUME NEW k \in DOMAIN r PROVE r[k] \in Visible /\ Cursor < r[k] /\ r[k] < next + 1
      <4>1. CASE k \in 1..Len(q)
        <5>1. k \in DOMAIN q /\ r[k] = q[k]
          BY <2>3, <3>2, <4>1
        <5>2. r[k] \in Visible /\ Cursor < r[k] /\ r[k] < next /\ r[k] \in Nat
          BY <2>2, <2>3, <5>1
        <5>3. QED
          BY <1>4, <5>2
      <4>2. CASE k = Len(q) + 1
        BY <1>4, <2>2, <3>2, <3>3, <4>2
      <4>3. QED
        BY <2>3, <3>2, <4>1, <4>2
    <3>6. ASSUME NEW i \in DOMAIN r, NEW k \in DOMAIN r, i < k PROVE r[i] < r[k]
      <4>1. i \in DOMAIN q /\ r[i] = q[i]
        BY <2>3, <3>2, <3>6
      <4>2. CASE k = Len(q) + 1
        BY <2>2, <3>2, <4>1, <4>2
      <4>3. CASE k # Len(q) + 1
        <5>1. k \in DOMAIN q /\ r[k] = q[k]
          BY <2>3, <3>2, <4>3
        <5>2. QED
          BY <2>2, <3>6, <4>1, <5>1
      <4>4. QED
        BY <4>2, <4>3
    <3>7. \A m \in Visible : Cursor < m /\ m < next + 1 => \E k \in DOMAIN r : r[k] = m
      <4> SUFFICES ASSUME NEW m \in Visible, Cursor < m, m < next + 1
                   PROVE  \E k \in DOMAIN r : r[k] = m
        OBVIOUS
      <4>1. CASE m = next
        <5>1. Len(q) + 1 \in DOMAIN r
          BY <2>3, <3>2
        <5>2. QED
          BY <3>2, <4>1, <5>1
      <4>2. CASE m # next
        <5>1. m < next
          BY <1>4, <2>5, <4>2
        <5>2. PICK k \in DOMAIN q : q[k] = m
          BY <2>2, <5>1
        <5>3. k \in DOMAIN r /\ r[k] = m
          BY <2>3, <3>2, <5>2
        <5>4. QED
          BY <5>3
      <4>3. QED
        BY <4>1, <4>2
    <3>8. n.queue = r /\ c' = n /\ next' = next + 1 /\ ~feedCancelled'
      BY <1>1, <1>2, <1>5, <2>2, <2>6, <3>1
    <3>9. Cursor < next + 1
      BY <1>4, <2>2, <2>4
    <3>10. feed' \notin {"closing", "stopped"}
      BY <1>1
    <3>11. QED
      BY <1>2, <2>1, <3>4, <3>5, <3>6, <3>7, <3>8, <3>9, <3>10, Same DEF PathInv
  <2>7. CASE /\ n.queue = q /\ ~InTimeframe(Time(next))
             /\ n.closed <=> (c.closed \/ AfterTimeframe(Time(next)))
    <3>1. next \notin Visible
      BY <1>4, <2>7, <2>5
    <3>2. \A m \in Visible : m < next + 1 => m < next
      BY <1>4, <2>5, <3>1
    <3>3. n.closed => \A m \in Visible : m < next + 1
      <4>1. CASE c.closed
        BY <1>4, <2>2, <2>5, <4>1
      <4>2. CASE AfterTimeframe(Time(next))
        <5> SUFFICES ASSUME NEW m \in Visible, ~(m < next + 1) PROVE FALSE
          OBVIOUS
        <5>1. next <= m
          BY <1>4, <2>5
        <5>2. Time(next) <= Time(m)
          BY <1>3, <1>4, <2>5, <5>1, GivenFacts
        <5>3. AfterTimeframe(Time(m))
          BY <1>4, <2>5, <4>2, <5>2, AfterFacts
        <5>4. QED
          BY <2>5, <5>3, TimeframeFacts
      <4>3. QED
        BY <2>7, <4>1, <4>2
    <3>4. \A k \in DOMAIN q : q[k] < next + 1
      BY <1>4, <2>2, <2>3
    <3>5. n.queue = q /\ c' = n /\ next' = next + 1 /\ ~feedCancelled' /\ Cursor < next + 1
      BY <1>1, <1>2, <1>4, <1>5, <2>2, <2>4, <2>7
    <3>6. feed' \notin {"closing", "stopped"}
      BY <1>1
    <3>7. QED
      BY <1>2, <2>1, <2>2, <3>2, <3>3, <3>4, <3>5, <3>6, Same DEF PathInv
  <2>8. QED
    BY <1>6, <2>6, <2>7
<1>9. RunningInv'
  BY <1>1, <1>8, QuietPlay DEF Inv, RunningInv
<1>10. QED
  BY <1>1, <1>7, <1>9, StepInv

(* The steps that send nothing: if the feed goes on to close its channel   *)
(* there is nothing left for it to send, unless it was cancelled.          *)
LEMMA QuietFeedInv ==
    ASSUME Inv, UNCHANGED <<given, next, playVars, channel, workerVars>>,
           c' \in Channels(Positions),
           feed' \in {"idle", "new", "send", "suspended", "closing", "stopped"},
           Playing => /\ c'.queue = c.queue
                      /\ c'.closed \/ feed' \in {"closing", "stopped"} =>
                         \A n \in Visible : n < next
    PROVE  Inv'
<1>1. /\ play' = play /\ event' = event /\ expiration' = expiration /\ history' = history
      /\ upTo' = upTo /\ feedCancelled' = feedCancelled /\ channel' = channel /\ next' = next
      /\ cancelled' = cancelled /\ worker' = worker /\ handled' = handled /\ UNCHANGED given
  BY DEF playVars, window, workerVars
<1>2. GivenInv /\ ControlInv /\ DataInv
  BY DEF Inv, StateInv
<1>3. StateInv'
  <2>1. GivenInv'
    BY <1>1, <1>2, Same DEF GivenInv
  <2>2. ControlInv'
    BY <1>1, <1>2 DEF ControlInv
  <2>3. DataInv'
    BY <1>1, <1>2, Same DEF DataInv
  <2>4. QED
    BY <2>1, <2>2, <2>3 DEF StateInv
<1>4. PathInv'
  <2> SUFFICES ASSUME Playing' PROVE PathInv'
    BY DEF PathInv
  <2>1. Playing /\ Cursor' = Cursor
    BY <1>1 DEF Playing, Cursor
  <2>2. PICK q : q = c.queue /\ q = c'.queue
    BY <2>1
  <2>3. /\ ~feedCancelled /\ Cursor < next
        /\ \A k \in DOMAIN q : q[k] \in Visible /\ Cursor < q[k] /\ q[k] < next
        /\ \A i, k \in DOMAIN q : i < k => q[i] < q[k]
        /\ \A m \in Visible : Cursor < m /\ m < next => \E k \in DOMAIN q : q[k] = m
    BY <2>1, <2>2 DEF Inv, RunningInv, PathInv
  <2>4. c'.closed \/ feed' \in {"closing", "stopped"} => \A n \in Visible : n < next
    BY <2>1
  <2>5. QED
    BY <1>1, <2>1, <2>2, <2>3, <2>4, Same DEF PathInv
<1>5. RunningInv'
  BY <1>4, QuietPlay DEF Inv, RunningInv
<1>6. QED
  BY <1>1, <1>3, <1>5, StepInv DEF workerVars

LEMMA FeedStepsInv ==
    ASSUME Inv, StartFeed \/ EndFeed \/ ResumeSend \/ CancelSend \/ CloseFeed
    PROVE  Inv'
<1>1. /\ GivenInv /\ ControlInv /\ DataInv /\ c \in Channels(Positions)
      /\ Len(events) \in Nat /\ Positions = 1..Len(events) /\ next \in Nat
  BY GivenFacts DEF Inv, StateInv, DataInv
<1>2. Playing => /\ ~feedCancelled
                 /\ c.closed \/ feed \in {"closing", "stopped"} => \A n \in Visible : n < next
  BY DEF Inv, RunningInv, PathInv
<1>3. CASE StartFeed
  <2>1. /\ feed = "new" /\ feed' = (IF feedCancelled THEN "stopped" ELSE "send") /\ c' = c
        /\ UNCHANGED <<given, next, playVars, channel, workerVars>>
    BY <1>3 DEF StartFeed
  <2>2. QED
    BY <1>1, <1>2, <2>1, QuietFeedInv
<1>4. CASE EndFeed
  <2>1. /\ feed = "send" /\ (next <= Len(events) => SendFails(c, Time(next)))
        /\ feed' = "closing" /\ c' = c
        /\ UNCHANGED <<given, next, playVars, channel, workerVars>>
    BY <1>4 DEF EndFeed
  <2>2. Playing => \A n \in Visible : n < next
    <3>1. CASE c.closed
      BY <1>2, <3>1
    <3>2. CASE next > Len(events)
      <4>1. \A n \in Visible : n \in Positions
        BY <1>1, GivenFacts DEF Visible
      <4>2. QED
        BY <1>1, <3>2, <4>1
    <3>3. QED
      BY <1>1, <2>1, <3>1, <3>2 DEF SendFails
  <2>3. QED
    BY <1>1, <2>1, <2>2, QuietFeedInv
<1>5. CASE ResumeSend
  <2>1. /\ feed = "suspended" /\ feed' = "send" /\ c' = c
        /\ UNCHANGED <<given, next, playVars, channel, workerVars>>
    BY <1>5 DEF ResumeSend
  <2>2. QED
    BY <1>1, <1>2, <2>1, QuietFeedInv
<1>6. CASE CancelSend
  <2>1. /\ feedCancelled /\ feed' = "closing"
        /\ c' = (IF Buffered(c, next - 1) THEN c ELSE Withdraw(c, next - 1))
        /\ UNCHANGED <<given, next, playVars, channel, workerVars>>
    BY <1>6 DEF CancelSend
  <2>2. c' \in Channels(Positions)
    <3>1. PICK n : n = c'
      OBVIOUS
    <3>2. CASE Buffered(c, next - 1)
      BY <1>1, <2>1, <3>2
    <3>3. CASE ~Buffered(c, next - 1)
      <4>1. n = Withdraw(c, next - 1)
        BY <2>1, <3>1, <3>3
      <4>2. n \in Channels(Positions)
        BY <1>1, <3>3, <4>1, WithdrawType
      <4>3. QED
        BY <3>1, <4>2
    <3>4. QED
      BY <3>2, <3>3
  <2>3. QED
    BY <1>2, <2>1, <2>2, QuietFeedInv
<1>7. CASE CloseFeed
  <2>1. /\ feed = "closing" /\ feed' = "stopped" /\ c' = Close(c)
        /\ UNCHANGED <<given, next, playVars, channel, workerVars>>
    BY <1>7 DEF CloseFeed
  <2>2. PICK n : n = c'
    OBVIOUS
  <2>3. n \in Channels(Positions) /\ n.queue = c.queue
    BY <1>1, <2>1, <2>2, CloseFacts
  <2>4. QED
    BY <1>2, <2>1, <2>2, <2>3, QuietFeedInv
<1>8. QED
  BY <1>3, <1>4, <1>5, <1>6, <1>7

-----------------------------------------------------------------------------
(* play()                                                                  *)

(* The event play() takes is the next one that is visible.                 *)
LEMMA ReceiveNext ==
    ASSUME GivenInv, DataInv, PathInv, play = "receive", CanReceive(c), c' = Receive(c),
           UNCHANGED <<given, feedVars, feedCancelled, cancelled>>,
           NEW n, n = NextEvent, Cursor' = n
    PROVE  /\ n \in Positions /\ c' \in Channels(Positions)
           /\ ~cancelled => /\ PathInv' /\ n \in Visible /\ upTo < n
                            /\ \A k \in Visible : ~(upTo < k /\ k < n)
<1>1. feed' = feed /\ next' = next /\ feedCancelled' = feedCancelled /\ cancelled' = cancelled
  BY DEF feedVars
<1>2. PICK q, d : q = c.queue /\ d = c'
  OBVIOUS
<1>3. /\ d \in Channels(Positions) /\ d.closed = c.closed /\ d.queue = Tail(q)
      /\ n \in Positions /\ n = q[1] /\ 1 \in DOMAIN q
      /\ \A k \in DOMAIN d.queue :
            k + 1 \in DOMAIN q /\ d.queue[k] = q[k + 1] /\ k + 1 > 1 /\ k \in Nat
  <2>1. c \in Channels(Positions) /\ d = Receive(c)
    BY <1>2 DEF DataInv
  <2>2. QED
    BY <1>2, <2>1, ReceiveFacts DEF NextEvent
<1>4. SUFFICES ASSUME ~cancelled
               PROVE  /\ PathInv' /\ n \in Visible /\ upTo < n
                      /\ \A k \in Visible : ~(upTo < k /\ k < n)
  BY <1>2, <1>3
<1>5. Playing /\ Cursor = upTo
  BY <1>4 DEF Playing, Cursor
<1>6. /\ ~feedCancelled
      /\ \A k \in DOMAIN q : q[k] \in Visible /\ upTo < q[k] /\ q[k] < next
      /\ \A i, k \in DOMAIN q : i < k => q[i] < q[k]
      /\ \A m \in Visible : upTo < m /\ m < next => \E k \in DOMAIN q : q[k] = m
      /\ c.closed \/ feed \in {"closing", "stopped"} => \A m \in Visible : m < next
  BY <1>2, <1>5 DEF PathInv
<1>7. /\ q \in Seq(Positions) /\ Len(q) \in Nat /\ DOMAIN q = 1..Len(q)
      /\ \A k \in DOMAIN q : q[k] \in Nat
      /\ next \in Nat /\ upTo \in Nat /\ n \in Nat /\ \A m \in Visible : m \in Nat
  <2>1. /\ Positions = 1..Len(events) /\ Len(events) \in Nat /\ \A m \in Visible : m \in Positions
    BY GivenFacts DEF Visible
  <2>2. q \in Seq(Positions)
    BY <1>2 DEF DataInv, Channels
  <2>3. Len(q) \in Nat /\ DOMAIN q = 1..Len(q) /\ \A k \in DOMAIN q : q[k] \in Positions
    BY <2>2
  <2>4. QED
    BY <1>3, <2>1, <2>2, <2>3 DEF DataInv
<1>8. n \in Visible /\ upTo < n /\ n < next
  BY <1>3, <1>6
<1>9. \A k \in DOMAIN q : n <= q[k]
  <2> SUFFICES ASSUME NEW k \in DOMAIN q PROVE n <= q[k]
    OBVIOUS
  <2>1. k = 1 \/ 1 < k
    BY <1>7
  <2>2. k = 1 => n = q[k]
    BY <1>3
  <2>3. 1 < k => n < q[k]
    BY <1>3, <1>6
  <2>4. QED
    BY <1>7, <2>1, <2>2, <2>3
<1>10. ASSUME NEW m \in Visible, upTo < m, m < n PROVE FALSE
  <2>1. m < next
    BY <1>7, <1>8, <1>10
  <2>2. PICK k \in DOMAIN q : q[k] = m
    BY <1>6, <1>10, <2>1
  <2>3. QED
    BY <1>7, <1>9, <1>10, <2>2
<1>11. PICK r : r = d.queue
  OBVIOUS
<1>12. \A k \in DOMAIN r : r[k] \in Visible /\ n < r[k] /\ r[k] < next
  <2> SUFFICES ASSUME NEW k \in DOMAIN r PROVE r[k] \in Visible /\ n < r[k] /\ r[k] < next
    OBVIOUS
  <2>1. k + 1 \in DOMAIN q /\ r[k] = q[k + 1] /\ 1 < k + 1
    BY <1>3, <1>11
  <2>2. QED
    BY <1>3, <1>6, <2>1
<1>13. \A i, k \in DOMAIN r : i < k => r[i] < r[k]
  <2> SUFFICES ASSUME NEW i \in DOMAIN r, NEW k \in DOMAIN r, i < k PROVE r[i] < r[k]
    OBVIOUS
  <2>1. /\ i + 1 \in DOMAIN q /\ r[i] = q[i + 1] /\ k + 1 \in DOMAIN q /\ r[k] = q[k + 1]
        /\ i \in Nat /\ k \in Nat
    BY <1>3, <1>11
  <2>2. i + 1 < k + 1
    BY <2>1
  <2>3. QED
    BY <1>6, <2>1, <2>2
<1>14. ASSUME NEW m \in Visible, n < m, m < next PROVE \E k \in DOMAIN r : r[k] = m
  <2>1. upTo < m
    BY <1>7, <1>8, <1>14
  <2>2. PICK k \in DOMAIN q : q[k] = m
    BY <1>6, <1>14, <2>1
  <2>3. k # 1
    BY <1>3, <1>7, <1>14, <2>2
  <2>4. r = Tail(q) /\ q # <<>>
    BY <1>3, <1>7, <1>11
  <2>5. k - 1 \in DOMAIN r /\ r[k - 1] = q[k]
    BY <1>7, <2>3, <2>4
  <2>6. QED
    BY <2>2, <2>5
<1>15. PathInv'
  <2>1. c' = d /\ d.queue = r /\ Cursor' = n /\ n < next
    BY <1>2, <1>8, <1>11
  <2>2. c'.closed \/ feed' \in {"closing", "stopped"} => \A m \in Visible : m < next
    BY <1>1, <1>2, <1>3, <1>6
  <2>3. QED
    BY <1>1, <1>6, <1>12, <1>13, <1>14, <2>1, <2>2, Same DEF PathInv
<1>16. QED
  BY <1>8, <1>10, <1>15

LEMMA LastFacts ==
    ASSUME GivenInv, NEW s \in Seq(BarEvents), NEW u \in Nat, \A k \in DOMAIN s : s[k].upTo <= u
    PROVE  /\ LastUpTo(s) \in Nat /\ LastUpTo(s) <= u /\ Len(s) \in Nat
           /\ s # <<>> => Len(s) \in DOMAIN s /\ Last(s) = s[Len(s)] /\ LastUpTo(s) = s[Len(s)].upTo
<1>1. Len(s) \in Nat /\ DOMAIN s = 1..Len(s) /\ \A k \in DOMAIN s : s[k] \in BarEvents
  OBVIOUS
<1>2. \A e \in BarEvents : e.upTo \in Nat
  BY GivenFacts DEF BarEvents
<1>3. CASE s = <<>>
  BY <1>1, <1>3 DEF LastUpTo
<1>4. CASE s # <<>>
  <2>1. Len(s) \in DOMAIN s
    BY <1>1, <1>4
  <2>2. Last(s) = s[Len(s)] /\ LastUpTo(s) = s[Len(s)].upTo
    BY <1>4 DEF Last, LastUpTo
  <2>3. QED
    BY <1>1, <1>2, <2>1, <2>2
<1>5. QED
  BY <1>3, <1>4

LEMMA SentFacts ==
    ASSUME DataInv
    PROVE  /\ Sent \in Seq(BarEvents) /\ channel.queue \in Seq(BarEvents)
           /\ \A k \in DOMAIN Sent : Sent[k].time \in Nat
<1>1. handled \in Seq(BarEvents) /\ channel.queue \in Seq(BarEvents)
  BY DEF DataInv, Channels
<1>2. Sent \in Seq(BarEvents)
  BY <1>1, ConcatFacts DEF Sent
<1>3. \A k \in DOMAIN Sent : Sent[k] \in BarEvents
  BY <1>2
<1>4. \A e \in BarEvents : e.time \in Nat
  BY DEF BarEvents
<1>5. QED
  BY <1>1, <1>2, <1>3, <1>4

(* What was sent fits when what was sent before does, and the new bars are *)
(* those of the events after it.                                           *)
LEMMA FitsMore ==
    ASSUME GivenInv, NEW s \in Seq(BarEvents), Fits(s), NEW e \in BarEvents,
           \A k \in DOMAIN s : s[k].time < e.time,
           HasBars(e, LastUpTo(s)), InWindow(e, LastUpTo(s))
    PROVE  Fits(Append(s, e))
<1>1. PICK r : r = Append(s, e)
  OBVIOUS
<1>2. /\ Len(s) \in Nat /\ DOMAIN s = 1..Len(s) /\ DOMAIN r = 1..Len(s) + 1
      /\ \A k \in 1..Len(s) : r[k] = s[k]
      /\ r[Len(s) + 1] = e
  BY <1>1, AppendFacts
<1>3. ASSUME NEW k \in DOMAIN r
      PROVE  /\ k > 1 => r[k - 1].time < r[k].time
             /\ HasBars(r[k], From(r, k)) /\ InWindow(r[k], From(r, k))
  <2>1. CASE k \in DOMAIN s
    <3>1. r[k] = s[k] /\ (k > 1 => k - 1 \in DOMAIN s /\ r[k - 1] = s[k - 1])
      BY <1>2, <2>1
    <3>2. From(r, k) = From(s, k)
      BY <1>2, <2>1, <3>1 DEF From
    <3>3. /\ k > 1 => s[k - 1].time < s[k].time
          /\ HasBars(s[k], From(s, k)) /\ InWindow(s[k], From(s, k))
      BY <2>1 DEF Fits
    <3>4. QED
      BY <3>1, <3>2, <3>3
  <2>2. CASE k \notin DOMAIN s
    <3>1. k = Len(s) + 1 /\ r[k] = e /\ k - 1 = Len(s)
      BY <1>2, <2>2
    <3>2. k > 1 => k - 1 \in DOMAIN s /\ r[k - 1] = s[k - 1]
      BY <1>2, <3>1
    <3>3. From(r, k) = LastUpTo(s)
      <4>1. CASE s = <<>>
        BY <3>1, <4>1 DEF From, LastUpTo
      <4>2. CASE s # <<>>
        <5>1. k > 1 /\ Last(s) = s[Len(s)]
          BY <1>2, <3>1, <4>2 DEF Last
        <5>2. QED
          BY <3>1, <3>2, <4>2, <5>1 DEF From, LastUpTo
      <4>3. QED
        BY <4>1, <4>2
    <3>4. QED
      BY <3>1, <3>2, <3>3
  <2>3. QED
    BY <2>1, <2>2
<1>4. QED
  BY <1>1, <1>3 DEF Fits

LEMMA FitsPrefix ==
    ASSUME NEW S, NEW g \in Seq(S), NEW q \in Seq(S), Fits(g \o q)
    PROVE  Fits(g)
<1>1. PICK s : s = g \o q
  OBVIOUS
<1>2. /\ Len(g) \in Nat /\ DOMAIN g = 1..Len(g) /\ Len(q) \in Nat /\ DOMAIN s = 1..Len(g) + Len(q)
      /\ \A k \in 1..Len(g) : s[k] = g[k]
  BY <1>1, ConcatFacts
<1>3. ASSUME NEW k \in DOMAIN g
      PROVE  /\ k > 1 => g[k - 1].time < g[k].time
             /\ HasBars(g[k], From(g, k)) /\ InWindow(g[k], From(g, k))
  <2>1. k \in DOMAIN s /\ s[k] = g[k] /\ (k > 1 => s[k - 1] = g[k - 1])
    BY <1>2
  <2>2. From(s, k) = From(g, k)
    BY <1>2, <2>1 DEF From
  <2>3. /\ k > 1 => s[k - 1].time < s[k].time
        /\ HasBars(s[k], From(s, k)) /\ InWindow(s[k], From(s, k))
    BY <1>1, <2>1 DEF Fits
  <2>4. QED
    BY <2>1, <2>2, <2>3
<1>4. QED
  BY <1>3 DEF Fits

(* Between an event and itself nothing is to be shown.                     *)
LEMMA EmptyWindow ==
    ASSUME GivenInv, NEW u \in 0..Len(events)
    PROVE  /\ Window(NoHistory, u, u)
           /\ \A e : e.upTo = u => InWindow(e, u)
<1>1. u \in Nat /\ Len(events) \in Nat
  BY GivenFacts
<1>2. Segment(u, u) = {}
  BY <1>1, SegmentFacts
<1>3. \A e : e.upTo = u => InWindow(e, u)
  BY <1>2 DEF InWindow
<1>4. ASSUME NEW a \in Assets
      PROVE  Shows(NoHistory, a, Parts(Segment(u, u), a), VolumeUpTo(u, a) - VolumeUpTo(u, a))
  <2>1. Parts(Segment(u, u), a) = {}
    BY <1>2, PartsFacts
  <2>2. VolumeUpTo(u, a) \in Int
    BY VolumeUpToFacts
  <2>3. VolumeUpTo(u, a) - VolumeUpTo(u, a) = 0
    BY <2>2
  <2>4. QED
    BY <2>1, <2>3, NoHistoryFacts DEF Shows
<1>5. QED
  BY <1>3, <1>4 DEF Window

(* A window with no bars has no prices.                                    *)
LEMMA NoPrices ==
    ASSUME GivenInv, NEW from \in Nat, NEW to \in Nat, Window(NoHistory, from, to),
           NEW m \in Priced, from < m, m <= to
    PROVE  FALSE
<1>1. PICK its : its = events[m].items
  OBVIOUS
<1>2. m \in Visible /\ its # <<>> /\ m \in Positions /\ its \in Seq(Items)
  BY <1>1, GivenFacts DEF Priced, Visible
<1>3. 1 \in DOMAIN its /\ its[1].asset \in Assets
  <2>1. 1 \in DOMAIN its
    BY <1>2
  <2>2. QED
    BY <1>2, <2>1, ItemFacts
<1>4. PICK a \in Assets : a = its[1].asset
  BY <1>3
<1>5. m \in Segment(from, to)
  BY <1>2 DEF Segment
<1>6. <<m, 1>> \in Parts(Segment(from, to), a)
  BY <1>1, <1>3, <1>4, <1>5, PartsFacts
<1>7. Shows(NoHistory, a, Parts(Segment(from, to), a), VolumeUpTo(to, a) - VolumeUpTo(from, a))
  BY DEF Window
<1>8. Parts(Segment(from, to), a) = {}
  BY <1>7, NoHistoryFacts DEF Shows
<1>9. QED
  BY <1>6, <1>8

(* Sending the bars of the window, whatever state the channel is in.       *)
LEMMA SendType ==
    ASSUME NEW S, NEW ch \in Channels(S), NEW e \in S, NEW t \in Nat, NEW n, n = Send(ch, e, t)
    PROVE  n \in Channels(S)
<1>1. CASE ~SendFails(ch, t)
  BY <1>1, SendFacts
<1>2. CASE SendFails(ch, t)
  <2>1. InTimeframe(t) /\ ch.closed /\ ~AfterTimeframe(t)
    BY <1>2, TimeframeFacts DEF SendFails
  <2>2. n = ch
    BY <2>1 DEF Send
  <2>3. QED
    BY <2>2
<1>3. QED
  BY <1>1, <1>2

LEMMA BarEventType ==
    ASSUME DataInv
    PROVE  /\ BarEvent \in BarEvents
           /\ BarEvent.time = expiration /\ BarEvent.upTo = upTo /\ BarEvent.bars = history
BY DEF DataInv, BarEvent, BarEvents

LEMMA SendBarsType ==
    ASSUME DataInv, NEW ch \in Channels(BarEvents)
    PROVE  /\ SendBars(ch) \in Channels(BarEvents)
           /\ SendRemaining(ch) \in Channels(BarEvents)
           /\ TakenBack(ch) \in Channels(BarEvents)
<1>1. BarEvent \in BarEvents /\ expiration \in Nat
  BY BarEventType DEF DataInv
<1>2. SendBars(ch) \in Channels(BarEvents)
  <2>1. PICK n : n = Send(ch, BarEvent, expiration)
    OBVIOUS
  <2>2. n \in Channels(BarEvents)
    BY <1>1, <2>1, SendType
  <2>3. QED
    BY <2>1, <2>2 DEF SendBars
<1>3. SendRemaining(ch) \in Channels(BarEvents)
  BY <1>2 DEF SendRemaining
<1>4. TakenBack(ch) \in Channels(BarEvents)
  <2>1. CASE Buffered(ch, BarEvent)
    BY <2>1 DEF TakenBack
  <2>2. CASE ~Buffered(ch, BarEvent)
    <3>1. PICK n : n = Withdraw(ch, BarEvent)
      OBVIOUS
    <3>2. n \in Channels(BarEvents)
      BY <2>2, <3>1, WithdrawType
    <3>3. QED
      BY <2>2, <3>1, <3>2 DEF TakenBack
  <2>3. QED
    BY <2>1, <2>2
<1>5. QED
  BY <1>2, <1>3, <1>4

(* Every price of an event in or after the window is in a bar of that time *)
(* or a later one.                                                         *)
LEMMA LaterWindow ==
    ASSUME GivenInv, NEW e \in Nat, Periodic(e), NEW n \in Positions, e - Period <= Time(n)
    PROVE  /\ WindowEnd(Time(n)) \in Nat /\ e <= WindowEnd(Time(n))
           /\ AfterTimeframe(e) => AfterTimeframe(WindowEnd(Time(n)))
<1>1. Time(n) \in Nat
  BY GivenFacts
<1>2. PICK t, w : t = Time(n) /\ w = WindowEnd(t)
  OBVIOUS
<1>3. w \in Nat /\ e <= w
  BY <1>1, <1>2, WindowEndFacts
<1>4. AfterTimeframe(e) => AfterTimeframe(w)
  BY <1>3, AfterFacts
<1>5. QED
  BY <1>2, <1>3, <1>4

(* The bars of the window are what there is between the bars sent and the  *)
(* window's last event.                                                    *)
LEMMA HistoryShown ==
    ASSUME GivenInv, DataInv, NEW from \in Nat, Window(history, from, upTo)
    PROVE  HasBars(BarEvent, from)
<1>1. BarEvent.bars = history /\ BarEvent.upTo = upTo
  BY BarEventType
<1>2. ASSUME NEW a \in Assets
      PROVE  Shows(history, a, Parts(Segment(from, upTo), a),
                   VolumeUpTo(upTo, a) - VolumeUpTo(from, a))
  BY DEF Window
<1>3. QED
  BY <1>1, <1>2 DEF HasBars, Shows

(* When the bars of a window are sent, what was sent covers the window,    *)
(* unless the window ends after the timeframe: then the channel closes.    *)
Covered(s) ==
    /\ s \in Seq(BarEvents) /\ Fits(s)
    /\ \A k \in DOMAIN s : s[k].time <= expiration /\ s[k].upTo <= upTo
    /\ ~AfterTimeframe(expiration) =>
        InWindow(BarEvent, LastUpTo(s)) /\ Window(NoHistory, LastUpTo(s), upTo)
    /\ \A m \in Priced : m <= upTo => m <= LastUpTo(s) \/ AfterTimeframe(WindowEnd(Time(m)))

LEMMA ConcatAppend ==
    ASSUME NEW S, NEW g \in Seq(S), NEW q \in Seq(S), NEW e \in S
    PROVE  g \o Append(q, e) = Append(g \o q, e)
OBVIOUS

LEMMA SendBarsFacts ==
    ASSUME Inv, ~cancelled, play = "receive", expiration # 0, NEW n, n = SendBars(channel)
    PROVE  /\ n \in Channels(BarEvents) /\ Covered(handled \o n.queue)
           /\ n.closed => AfterTimeframe(expiration)
<1>1. /\ GivenInv /\ DataInv /\ Playing
      /\ BarEvent \in BarEvents /\ BarEvent.time = expiration /\ BarEvent.upTo = upTo
      /\ BarEvent.bars = history
  BY BarEventType DEF Inv, StateInv, Playing
<1>2. /\ expiration \in Nat /\ upTo \in 0..Len(events) /\ upTo \in Nat
      /\ channel \in Channels(BarEvents)
      /\ handled \in Seq(BarEvents) /\ channel.queue \in Seq(BarEvents) /\ Sent \in Seq(BarEvents)
      /\ \A k \in DOMAIN Sent : Sent[k].time \in Nat
  BY <1>1, GivenFacts, SentFacts DEF DataInv
<1>3. PICK g, q, s, b : g = handled /\ q = channel.queue /\ s = Sent /\ b = BarEvent
  OBVIOUS
<1>4. s = g \o q
  BY <1>3 DEF Sent
<1>5. Fits(s)
  BY <1>3 DEF Inv, RunningInv, SentInv
<1>6. /\ \A k \in DOMAIN s : s[k].time < expiration /\ s[k].upTo <= upTo
      /\ ~AfterTimeframe(expiration) =>
          InWindow(b, LastUpTo(s)) /\ Window(history, LastUpTo(s), upTo)
  BY <1>1, <1>3 DEF Inv, RunningInv, LinkInv
<1>7. \A k \in DOMAIN s : s[k].time <= expiration
  BY <1>2, <1>3, <1>6
<1>8. LastUpTo(s) \in Nat /\ LastUpTo(s) <= upTo
  <2>1. \A k \in DOMAIN s : s[k].upTo <= upTo
    BY <1>6
  <2>2. QED
    BY <1>1, <1>2, <1>3, <2>1, LastFacts
<1>9. channel.closed => AfterTimeframe(expiration)
  BY <1>1 DEF Inv, RunningInv, OutInv
<1>10. ~SendFails(channel, expiration)
  BY <1>2, <1>9, TimeframeFacts DEF SendFails
<1>11. Start <= expiration
  <2>1. upTo \in Visible /\ Time(upTo) <= expiration
    BY <1>1 DEF Inv, RunningInv, WindowInv
  <2>2. InTimeframe(Time(upTo)) /\ Time(upTo) \in Nat
    BY <1>1, <2>1, GivenFacts DEF Visible
  <2>3. Start <= Time(upTo)
    BY <2>2, TimeframeFacts
  <2>4. QED
    BY <1>2, <2>1, <2>2, <2>3, PeriodFacts
<1>12. InTimeframe(expiration) <=> ~AfterTimeframe(expiration)
  BY <1>2, <1>11, TimeframeFacts
<1>13. ASSUME AfterTimeframe(expiration), NEW m \in Priced
       PROVE  m <= LastUpTo(s) \/ AfterTimeframe(WindowEnd(Time(m)))
  <2>1. \/ m <= LastUpTo(s) \/ AfterTimeframe(WindowEnd(Time(m)))
        \/ expiration - Period <= Time(m)
    BY <1>1, <1>3 DEF Inv, RunningInv, OutInv
  <2>2. ASSUME expiration - Period <= Time(m) PROVE AfterTimeframe(WindowEnd(Time(m)))
    <3>1. m \in Positions /\ Periodic(expiration)
      BY <1>1, GivenFacts DEF Inv, RunningInv, WindowInv, Priced, Visible
    <3>2. QED
      BY <1>1, <1>2, <1>13, <2>2, <3>1, LaterWindow
  <2>3. QED
    BY <2>1, <2>2
<1>14. \A m \in Priced : m \in Nat
  BY <1>1, GivenFacts DEF Priced, Visible
<1>15. CASE history = NoHistory
  <2>1. n = channel
    BY <1>15 DEF SendBars
  <2>2. handled \o n.queue = s
    BY <1>3, <1>4, <2>1
  <2>3. \A m \in Priced : m <= upTo => m <= LastUpTo(s) \/ AfterTimeframe(WindowEnd(Time(m)))
    <3> SUFFICES ASSUME NEW m \in Priced, m <= upTo, ~(m <= LastUpTo(s)),
                        ~AfterTimeframe(WindowEnd(Time(m)))
                 PROVE  FALSE
      OBVIOUS
    <3>1. ~AfterTimeframe(expiration)
      BY <1>13
    <3>2. Window(NoHistory, LastUpTo(s), upTo)
      BY <1>6, <1>15, <3>1
    <3>3. LastUpTo(s) < m
      BY <1>8, <1>14
    <3>4. QED
      BY <1>1, <1>2, <1>8, <3>2, <3>3, NoPrices
  <2>4. Covered(s)
    BY <1>2, <1>3, <1>5, <1>6, <1>7, <1>15, <2>3 DEF Covered
  <2>5. QED
    BY <1>2, <1>9, <2>1, <2>2, <2>4
<1>16. CASE history # NoHistory /\ ~AfterTimeframe(expiration)
  <2>1. n = Send(channel, b, expiration)
    BY <1>3, <1>16 DEF SendBars
  <2>2. n \in Channels(BarEvents) /\ n.queue = Append(q, b) /\ (n.closed <=> channel.closed)
    BY <1>1, <1>2, <1>3, <1>10, <1>12, <1>16, <2>1, SendFacts
  <2>3. PICK r : r = Append(s, b)
    OBVIOUS
  <2>4. handled \o n.queue = r
    <3>1. g \in Seq(BarEvents) /\ q \in Seq(BarEvents) /\ b \in BarEvents
      BY <1>1, <1>2, <1>3
    <3>2. g \o Append(q, b) = Append(g \o q, b)
      BY <3>1, ConcatAppend
    <3>3. QED
      BY <1>3, <1>4, <2>2, <2>3, <3>2
  <2>5. Fits(r)
    <3>1. HasBars(b, LastUpTo(s))
      BY <1>1, <1>3, <1>6, <1>8, <1>16, HistoryShown
    <3>2. \A k \in DOMAIN s : s[k].time < b.time
      BY <1>1, <1>3, <1>6
    <3>3. QED
      BY <1>1, <1>2, <1>3, <1>5, <1>6, <1>16, <2>3, <3>1, <3>2, FitsMore
  <2>6. /\ r \in Seq(BarEvents) /\ Len(s) \in Nat /\ DOMAIN s = 1..Len(s)
        /\ DOMAIN r = 1..Len(s) + 1 /\ r[Len(s) + 1] = b
        /\ \A k \in 1..Len(s) : r[k] = s[k]
    BY <1>1, <1>2, <1>3, <2>3, AppendFacts
  <2>7. LastUpTo(r) = upTo
    <3>1. r # <<>> /\ Len(r) = Len(s) + 1
      <4>1. Len(r) = Len(s) + 1
        BY <2>6
      <4>2. QED
        BY <2>6, <4>1
    <3>2. QED
      BY <1>1, <1>3, <2>6, <3>1 DEF LastUpTo, Last
  <2>8. ASSUME NEW k \in DOMAIN r PROVE r[k].time <= expiration /\ r[k].upTo <= upTo
    <3>1. CASE k \in DOMAIN s
      BY <1>6, <1>7, <2>6, <3>1
    <3>2. CASE k = Len(s) + 1
      BY <1>1, <1>2, <1>3, <2>6, <3>2
    <3>3. QED
      BY <2>6, <3>1, <3>2
  <2>9. Window(NoHistory, LastUpTo(r), upTo) /\ InWindow(BarEvent, LastUpTo(r))
    BY <1>1, <1>2, <2>7, EmptyWindow
  <2>10. Covered(r)
    BY <2>5, <2>6, <2>7, <2>8, <2>9 DEF Covered
  <2>11. QED
    BY <1>9, <2>2, <2>4, <2>10
<1>17. CASE history # NoHistory /\ AfterTimeframe(expiration)
  <2>1. n = Send(channel, b, expiration)
    BY <1>3, <1>17 DEF SendBars
  <2>2. n \in Channels(BarEvents) /\ n.queue = q
    BY <1>1, <1>2, <1>3, <1>10, <1>12, <1>17, <2>1, SendFacts
  <2>3. handled \o n.queue = s
    BY <1>3, <1>4, <2>2
  <2>4. Covered(s)
    BY <1>2, <1>3, <1>5, <1>6, <1>7, <1>13, <1>17 DEF Covered
  <2>5. QED
    BY <1>17, <2>2, <2>3, <2>4
<1>18. QED
  BY <1>15, <1>16, <1>17

(* A step of play() that leaves the events and the worker alone.           *)
LEMMA PlayState ==
    ASSUME StateInv, UNCHANGED <<given, feedVars, workerVars>>,
           play' \in {"new", "receive", "send", "final", "closing", "stopped"},
           feedCancelled' \in BOOLEAN, event' # 0 <=> play' = "send",
           c' \in Channels(Positions), event' \in 0..Len(events), upTo' \in 0..Len(events),
           expiration' \in Nat, history' \in Histories, channel' \in Channels(BarEvents)
    PROVE  StateInv'
<1>1. /\ feed' = feed /\ next' = next /\ cancelled' = cancelled /\ worker' = worker
      /\ handled' = handled /\ UNCHANGED given
  BY DEF feedVars, workerVars
<1>2. GivenInv /\ ControlInv /\ DataInv
  BY DEF StateInv
<1>3. GivenInv'
  BY <1>1, <1>2, Same DEF GivenInv
<1>4. ControlInv'
  BY <1>1, <1>2 DEF ControlInv
<1>5. DataInv'
  BY <1>1, <1>2, Same DEF DataInv
<1>6. QED
  BY <1>3, <1>4, <1>5 DEF StateInv

(* What is not in the bars that were sent.                                 *)
Ahead(n) ==
    \/ n <= LastUpTo(Sent) \/ AfterTimeframe(WindowEnd(Time(n)))
    \/ play # "send" /\ expiration - Period <= Time(n)
    \/ play = "send" /\ event <= n

LEMMA OutFacts ==
    ASSUME OutInv, Playing
    PROVE  /\ \A n \in Priced : Ahead(n)
           /\ channel.closed => AfterTimeframe(expiration)
<1>1. ~cancelled /\ play # "stopped"
  BY DEF Playing
<1>2. channel.closed => AfterTimeframe(expiration)
  BY <1>1 DEF OutInv
<1>3. ASSUME NEW n \in Priced
      PROVE  Ahead(n)
  <2>1. \/ n <= LastUpTo(Sent) \/ AfterTimeframe(WindowEnd(Time(n)))
        \/ IF play = "send" THEN event <= n ELSE expiration - Period <= Time(n)
    BY <1>1 DEF OutInv
  <2>2. QED
    BY <2>1 DEF Ahead
<1>4. QED
  BY <1>2, <1>3

LEMMA StartPlayInv ==
    ASSUME Inv, StartPlay
    PROVE  Inv'
<1>1. /\ play = "new"
      /\ UNCHANGED <<given, c, next, event, window, feedCancelled, channel, workerVars>>
      /\ cancelled => play' = "stopped" /\ feed' = feed
      /\ ~cancelled => play' = "receive" /\ feed' = "new"
  BY DEF StartPlay
<1>2. /\ c' = c /\ next' = next /\ event' = event /\ expiration' = expiration /\ history' = history
      /\ upTo' = upTo /\ feedCancelled' = feedCancelled /\ channel' = channel
      /\ cancelled' = cancelled /\ worker' = worker /\ handled' = handled /\ UNCHANGED given
  BY <1>1 DEF window, workerVars
<1>3. GivenInv /\ ControlInv /\ DataInv
  BY DEF Inv, StateInv
<1>4. StateInv'
  <2>1. GivenInv'
    BY <1>2, <1>3, Same DEF GivenInv
  <2>2. ControlInv'
    BY <1>1, <1>2, <1>3 DEF ControlInv
  <2>3. DataInv'
    BY <1>2, <1>3, Same DEF DataInv
  <2>4. QED
    BY <2>1, <2>2, <2>3 DEF StateInv
<1>5. ASSUME ~cancelled PROVE RunningInv'
  <2>1. /\ Playing /\ Playing' /\ Cursor' = Cursor /\ Sent' = Sent
        /\ play' = "receive" /\ play # "send" /\ feed' = "new"
    BY <1>1, <1>2, <1>5 DEF Playing, Cursor, Sent
  <2>2. PathInv'
    BY <1>2, <2>1, Same DEF Inv, RunningInv, PathInv
  <2>3. WindowInv'
    BY <1>2, <2>1, Same DEF Inv, RunningInv, WindowInv, Periodic
  <2>4. PICK s, b, l, h, u : /\ s = Sent /\ s = Sent' /\ b = BarEvent /\ b = BarEvent'
                             /\ l = LastUpTo(s) /\ h = history /\ h = history'
                             /\ u = upTo /\ u = upTo'
    BY <1>2, <2>1 DEF BarEvent
  <2>5. SentInv'
    BY <1>2, <2>4, Same DEF Inv, RunningInv, SentInv
  <2>6. LinkInv'
    <3>1. /\ \A k \in DOMAIN s : s[k].time < expiration /\ s[k].time <= expiration /\ s[k].upTo <= u
          /\ ~AfterTimeframe(expiration) => InWindow(b, l) /\ Window(h, l, u)
      BY <2>1, <2>4 DEF Inv, RunningInv, LinkInv
    <3>2. AfterTimeframe(expiration') <=> AfterTimeframe(expiration)
      BY <1>2
    <3>3. ~AfterTimeframe(expiration') => InWindow(b, l)' /\ Window(h, l, u)'
      BY <1>2, <3>1, <3>2, Same
    <3>4. l = LastUpTo(s)'
      BY <2>4 DEF LastUpTo
    <3>5. QED
      BY <1>2, <2>1, <2>4, <3>1, <3>2, <3>3, <3>4 DEF LinkInv
  <2>7. OutInv'
    <3>1. /\ \A n \in Priced : \/ n <= LastUpTo(s) \/ AfterTimeframe(WindowEnd(Time(n)))
                               \/ expiration - Period <= Time(n)
          /\ channel.closed => AfterTimeframe(expiration)
      BY <2>1, <2>4, OutFacts DEF Inv, RunningInv, Ahead
    <3>2. QED
      BY <1>2, <2>1, <2>4, <3>1, Same DEF OutInv
  <2>8. QED
    BY <2>2, <2>3, <2>5, <2>6, <2>7 DEF RunningInv
<1>6. QED
  BY <1>1, <1>4, <1>5, StepInv

(* An event joins the current window, or the first one.                    *)
LEMMA JoinFacts ==
    ASSUME StateInv, WindowInv, Playing, play = "receive", NEW n \in Visible, upTo < n,
           \A k \in Visible : ~(upTo < k /\ k < n),
           expiration = 0 \/ Time(n) < expiration,
           NEW e, e = IF expiration = 0 THEN ExpirationTime(Time(n)) ELSE expiration
    PROVE  /\ e \in Nat /\ Periodic(e) /\ e # 0 /\ e - Period <= Time(n) /\ Time(n) <= e
           /\ expiration <= e
           /\ expiration = 0 => \A m \in Visible : n <= m
<1>1. /\ GivenInv /\ n \in Positions /\ Time(n) \in Nat /\ n \in Nat /\ expiration \in Nat
      /\ upTo \in Nat /\ Positions = 1..Len(events) /\ Len(events) \in Nat
  BY GivenFacts DEF StateInv, DataInv, Visible
<1>2. CASE expiration = 0
  <2>1. e = ExpirationTime(Time(n))
    BY <1>2
  <2>2. e \in Nat /\ Periodic(e) /\ e # 0 /\ e - Period <= Time(n) /\ Time(n) < e
    BY <1>1, <2>1, ExpirationFacts
  <2>3. upTo = 0
    BY <1>2 DEF WindowInv
  <2>4. ASSUME NEW m \in Visible PROVE n <= m
    <3>1. m \in Nat /\ 0 < m
      BY <1>1, GivenFacts DEF Visible
    <3>2. QED
      BY <1>1, <2>3, <3>1
  <2>5. QED
    BY <1>1, <1>2, <2>2, <2>4
<1>3. CASE expiration # 0
  <2>1. e = expiration /\ Time(n) < e
    BY <1>3
  <2>2. upTo \in Visible /\ expiration - Period <= Time(upTo) /\ Periodic(expiration)
    BY <1>3 DEF WindowInv
  <2>3. upTo \in Positions /\ Time(upTo) \in Nat
    BY <1>1, <2>2, GivenFacts DEF Visible
  <2>4. Time(upTo) <= Time(n)
    BY <1>1, <2>3, GivenFacts
  <2>5. QED
    BY <1>1, <1>3, <2>1, <2>2, <2>3, <2>4, PeriodFacts
<1>4. QED
  BY <1>2, <1>3

LEMMA AddToWindowInv ==
    ASSUME Inv, AddToWindow
    PROVE  Inv'
<1>1. PICK n, e : /\ n = NextEvent
                  /\ e = IF expiration = 0 THEN ExpirationTime(Time(n)) ELSE expiration
  OBVIOUS
<1>2. /\ play = "receive" /\ CanReceive(c) /\ (expiration = 0 \/ Time(n) < expiration)
      /\ expiration' = e /\ history' = AddItems(history, n) /\ upTo' = n /\ c' = Receive(c)
      /\ UNCHANGED <<given, feedVars, play, event, feedCancelled, channel, workerVars>>
  BY <1>1 DEF AddToWindow
<1>3. /\ feed' = feed /\ next' = next /\ play' = play /\ event' = event /\ channel' = channel
      /\ feedCancelled' = feedCancelled
      /\ cancelled' = cancelled /\ worker' = worker /\ handled' = handled /\ UNCHANGED given
  BY <1>2 DEF feedVars, workerVars
<1>4. /\ StateInv /\ GivenInv /\ ControlInv /\ DataInv /\ PathInv /\ WindowInv
      /\ Len(events) \in Nat /\ Positions = 1..Len(events)
  BY GivenFacts DEF Inv, StateInv, RunningInv
<1>5. Cursor' = n
  BY <1>2, <1>3 DEF Cursor
<1>6. n \in Positions /\ c' \in Channels(Positions)
  BY <1>1, <1>2, <1>3, <1>4, <1>5, ReceiveNext
<1>7. StateInv'
  <2>1. Time(n) \in Nat
    BY <1>4, <1>6, GivenFacts
  <2>2. e \in Nat
    BY <1>1, <1>4, <2>1, ExpirationFacts DEF DataInv
  <2>3. history' \in Histories
    BY <1>2, <1>4, <1>6, AddItemsType DEF DataInv
  <2>4. /\ upTo' \in 0..Len(events) /\ event' \in 0..Len(events) /\ channel' \in Channels(BarEvents)
        /\ feedCancelled' \in BOOLEAN
        /\ event' # 0 <=> play' = "send"
    BY <1>2, <1>3, <1>4, <1>6 DEF DataInv, ControlInv
  <2>5. QED
    BY <1>2, <1>3, <1>4, <1>6, <2>2, <2>3, <2>4, PlayState
<1>8. ASSUME ~cancelled PROVE RunningInv'
  <2>1. Playing /\ Playing' /\ Sent' = Sent /\ play' = "receive"
    BY <1>2, <1>3, <1>8 DEF Playing, Sent
  <2>2. /\ PathInv' /\ n \in Visible /\ upTo < n
        /\ \A k \in Visible : ~(upTo < k /\ k < n)
    BY <1>1, <1>2, <1>3, <1>4, <1>5, <1>8, ReceiveNext
  <2>3. /\ e \in Nat /\ Periodic(e) /\ e # 0 /\ e - Period <= Time(n) /\ Time(n) <= e
        /\ expiration <= e
        /\ expiration = 0 => \A m \in Visible : n <= m
    BY <1>1, <1>2, <1>4, <2>1, <2>2, JoinFacts
  <2>4. /\ n \in Nat /\ upTo \in 0..Len(events) /\ upTo \in Nat /\ expiration \in Nat
        /\ history \in Histories /\ Sent \in Seq(BarEvents)
        /\ \A k \in DOMAIN Sent : Sent[k].time \in Nat
        /\ \A m \in Visible : m \in Positions /\ m \in Nat /\ Time(m) \in Nat
    BY <1>4, <1>6, SentFacts, GivenFacts DEF DataInv, Visible
  <2>5. PICK s, l, h, b : /\ s = Sent /\ s = Sent' /\ l = LastUpTo(s)
                          /\ h = history' /\ b = BarEvent'
    BY <2>1
  <2>6. /\ \A k \in DOMAIN s : s[k].time < expiration /\ s[k].upTo <= upTo
        /\ ~AfterTimeframe(expiration) => InWindow(BarEvent, l) /\ Window(history, l, upTo)
    BY <1>2, <2>1, <2>5 DEF Inv, RunningInv, LinkInv
  <2>7. l \in Nat /\ l <= upTo
    BY <1>4, <2>4, <2>5, <2>6, LastFacts
  <2>8. WindowInv'
    <3>1. n # 0
      BY <2>2, <2>4
    <3>2. QED
      BY <1>2, <1>3, <2>1, <2>2, <2>3, <3>1, Same DEF WindowInv, Periodic
  <2>9. SentInv'
    <3>1. Fits(s)
      BY <1>8, <2>5 DEF Inv, RunningInv, SentInv
    <3>2. QED
      BY <1>3, <2>5, <3>1, Same DEF SentInv
  <2>10. ASSUME ~AfterTimeframe(e)
         PROVE  InWindow(b, l)' /\ Window(h, l, n)'
    <3>1. ~AfterTimeframe(expiration)
      BY <2>3, <2>4, <2>10, AfterFacts
    <3>2. Window(AddItems(history, n), l, n)
      BY <1>4, <2>2, <2>4, <2>6, <2>7, <3>1, AddItemsShow
    <3>3. Window(h, l, n)
      BY <1>2, <2>5, <3>2
    <3>4. Window(h, l, n)'
      BY <1>3, <3>3, Same
    <3>5. b.time = e /\ b.upTo = n
      BY <1>2, <2>5 DEF BarEvent
    <3>6. ASSUME NEW m \in Segment(l, n), events[m].items # <<>>
          PROVE  e - Period <= Time(m) /\ Time(m) <= e
      <4>1. m \in Visible /\ l < m /\ m <= n
        BY DEF Segment
      <4>2. CASE m = n
        BY <2>3, <4>2
      <4>3. CASE m # n
        <5>0. m \in Nat
          BY <2>4, <4>1
        <5>1. m <= upTo /\ m < n
          BY <2>2, <2>4, <4>1, <4>3, <5>0
        <5>2. expiration # 0 /\ e = expiration
          BY <1>1, <2>3, <2>4, <4>1, <5>1
        <5>3. m \in Segment(l, BarEvent.upTo)
          BY <4>1, <5>1 DEF Segment, BarEvent
        <5>4. BarEvent.time - Period <= Time(m) /\ Time(m) <= BarEvent.time
          BY <2>6, <3>1, <3>6, <5>3 DEF InWindow
        <5>5. QED
          BY <5>2, <5>4 DEF BarEvent
      <4>4. QED
        BY <4>2, <4>3
    <3>7. InWindow(b, l)
      BY <3>5, <3>6 DEF InWindow
    <3>8. InWindow(b, l)'
      BY <1>3, <3>7, Same
    <3>9. QED
      BY <3>4, <3>8
  <2>11. LinkInv'
    <3>1. l = LastUpTo(Sent)'
      BY <2>5 DEF LastUpTo
    <3>2. \A k \in DOMAIN s : s[k].time < e /\ s[k].time <= e /\ s[k].upTo <= n
      <4> SUFFICES ASSUME NEW k \in DOMAIN s
                   PROVE  s[k].time < e /\ s[k].time <= e /\ s[k].upTo <= n
        OBVIOUS
      <4>1. s[k].time \in Nat /\ s[k].upTo \in Nat
        <5>1. s[k] \in BarEvents /\ s[k].time \in Nat
          BY <2>4, <2>5
        <5>2. \A x \in BarEvents : x.upTo \in Nat
          BY <1>4 DEF BarEvents
        <5>3. QED
          BY <5>1, <5>2
      <4>2. QED
        BY <2>2, <2>3, <2>4, <2>6, <4>1
    <3>3. QED
      BY <1>2, <1>3, <2>1, <2>5, <2>10, <3>1, <3>2 DEF LinkInv
  <2>12. OutInv'
    <3>1. ASSUME NEW m \in Priced
          PROVE  m <= l \/ AfterTimeframe(WindowEnd(Time(m))) \/ e - Period <= Time(m)
      <4>1. Ahead(m)
        BY <2>1, OutFacts DEF Inv, RunningInv
      <4>2. m <= l \/ AfterTimeframe(WindowEnd(Time(m))) \/ expiration - Period <= Time(m)
        BY <1>2, <2>5, <4>1 DEF Ahead
      <4>3. m \in Visible
        BY DEF Priced
      <4>4. CASE expiration = 0
        <5>1. n <= m
          BY <2>3, <4>3, <4>4
        <5>2. Time(n) <= Time(m)
          BY <1>4, <2>2, <2>4, <4>3, <5>1, GivenFacts
        <5>3. QED
          BY <2>2, <2>3, <2>4, <4>3, <5>2, PeriodFacts
      <4>5. CASE expiration # 0
        BY <1>1, <4>2, <4>5
      <4>6. QED
        BY <4>4, <4>5
    <3>2. channel.closed => AfterTimeframe(e)
      BY <2>1, <2>3, <2>4, OutFacts, AfterFacts DEF Inv, RunningInv
    <3>3. LastUpTo(Sent)' = l
      BY <2>5 DEF LastUpTo
    <3>4. \A m : WindowEnd(Time(m))' = WindowEnd(Time(m))
      BY <1>3, Same DEF WindowEnd
    <3>5. QED
      BY <1>2, <1>3, <2>1, <3>1, <3>2, <3>3, <3>4, Same DEF OutInv
  <2>13. QED
    BY <2>2, <2>8, <2>9, <2>11, <2>12 DEF RunningInv
<1>9. QED
  BY <1>2, <1>7, <1>8, StepInv

LEMMA CloseWindowInv ==
    ASSUME Inv, CloseWindow
    PROVE  Inv'
<1>1. PICK n, d : n = NextEvent /\ d = SendBars(channel)
  OBVIOUS
<1>2. /\ play = "receive" /\ CanReceive(c) /\ expiration # 0 /\ Time(n) >= expiration
      /\ channel' = d /\ event' = n /\ c' = Receive(c) /\ play' = "send"
      /\ UNCHANGED <<given, feedVars, window, feedCancelled, workerVars>>
  BY <1>1 DEF CloseWindow
<1>3. /\ feed' = feed /\ next' = next /\ expiration' = expiration /\ history' = history
      /\ upTo' = upTo /\ feedCancelled' = feedCancelled
      /\ cancelled' = cancelled /\ worker' = worker /\ handled' = handled /\ UNCHANGED given
  BY <1>2 DEF feedVars, workerVars, window
<1>4. /\ StateInv /\ GivenInv /\ ControlInv /\ DataInv /\ PathInv /\ WindowInv
      /\ Len(events) \in Nat /\ Positions = 1..Len(events)
  BY GivenFacts DEF Inv, StateInv, RunningInv
<1>5. Cursor' = n
  BY <1>2 DEF Cursor
<1>6. n \in Positions /\ c' \in Channels(Positions)
  BY <1>1, <1>2, <1>3, <1>4, <1>5, ReceiveNext
<1>7. StateInv'
  <2>1. d \in Channels(BarEvents)
    BY <1>1, <1>4, SendBarsType DEF DataInv
  <2>2. /\ upTo' \in 0..Len(events) /\ expiration' \in Nat /\ history' \in Histories
        /\ feedCancelled' \in BOOLEAN
    BY <1>3, <1>4 DEF DataInv, ControlInv
  <2>3. /\ event' \in 0..Len(events)
        /\ event' # 0 <=> play' = "send"
    BY <1>2, <1>4, <1>6
  <2>4. QED
    BY <1>2, <1>3, <1>4, <1>6, <2>1, <2>2, <2>3, PlayState
<1>8. ASSUME ~cancelled PROVE RunningInv'
  <2>1. Playing /\ Playing' /\ play' = "send"
    BY <1>2, <1>3, <1>8 DEF Playing
  <2>2. /\ PathInv' /\ n \in Visible /\ upTo < n
        /\ \A k \in Visible : ~(upTo < k /\ k < n)
    BY <1>1, <1>2, <1>3, <1>4, <1>5, <1>8, ReceiveNext
  <2>3. Covered(handled \o d.queue) /\ (d.closed => AfterTimeframe(expiration))
    BY <1>1, <1>2, <1>8, SendBarsFacts
  <2>4. PICK s, l, b, h, u : /\ s = handled \o d.queue /\ s = Sent' /\ l = LastUpTo(s)
                             /\ b = BarEvent /\ b = BarEvent' /\ h = NoHistory
                             /\ u = upTo /\ u = upTo'
    BY <1>2, <1>3 DEF Sent, BarEvent
  <2>5. /\ Fits(s)
        /\ \A k \in DOMAIN s : s[k].time <= expiration /\ s[k].upTo <= upTo
        /\ ~AfterTimeframe(expiration) => InWindow(b, l) /\ Window(h, l, upTo)
        /\ \A m \in Priced : m <= upTo => m <= l \/ AfterTimeframe(WindowEnd(Time(m)))
    BY <2>3, <2>4 DEF Covered
  <2>6. WindowInv'
    <3>1. /\ Periodic(expiration)
          /\ expiration = 0 <=> upTo = 0
          /\ upTo \in Visible /\ expiration - Period <= Time(upTo) /\ Time(upTo) <= expiration
      BY <1>2, <1>4, <2>1 DEF WindowInv
    <3>2. expiration <= Time(n)
      <4>1. Time(n) \in Nat /\ expiration \in Nat
        BY <1>4, <1>6, GivenFacts DEF DataInv
      <4>2. QED
        BY <1>2, <4>1
    <3>3. QED
      BY <1>2, <1>3, <2>2, <3>1, <3>2, Same DEF WindowInv, Periodic
  <2>7. SentInv'
    BY <1>3, <2>4, <2>5, Same DEF SentInv
  <2>8. LinkInv'
    <3>1. ASSUME ~AfterTimeframe(expiration) PROVE InWindow(b, l)' /\ Window(h, l, u)'
      <4>1. InWindow(b, l) /\ Window(h, l, u)
        BY <2>4, <2>5, <3>1
      <4>2. QED
        BY <1>3, <4>1, Same
    <3>2. l = LastUpTo(Sent)' /\ h = NoHistory'
      BY <2>4 DEF LastUpTo, NoHistory
    <3>3. AfterTimeframe(expiration') <=> AfterTimeframe(expiration)
      BY <1>3
    <3>4. QED
      BY <1>3, <2>1, <2>4, <2>5, <3>1, <3>2, <3>3 DEF LinkInv
  <2>9. OutInv'
    <3>1. ASSUME NEW m \in Priced
          PROVE  m <= l \/ AfterTimeframe(WindowEnd(Time(m))) \/ n <= m
      <4>1. m \in Visible /\ m \in Nat /\ n \in Nat /\ upTo \in Nat
        BY <1>4, <1>6, GivenFacts DEF Priced, Visible, DataInv
      <4>2. m <= upTo \/ n <= m
        BY <2>2, <4>1
      <4>3. QED
        BY <2>5, <4>2
    <3>2. LastUpTo(Sent)' = l
      BY <2>4 DEF LastUpTo
    <3>3. \A m : WindowEnd(Time(m))' = WindowEnd(Time(m))
      BY <1>3, Same DEF WindowEnd
    <3>4. channel'.closed => AfterTimeframe(expiration')
      BY <1>2, <1>3, <2>3
    <3>5. QED
      BY <1>2, <1>3, <2>1, <3>1, <3>2, <3>3, <3>4, Same DEF OutInv
  <2>10. QED
    BY <2>2, <2>6, <2>7, <2>8, <2>9 DEF RunningInv
<1>9. QED
  BY <1>2, <1>7, <1>8, StepInv

LEMMA OpenWindowInv ==
    ASSUME Inv, OpenWindow
    PROVE  Inv'
<1>1. PICK n, e : n = event /\ e = NextExpiration(Time(n))
  OBVIOUS
<1>2. /\ play = "send" /\ expiration' = e /\ history' = AddItems(NoHistory, n) /\ upTo' = n
      /\ play' = "receive" /\ event' = 0
      /\ UNCHANGED <<given, c, feedVars, feedCancelled, channel, workerVars>>
  BY <1>1 DEF OpenWindow
<1>3. /\ feed' = feed /\ next' = next /\ c' = c /\ channel' = channel
      /\ feedCancelled' = feedCancelled
      /\ cancelled' = cancelled /\ worker' = worker /\ handled' = handled /\ UNCHANGED given
  BY <1>2 DEF feedVars, workerVars
<1>4. /\ StateInv /\ GivenInv /\ ControlInv /\ DataInv
      /\ Len(events) \in Nat /\ Positions = 1..Len(events)
  BY GivenFacts DEF Inv, StateInv
<1>5. n \in Positions /\ n \in Nat /\ n # 0 /\ Time(n) \in Nat /\ expiration \in Nat
  <2>1. n \in 0..Len(events) /\ n # 0
    BY <1>1, <1>2, <1>4 DEF DataInv, ControlInv
  <2>2. n \in Positions
    BY <1>4, <2>1
  <2>3. QED
    BY <1>4, <2>1, <2>2, GivenFacts DEF DataInv
<1>6. /\ e \in Nat
      /\ Periodic(expiration) => Periodic(e)
      /\ expiration <= Time(n) => e > expiration /\ e - Period <= Time(n) /\ Time(n) <= e
  BY <1>1, <1>5, NextFacts
<1>7. NoHistory \in Histories
  BY NoHistoryFacts
<1>8. StateInv'
  <2>1. history' \in Histories
    BY <1>2, <1>4, <1>5, <1>7, AddItemsType
  <2>2. /\ upTo' \in 0..Len(events) /\ event' \in 0..Len(events) /\ channel' \in Channels(BarEvents)
        /\ feedCancelled' \in BOOLEAN /\ c' \in Channels(Positions)
        /\ event' # 0 <=> play' = "send"
    BY <1>2, <1>3, <1>4, <1>5 DEF DataInv, ControlInv
  <2>3. QED
    BY <1>2, <1>3, <1>4, <1>6, <2>1, <2>2, PlayState
<1>9. ASSUME ~cancelled PROVE RunningInv'
  <2>1. Playing /\ Playing' /\ Sent' = Sent /\ play' = "receive" /\ Cursor' = Cursor
    BY <1>1, <1>2, <1>3, <1>9 DEF Playing, Sent, Cursor
  <2>2. /\ n \in Visible /\ upTo < n /\ expiration <= Time(n) /\ Periodic(expiration)
        /\ \A m \in Visible : ~(upTo < m /\ m < n)
    BY <1>1, <1>2, <2>1 DEF Inv, RunningInv, WindowInv
  <2>3. Periodic(e) /\ e > expiration /\ e - Period <= Time(n) /\ Time(n) <= e
    BY <1>6, <2>2
  <2>4. /\ upTo \in 0..Len(events) /\ upTo \in Nat /\ Sent \in Seq(BarEvents)
        /\ \A k \in DOMAIN Sent : Sent[k].time \in Nat
        /\ \A m \in Visible : m \in Positions /\ m \in Nat /\ Time(m) \in Nat
    BY <1>4, SentFacts, GivenFacts DEF DataInv, Visible
  <2>5. PICK s, l, h, b : /\ s = Sent /\ s = Sent' /\ l = LastUpTo(s)
                          /\ h = history' /\ b = BarEvent'
    BY <2>1
  <2>6. /\ \A k \in DOMAIN s : s[k].time <= expiration /\ s[k].upTo <= upTo
        /\ ~AfterTimeframe(expiration) => Window(NoHistory, l, upTo)
    BY <1>2, <2>1, <2>5 DEF Inv, RunningInv, LinkInv
  <2>7. l \in Nat /\ l <= upTo
    BY <1>4, <2>4, <2>5, <2>6, LastFacts
  <2>8. PathInv'
    BY <1>3, <2>1, Same DEF Inv, RunningInv, PathInv
  <2>9. WindowInv'
    BY <1>2, <1>3, <1>5, <1>6, <2>1, <2>2, <2>3, Same DEF WindowInv, Periodic
  <2>10. SentInv'
    <3>1. Fits(s)
      BY <1>9, <2>5 DEF Inv, RunningInv, SentInv
    <3>2. QED
      BY <1>3, <2>5, <3>1, Same DEF SentInv
  <2>11. ASSUME ~AfterTimeframe(e)
         PROVE  InWindow(b, l)' /\ Window(h, l, n)'
    <3>1. ~AfterTimeframe(expiration)
      BY <1>5, <1>6, <2>3, <2>11, AfterFacts
    <3>2. Window(AddItems(NoHistory, n), l, n)
      BY <1>4, <1>7, <2>2, <2>4, <2>6, <2>7, <3>1, AddItemsShow
    <3>3. Window(h, l, n)
      BY <1>2, <2>5, <3>2
    <3>4. Window(h, l, n)'
      BY <1>3, <3>3, Same
    <3>5. b.time = e /\ b.upTo = n
      BY <1>2, <2>5 DEF BarEvent
    <3>6. ASSUME NEW m \in Segment(l, n), events[m].items # <<>>
          PROVE  e - Period <= Time(m) /\ Time(m) <= e
      <4>1. m \in Visible /\ l < m /\ m <= n /\ m \in Nat
        BY <2>4 DEF Segment
      <4>2. m \in Priced
        BY <3>6, <4>1 DEF Priced
      <4>3. ~(m <= upTo)
        BY <1>4, <2>4, <2>6, <2>7, <3>1, <4>1, <4>2, NoPrices
      <4>4. m = n
        BY <1>5, <2>2, <2>4, <4>1, <4>3
      <4>5. QED
        BY <2>3, <4>4
    <3>7. InWindow(b, l)
      BY <3>5, <3>6 DEF InWindow
    <3>8. InWindow(b, l)'
      BY <1>3, <3>7, Same
    <3>9. QED
      BY <3>4, <3>8
  <2>12. LinkInv'
    <3>1. l = LastUpTo(Sent)'
      BY <2>5 DEF LastUpTo
    <3>2. \A k \in DOMAIN s : s[k].time < e /\ s[k].time <= e /\ s[k].upTo <= n
      <4> SUFFICES ASSUME NEW k \in DOMAIN s
                   PROVE  s[k].time < e /\ s[k].time <= e /\ s[k].upTo <= n
        OBVIOUS
      <4>1. s[k].time \in Nat /\ s[k].upTo \in Nat
        <5>1. s[k] \in BarEvents /\ s[k].time \in Nat
          BY <2>4, <2>5
        <5>2. \A x \in BarEvents : x.upTo \in Nat
          BY <1>4 DEF BarEvents
        <5>3. QED
          BY <5>1, <5>2
      <4>2. QED
        BY <1>5, <1>6, <2>2, <2>3, <2>4, <2>6, <4>1
    <3>3. QED
      BY <1>2, <1>3, <2>1, <2>5, <2>11, <3>1, <3>2 DEF LinkInv
  <2>13. OutInv'
    <3>1. ASSUME NEW m \in Priced
          PROVE  m <= l \/ AfterTimeframe(WindowEnd(Time(m))) \/ e - Period <= Time(m)
      <4>1. Ahead(m)
        BY <2>1, OutFacts DEF Inv, RunningInv
      <4>2. m <= l \/ AfterTimeframe(WindowEnd(Time(m))) \/ n <= m
        BY <1>1, <1>2, <2>5, <4>1 DEF Ahead
      <4>3. m \in Visible /\ m \in Positions /\ Time(m) \in Nat
        BY <2>4 DEF Priced
      <4>4. ASSUME n <= m PROVE e - Period <= Time(m)
        <5>1. Time(n) <= Time(m)
          BY <1>4, <1>5, <4>3, <4>4, GivenFacts
        <5>2. QED
          BY <1>5, <1>6, <2>3, <4>3, <5>1, PeriodFacts
      <4>5. QED
        BY <4>2, <4>4
    <3>2. channel.closed => AfterTimeframe(e)
      BY <1>5, <1>6, <2>1, <2>3, OutFacts, AfterFacts DEF Inv, RunningInv
    <3>3. LastUpTo(Sent)' = l
      BY <2>5 DEF LastUpTo
    <3>4. \A m : WindowEnd(Time(m))' = WindowEnd(Time(m))
      BY <1>3, Same DEF WindowEnd
    <3>5. QED
      BY <1>2, <1>3, <2>1, <3>1, <3>2, <3>3, <3>4, Same DEF OutInv
  <2>14. QED
    BY <2>8, <2>9, <2>10, <2>12, <2>13 DEF RunningInv
<1>10. QED
  BY <1>2, <1>8, <1>9, StepInv

(* Every event the strategy sees is in a window once c is empty and closed.*)
LEMMA EndFacts ==
    ASSUME StateInv, PathInv, Playing, play = "receive", ReceiveFails(c)
    PROVE  \A m \in Visible : m <= upTo
<1>1. /\ c.queue = <<>> /\ c.closed /\ Cursor = upTo
  BY DEF ReceiveFails, Cursor
<1>2. DOMAIN c.queue = {}
  BY <1>1
<1>3. /\ \A m \in Visible : upTo < m /\ m < next => \E k \in DOMAIN c.queue : c.queue[k] = m
      /\ \A m \in Visible : m < next
  BY <1>1 DEF PathInv
<1>4. upTo \in Nat /\ \A m \in Visible : m \in Nat
  BY GivenFacts DEF StateInv, DataInv, Visible
<1>5. QED
  BY <1>2, <1>3, <1>4

LEMMA EndWindowsInv ==
    ASSUME Inv, EndWindows
    PROVE  Inv'
<1>1. PICK d : d = SendRemaining(channel)
  OBVIOUS
<1>2. /\ play = "receive" /\ ReceiveFails(c) /\ channel' = d /\ play' = "final"
      /\ UNCHANGED <<given, c, feedVars, event, window, feedCancelled, workerVars>>
  BY <1>1 DEF EndWindows
<1>3. /\ expiration' = expiration /\ history' = history /\ event' = event /\ c' = c
      /\ upTo' = upTo /\ feedCancelled' = feedCancelled
      /\ cancelled' = cancelled /\ handled' = handled /\ UNCHANGED given
  BY <1>2 DEF workerVars, window
<1>4. /\ StateInv /\ GivenInv /\ ControlInv /\ DataInv /\ PathInv /\ WindowInv
      /\ Len(events) \in Nat /\ Positions = 1..Len(events)
  BY GivenFacts DEF Inv, StateInv, RunningInv
<1>5. StateInv'
  <2>1. d \in Channels(BarEvents)
    BY <1>1, <1>4, SendBarsType DEF DataInv
  <2>2. /\ upTo' \in 0..Len(events) /\ expiration' \in Nat /\ history' \in Histories
        /\ feedCancelled' \in BOOLEAN /\ event' \in 0..Len(events) /\ c' \in Channels(Positions)
        /\ event' # 0 <=> play' = "send"
    BY <1>2, <1>3, <1>4 DEF DataInv, ControlInv
  <2>3. QED
    BY <1>2, <1>4, <2>1, <2>2, PlayState
<1>6. ASSUME ~cancelled PROVE RunningInv'
  <2>1. Playing /\ ~Playing' /\ ~cancelled'
    BY <1>2, <1>3, <1>6 DEF Playing
  <2>2. \A m \in Visible : m <= upTo
    BY <1>2, <1>4, <2>1, EndFacts
  <2>3. PICK s, l : s = handled \o d.queue /\ s = Sent' /\ l = LastUpTo(s)
    BY <1>2, <1>3 DEF Sent
  <2>4. /\ expiration \in Nat /\ upTo \in 0..Len(events)
        /\ \A m \in Visible : m \in Positions /\ m \in Nat /\ m # 0 /\ Time(m) \in Nat
        /\ Priced \subseteq Visible
    BY <1>4, GivenFacts DEF DataInv, Visible, Priced
  <2>5. CASE remaining /\ expiration # 0
    <3>1. d = SendBars(channel)
      BY <1>1, <2>5 DEF SendRemaining
    <3>2. Covered(s) /\ (d.closed => AfterTimeframe(expiration))
      BY <1>2, <1>6, <2>3, <2>5, <3>1, SendBarsFacts
    <3>3. Fits(s) /\ \A m \in Priced : Accounted(m, s)
      BY <2>2, <2>4, <3>2 DEF Covered, Accounted
    <3>4. SentInv'
      BY <1>3, <2>3, <3>3, Same DEF SentInv
    <3>5. \A m \in Priced' : Accounted(m, s)'
      BY <1>3, <3>3, Same
    <3>6. OutInv'
      BY <1>2, <1>3, <2>1, <2>3, <3>2, <3>5 DEF OutInv
    <3>7. QED
      BY <2>1, <3>4, <3>6 DEF RunningInv, PathInv, WindowInv, LinkInv
  <2>6. CASE ~(remaining /\ expiration # 0)
    <3>1. d = channel
      BY <1>1, <2>6 DEF SendRemaining
    <3>2. s = Sent
      BY <2>3, <3>1 DEF Sent
    <3>3. Fits(s)
      BY <1>6, <3>2 DEF Inv, RunningInv, SentInv
    <3>4. ASSUME NEW m \in Priced PROVE Accounted(m, s)
      <4>1. Ahead(m)
        BY <2>1, OutFacts DEF Inv, RunningInv
      <4>2. m <= l \/ AfterTimeframe(WindowEnd(Time(m))) \/ expiration - Period <= Time(m)
        BY <1>2, <2>3, <3>2, <4>1 DEF Ahead
      <4>3. m \in Visible /\ m <= upTo
        BY <2>2, <2>4
      <4>4. expiration # 0
        BY <1>4, <2>1, <2>4, <4>3 DEF WindowInv
      <4>5. CASE m <= l \/ AfterTimeframe(WindowEnd(Time(m)))
        BY <2>3, <4>5 DEF Accounted
      <4>6. CASE expiration - Period <= Time(m)
        <5>1. Periodic(expiration) /\ upTo \in Visible /\ Time(upTo) <= expiration
          BY <2>1, <1>4, <4>4 DEF WindowInv
        <5>2. WindowEnd(Time(m)) \in Nat /\ expiration <= WindowEnd(Time(m))
          BY <1>4, <2>4, <4>3, <4>6, <5>1, LaterWindow
        <5>3. ASSUME NEW k \in Visible PROVE Time(k) <= WindowEnd(Time(m))
          <6>1. Time(k) <= Time(upTo)
            BY <1>4, <2>2, <2>4, <5>1, GivenFacts
          <6>2. Time(k) \in Nat /\ Time(upTo) \in Nat
            BY <2>4, <5>1
          <6>3. QED
            BY <2>4, <5>1, <5>2, <6>1, <6>2
        <5>4. QED
          BY <2>6, <4>4, <5>3 DEF Accounted
      <4>7. QED
        BY <4>2, <4>5, <4>6
    <3>5. channel.closed => AfterTimeframe(expiration)
      BY <2>1, OutFacts DEF Inv, RunningInv
    <3>6. SentInv'
      BY <1>3, <2>3, <3>3, Same DEF SentInv
    <3>7. \A m \in Priced' : Accounted(m, s)'
      BY <1>3, <3>4, Same
    <3>8. OutInv'
      BY <1>2, <1>3, <2>1, <2>3, <3>1, <3>5, <3>7 DEF OutInv
    <3>9. QED
      BY <2>1, <3>6, <3>8 DEF RunningInv, PathInv, WindowInv, LinkInv
  <2>7. QED
    BY <2>5, <2>6
<1>7. QED
  BY <1>2, <1>5, <1>6, StepInv

(* play() is over: what it sent stays where it is.                         *)
LEMMA OverInv ==
    ASSUME Inv, play \in {"final", "closing"}, play' \in {"closing", "stopped"},
           UNCHANGED <<given, c, feedVars, event, window, workerVars>>,
           feedCancelled' \in BOOLEAN, channel' \in Channels(BarEvents),
           ~cancelled => /\ channel'.queue = channel.queue
                         /\ channel'.closed => channel.closed \/ play' = "stopped"
    PROVE  Inv'
<1>1. /\ expiration' = expiration /\ history' = history /\ event' = event /\ c' = c
      /\ upTo' = upTo /\ cancelled' = cancelled /\ handled' = handled /\ UNCHANGED given
  BY DEF workerVars, window
<1>2. StateInv /\ ControlInv /\ DataInv
  BY DEF Inv, StateInv
<1>3. StateInv'
  <2>1. /\ upTo' \in 0..Len(events) /\ expiration' \in Nat /\ history' \in Histories
        /\ event' \in 0..Len(events) /\ c' \in Channels(Positions)
        /\ event' # 0 <=> play' = "send"
    BY <1>1, <1>2 DEF DataInv, ControlInv
  <2>2. QED
    BY <1>2, <2>1, PlayState
<1>4. ASSUME ~cancelled PROVE RunningInv'
  <2>1. ~Playing /\ ~Playing' /\ ~cancelled'
    BY <1>1, <1>4 DEF Playing
  <2>2. PICK s : s = Sent /\ s = Sent'
    BY <1>1, <1>4 DEF Sent
  <2>3. /\ Fits(s) /\ \A m \in Priced : Accounted(m, s)
        /\ channel.closed => AfterTimeframe(expiration)
    BY <1>4, <2>1, <2>2 DEF Inv, RunningInv, SentInv, OutInv
  <2>4. SentInv'
    BY <1>1, <2>2, <2>3, Same DEF SentInv
  <2>5. \A m \in Priced' : Accounted(m, s)'
    BY <1>1, <2>3, Same
  <2>6. OutInv'
    BY <1>1, <1>4, <2>1, <2>2, <2>3, <2>5 DEF OutInv
  <2>7. QED
    BY <2>1, <2>4, <2>6 DEF RunningInv, PathInv, WindowInv, LinkInv
<1>5. QED
  BY <1>3, <1>4, StepInv

(* And one that is cancelled is not listened to.                           *)
LEMMA CancelledInv ==
    ASSUME Inv, cancelled, play' = "closing", event' = 0,
           UNCHANGED <<given, c, feedVars, window, workerVars>>,
           feedCancelled' \in BOOLEAN, channel' \in Channels(BarEvents)
    PROVE  Inv'
<1>1. /\ expiration' = expiration /\ history' = history /\ c' = c
      /\ upTo' = upTo /\ UNCHANGED given
  BY DEF window
<1>2. StateInv /\ DataInv /\ Len(events) \in Nat
  BY GivenFacts DEF Inv, StateInv
<1>3. StateInv'
  <2>1. /\ upTo' \in 0..Len(events) /\ expiration' \in Nat /\ history' \in Histories
        /\ event' \in 0..Len(events) /\ c' \in Channels(Positions)
        /\ event' # 0 <=> play' = "send"
    BY <1>1, <1>2 DEF DataInv
  <2>2. QED
    BY <1>2, <2>1, PlayState
<1>4. QED
  BY <1>3, StepInv

LEMMA PlayEndsInv ==
    ASSUME Inv, EndPlay \/ CancelPlay \/ CancelRest \/ ClosePlay
    PROVE  Inv'
<1>1. channel \in Channels(BarEvents) /\ feedCancelled \in BOOLEAN /\ DataInv /\ ControlInv
  BY DEF Inv, StateInv, DataInv, ControlInv
<1>2. CASE EndPlay
  <2>1. /\ play = "final" /\ play' = "closing" /\ feedCancelled' = TRUE /\ channel' = channel
        /\ UNCHANGED <<given, c, feedVars, event, window, workerVars>>
    BY <1>2 DEF EndPlay
  <2>2. QED
    BY <1>1, <2>1, OverInv
<1>3. CASE ClosePlay
  <2>1. /\ play = "closing" /\ play' = "stopped" /\ feedCancelled' = feedCancelled
        /\ channel' = Close(channel)
        /\ UNCHANGED <<given, c, feedVars, event, window, workerVars>>
    BY <1>3 DEF ClosePlay
  <2>2. PICK n : n = channel'
    OBVIOUS
  <2>3. n \in Channels(BarEvents) /\ n.queue = channel.queue
    BY <1>1, <2>1, <2>2, CloseFacts
  <2>4. QED
    BY <1>1, <2>1, <2>2, <2>3, OverInv
<1>4. CASE CancelPlay
  <2>1. PICK t, r : t = TakenBack(channel) /\ r = SendRemaining(t)
    OBVIOUS
  <2>2. t \in Channels(BarEvents) /\ r \in Channels(BarEvents)
    BY <1>1, <2>1, SendBarsType
  <2>3. /\ cancelled /\ play' = "closing" /\ event' = 0
        /\ channel' = (IF Len(r.queue) <= Capacity THEN r ELSE t)
        /\ feedCancelled' = (Len(r.queue) <= Capacity)
        /\ UNCHANGED <<given, c, feedVars, window, workerVars>>
    BY <1>4, <2>1 DEF CancelPlay
  <2>4. channel' \in Channels(BarEvents) /\ feedCancelled' \in BOOLEAN
    BY <2>2, <2>3
  <2>5. QED
    BY <2>3, <2>4, CancelledInv
<1>5. CASE CancelRest
  <2>1. /\ cancelled /\ play = "final" /\ play' = "closing" /\ event' = event
        /\ channel' = TakenBack(channel) /\ feedCancelled' = feedCancelled
        /\ UNCHANGED <<given, c, feedVars, window, workerVars>>
    BY <1>5 DEF CancelRest
  <2>2. channel' \in Channels(BarEvents)
    BY <1>1, <2>1, SendBarsType
  <2>3. event' = 0
    BY <1>1, <2>1 DEF ControlInv, DataInv
  <2>4. QED
    BY <1>1, <2>1, <2>2, <2>3, CancelledInv
<1>6. QED
  BY <1>2, <1>3, <1>4, <1>5

-----------------------------------------------------------------------------
(* The worker                                                              *)
LEMMA TakeEventInv ==
    ASSUME Inv, TakeEvent
    PROVE  Inv'
<1>1. /\ worker = "running" /\ CanReceive(channel)
      /\ handled' = Append(handled, Head(channel.queue)) /\ channel' = Receive(channel)
      /\ UNCHANGED <<given, c, feedVars, playVars, cancelled, worker>>
  BY DEF TakeEvent
<1>2. /\ feed' = feed /\ next' = next /\ c' = c
      /\ play' = play /\ event' = event /\ expiration' = expiration /\ history' = history
      /\ upTo' = upTo /\ feedCancelled' = feedCancelled
      /\ cancelled' = cancelled /\ worker' = worker /\ UNCHANGED given
  BY <1>1 DEF feedVars, playVars, window
<1>3. GivenInv /\ ControlInv /\ DataInv /\ ~cancelled
  BY <1>1 DEF Inv, StateInv, ControlInv
<1>4. PICK S, q, g, h, n : /\ S = BarEvents /\ q = channel.queue /\ g = handled /\ h = handled'
                           /\ n = channel'
  OBVIOUS
<1>5. /\ channel \in Channels(S) /\ q \in Seq(S) /\ q # <<>> /\ g \in Seq(S)
      /\ h = Append(g, Head(q)) /\ n = Receive(channel)
  BY <1>1, <1>3, <1>4, SentFacts DEF DataInv, CanReceive
<1>6. n \in Channels(S) /\ n.closed = channel.closed /\ n.queue = Tail(q)
  BY <1>1, <1>4, <1>5, ReceiveFacts
<1>7. h \in Seq(S) /\ n.queue \in Seq(S) /\ h \o n.queue = g \o q
  BY <1>5, <1>6, TakeFacts
<1>8. StateInv'
  <2>1. GivenInv'
    BY <1>2, <1>3, Same DEF GivenInv
  <2>2. ControlInv'
    BY <1>2, <1>3 DEF ControlInv
  <2>3. DataInv'
    BY <1>2, <1>3, <1>4, <1>6, <1>7, Same DEF DataInv
  <2>4. QED
    BY <2>1, <2>2, <2>3 DEF StateInv
<1>9. RunningInv'
  <2>1. Sent' = Sent /\ channel'.closed = channel.closed
    BY <1>4, <1>6, <1>7 DEF Sent
  <2>2. PathInv'
    <3>1. (Playing' <=> Playing) /\ Cursor' = Cursor
      BY <1>2 DEF Playing, Cursor
    <3>2. QED
      BY <1>2, <3>1, Same DEF Inv, RunningInv, PathInv
  <2>3. WindowInv' /\ SentInv' /\ LinkInv' /\ OutInv'
    BY <1>1, <2>1, QuietSent DEF Inv
  <2>4. QED
    BY <2>2, <2>3 DEF RunningInv
<1>10. EndInv'
  <2>1. Fits(h \o n.queue)
    BY <1>3, <1>4, <1>7 DEF Inv, RunningInv, SentInv, Sent
  <2>2. Fits(h)
    BY <1>7, <2>1, FitsPrefix
  <2>3. Fits(h)'
    BY <1>2, <2>2, Same
  <2>4. QED
    BY <1>1, <1>2, <1>4, <2>3 DEF EndInv
<1>11. QED
  BY <1>8, <1>9, <1>10 DEF Inv

(* When the run is over.                                                   *)
LEMMA EndRunInv ==
    ASSUME Inv, NEW outcome \in {"finished", "aborted"}, EndRun(outcome),
           outcome = "finished" => \A m \in Priced : Accounted(m, handled)
    PROVE  Inv'
<1>1. /\ worker' = outcome /\ cancelled' = TRUE
      /\ UNCHANGED <<given, c, feedVars, playVars, channel, handled>>
  BY DEF EndRun
<1>2. /\ feed' = feed /\ next' = next /\ c' = c /\ channel' = channel /\ handled' = handled
      /\ play' = play /\ event' = event /\ expiration' = expiration /\ history' = history
      /\ upTo' = upTo /\ feedCancelled' = feedCancelled /\ UNCHANGED given
  BY <1>1 DEF feedVars, playVars, window
<1>3. GivenInv /\ ControlInv /\ DataInv
  BY DEF Inv, StateInv
<1>4. StateInv'
  <2>1. GivenInv'
    BY <1>2, <1>3, Same DEF GivenInv
  <2>2. ControlInv'
    BY <1>1, <1>2, <1>3 DEF ControlInv
  <2>3. DataInv'
    BY <1>2, <1>3, Same DEF DataInv
  <2>4. QED
    BY <2>1, <2>2, <2>3 DEF StateInv
<1>5. RunningInv'
  BY <1>1 DEF RunningInv, PathInv, WindowInv, SentInv, LinkInv, OutInv, Playing
<1>6. EndInv'
  <2>1. PICK h : h = handled /\ h = handled'
    BY <1>2
  <2>2. Fits(h) /\ (outcome = "finished" => \A m \in Priced : Accounted(m, h))
    BY <2>1 DEF Inv, EndInv
  <2>3. Fits(h)' /\ (outcome = "finished" => \A m \in Priced' : Accounted(m, h)')
    BY <1>2, <2>2, Same
  <2>4. QED
    BY <1>1, <2>1, <2>3 DEF EndInv
<1>7. QED
  BY <1>4, <1>5, <1>6 DEF Inv

(* It finishes when the channel is empty and closed: play() is over or the *)
(* window it is at ends after the timeframe.                               *)
LEMMA FinishInv ==
    ASSUME Inv, Finish
    PROVE  Inv'
<1>1. worker = "running" /\ channel.queue = <<>> /\ channel.closed /\ EndRun("finished")
  BY DEF Finish, EndRun, ReceiveFails
<1>2. /\ StateInv /\ GivenInv /\ ControlInv /\ DataInv /\ ~cancelled
      /\ Len(events) \in Nat /\ Positions = 1..Len(events)
  BY <1>1, GivenFacts DEF Inv, StateInv, ControlInv
<1>3. Sent = handled
  <2>1. PICK S, g : S = BarEvents /\ g = handled /\ g \in Seq(S)
    BY <1>2 DEF DataInv
  <2>2. g \o <<>> = g
    BY <2>1
  <2>3. QED
    BY <1>1, <2>1, <2>2 DEF Sent
<1>4. ASSUME NEW m \in Priced PROVE Accounted(m, handled)
  <2>1. CASE ~Playing
    BY <1>2, <1>3, <2>1 DEF Inv, RunningInv, OutInv
  <2>2. CASE Playing
    <3>1. Ahead(m) /\ AfterTimeframe(expiration)
      BY <1>1, <2>2, OutFacts DEF Inv, RunningInv
    <3>2. /\ expiration \in Nat /\ Periodic(expiration) /\ m \in Positions
          /\ Time(m) \in Nat /\ m \in Nat
      BY <1>2, <2>2, GivenFacts DEF DataInv, Inv, RunningInv, WindowInv, Priced, Visible
    <3>3. ASSUME play = "send", event <= m PROVE expiration - Period <= Time(m)
      <4>1. event \in Positions /\ expiration <= Time(event) /\ Time(event) \in Nat
        BY <1>2, <2>2, <3>3, GivenFacts DEF Inv, RunningInv, WindowInv, Visible
      <4>2. Time(event) <= Time(m)
        BY <1>2, <3>2, <3>3, <4>1, GivenFacts
      <4>3. QED
        BY <3>2, <4>1, <4>2, PeriodFacts
    <3>4. \/ m <= LastUpTo(Sent) \/ AfterTimeframe(WindowEnd(Time(m)))
          \/ expiration - Period <= Time(m)
      BY <3>1, <3>3 DEF Ahead
    <3>5. m <= LastUpTo(Sent) \/ AfterTimeframe(WindowEnd(Time(m)))
      BY <1>2, <3>1, <3>2, <3>4, LaterWindow
    <3>6. QED
      BY <1>3, <3>5 DEF Accounted
  <2>3. QED
    BY <2>1, <2>2
<1>5. QED
  BY <1>1, <1>4, EndRunInv

LEMMA AbortInv ==
    ASSUME Inv, Abort
    PROVE  Inv'
BY EndRunInv DEF Abort

-----------------------------------------------------------------------------
LEMMA InitInv ==
    ASSUME Init
    PROVE  Inv
<1>1. /\ events \in Feeds /\ remaining \in BOOLEAN
      /\ c = NewChannel /\ channel = NewChannel /\ feed = "idle" /\ next = 1
      /\ feedCancelled = FALSE /\ play = "new" /\ event = 0
      /\ expiration = 0 /\ history = NoHistory /\ upTo = 0
      /\ cancelled = FALSE /\ worker = "running" /\ handled = <<>>
  BY DEF Init
<1>2. GivenInv
  BY <1>1 DEF GivenInv
<1>3. ControlInv
  BY <1>1 DEF ControlInv
<1>4. /\ NewChannel \in Channels(Positions) /\ NewChannel \in Channels(BarEvents)
      /\ NewChannel.queue = <<>> /\ NewChannel.closed = FALSE
  BY DEF NewChannel, Channels
<1>5. /\ Len(events) \in Nat /\ Positions = 1..Len(events)
      /\ \A n \in Visible : n \in Nat /\ 1 <= n /\ Time(n) \in Nat
  BY <1>2, GivenFacts DEF Visible
<1>6. DataInv
  BY <1>1, <1>4, <1>5, NoHistoryFacts DEF DataInv
<1>7. c.queue = <<>> /\ channel.queue = <<>> /\ channel.closed = FALSE /\ c.closed = FALSE
  BY <1>1, <1>4
<1>8. Cursor = 0 /\ play # "send" /\ play = "new"
  BY <1>1 DEF Cursor
<1>9. PathInv
  <2>1. \A k : k \notin DOMAIN c.queue
    BY <1>7
  <2>2. QED
    BY <1>1, <1>5, <1>7, <1>8, <2>1 DEF PathInv
<1>10. WindowInv
  <2>1. Periodic(0)
    BY PeriodFacts DEF Periodic
  <2>2. QED
    BY <1>1, <2>1 DEF WindowInv
<1>11. Sent = <<>>
  <2>1. PICK s : s = <<>> \o <<>>
    OBVIOUS
  <2>2. s = <<>>
    BY <2>1
  <2>3. QED
    BY <1>1, <1>7, <2>1, <2>2 DEF Sent
<1>12. PICK s : s = <<>> /\ s = Sent
  BY <1>11
<1>13. \A k : k \notin DOMAIN s
  BY <1>12
<1>14. Fits(s)
  BY <1>13 DEF Fits
<1>15. LinkInv
  <2>1. LastUpTo(s) = 0
    BY <1>12 DEF LastUpTo
  <2>2. 0 \in 0..Len(events)
    BY <1>5
  <2>3. Window(NoHistory, 0, 0) /\ \A e : e.upTo = 0 => InWindow(e, 0)
    BY <1>2, <2>2, EmptyWindow
  <2>4. BarEvent.upTo = 0
    BY <1>1 DEF BarEvent
  <2>5. Window(history, LastUpTo(s), upTo) /\ InWindow(BarEvent, LastUpTo(s))
    BY <1>1, <2>1, <2>3, <2>4
  <2>6. QED
    BY <1>8, <1>12, <1>13, <2>5 DEF LinkInv
<1>16. OutInv
  <2>1. Playing
    BY <1>1 DEF Playing
  <2>2. ASSUME NEW n \in Priced PROVE expiration - Period <= Time(n)
    BY <1>1, <1>5, PeriodFacts DEF Priced
  <2>3. QED
    BY <1>1, <1>7, <2>1, <2>2 DEF OutInv
<1>17. EndInv
  BY <1>1, <1>12, <1>14 DEF EndInv
<1>18. SentInv
  BY <1>12, <1>14 DEF SentInv
<1>19. QED
  BY <1>2, <1>3, <1>6, <1>9, <1>10, <1>15, <1>16, <1>17, <1>18 DEF Inv, StateInv, RunningInv

LEMMA NextInv ==
    ASSUME Inv, [Next]_vars
    PROVE  Inv'
<1>1. CASE FeedStep
  BY <1>1, SendEventInv, FeedStepsInv DEF FeedStep
<1>2. CASE PlayStep
  BY <1>2, StartPlayInv, AddToWindowInv, CloseWindowInv, OpenWindowInv, EndWindowsInv, PlayEndsInv
     DEF PlayStep
<1>3. CASE WorkerStep \/ Abort
  BY <1>3, TakeEventInv, FinishInv, AbortInv DEF WorkerStep
<1>4. CASE UNCHANGED vars
  <2>1. UNCHANGED <<given, next, playVars, channel, workerVars>> /\ c' = c /\ feed' = feed
    BY <1>4 DEF vars, feedVars
  <2>2. /\ c \in Channels(Positions)
        /\ feed \in {"idle", "new", "send", "suspended", "closing", "stopped"}
    BY DEF Inv, StateInv, DataInv, ControlInv
  <2>3. Playing => (c.closed \/ feed \in {"closing", "stopped"} => \A n \in Visible : n < next)
    BY DEF Inv, RunningInv, PathInv
  <2>4. QED
    BY <2>1, <2>2, <2>3, QuietFeedInv
<1>5. QED
  BY <1>1, <1>2, <1>3, <1>4 DEF Next

LEMMA Invariance == Spec => []Inv
<1>1. Init => Inv
  BY InitInv
<1>2. Inv /\ [Next]_vars => Inv'
  BY NextInv
<1>3. QED
  BY <1>1, <1>2, PTL DEF Spec

-----------------------------------------------------------------------------
(* Theorems                                                                *)

(* The state keeps its shape: the bars of the window, of what is sent and  *)
(* of what was taken are bars of known assets, made up to a known event.   *)
THEOREM TypeCorrect == Spec => []TypeOK
<1>1. Inv => TypeOK
  <2> SUFFICES ASSUME Inv PROVE TypeOK
    OBVIOUS
  <2>1. GivenInv /\ ControlInv /\ DataInv
    BY DEF Inv, StateInv
  <2>2. ASSUME NEW e \in BarEvents PROVE IsBarEvent(e)
    <3>1. /\ DOMAIN e = {"time", "bars", "upTo"} /\ e.time \in Nat /\ e.upTo \in 0..Len(events)
          /\ e.bars \in Histories
      BY DEF BarEvents
    <3>2. DOMAIN e.bars \subseteq Assets /\ \A a \in DOMAIN e.bars : e.bars[a] \in Bars
      BY <3>1, HistoryFacts
    <3>3. QED
      BY <3>1, <3>2 DEF IsBarEvent
  <2>3. IsBarEvent(BarEvent)
    BY <2>1, <2>2, BarEventType
  <2>4. PICK q, h : q = channel.queue /\ h = handled /\ q \in Seq(BarEvents) /\ h \in Seq(BarEvents)
    BY <2>1, SentFacts DEF DataInv
  <2>5. /\ \A k \in DOMAIN q : q[k] \in BarEvents
        /\ \A k \in DOMAIN h : h[k] \in BarEvents
    BY <2>4
  <2>6. /\ \A k \in DOMAIN channel.queue : IsBarEvent(channel.queue[k])
        /\ \A k \in DOMAIN handled : IsBarEvent(handled[k])
    BY <2>2, <2>4, <2>5
  <2>7. /\ events \in Seq([time : Nat, items : Seq([asset : Assets, bar : Bars])])
        /\ remaining \in BOOLEAN /\ c \in Channels(DOMAIN events)
    BY <2>1, GivenFacts DEF GivenInv, DataInv, Positions
  <2>8. QED
    BY <2>1, <2>3, <2>6, <2>7 DEF TypeOK, ControlInv, DataInv
<1>2. QED
  BY <1>1, Invariance, PTL

(* What the strategy gets are the prices of the feed, cut into pieces: the *)
(* window of play() takes every event that comes before its end, and is    *)
(* sent whole, before the event after it is looked at, so each price is in *)
(* the bar of its own window and in no other.                              *)
THEOREM EveryPriceIsInOneBar == Spec => []EveryPriceInOneBar
<1>1. Inv => EveryPriceInOneBar
  BY DEF Inv, EndInv, Fits, EveryPriceInOneBar
<1>2. QED
  BY <1>1, Invariance, PTL

(* A run that finishes has emptied the channel play() sends to, and that   *)
(* one is closed only when play() is over or its window ends after the     *)
(* timeframe: no other price of the timeframe is missing, but for those of *)
(* the last window when remaining is off.                                  *)
THEOREM NothingIsMissing == Spec => []NothingMissing
<1>1. Inv => NothingMissing
  <2> SUFFICES ASSUME Inv, worker = "finished", NEW n \in Visible, events[n].items # <<>>
               PROVE  \/ handled # <<>> /\ n <= Last(handled).upTo
                      \/ AfterTimeframe(WindowEnd(Time(n)))
                      \/ ~remaining /\ \A m \in Visible : Time(m) <= WindowEnd(Time(n))
    BY DEF NothingMissing
  <2>1. n \in Priced /\ n \in Nat /\ n # 0
    BY GivenFacts DEF Priced, Visible, Inv, StateInv
  <2>2. Accounted(n, handled)
    BY <2>1 DEF Inv, EndInv
  <2>3. n <= LastUpTo(handled) => handled # <<>> /\ n <= Last(handled).upTo
    BY <2>1 DEF LastUpTo
  <2>4. QED
    BY <2>2, <2>3 DEF Accounted
<1>2. QED
  BY <1>1, Invariance, PTL
=============================================================================
