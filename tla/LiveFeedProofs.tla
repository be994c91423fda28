-------------------------- MODULE LiveFeedProofs --------------------------
(***************************************************************************)
(* Live feeds and the runs that come and go: a send that ends normally     *)
(* loses nothing, a run gets the events of a feed in order and none twice, *)
(* and a run whose channel is open stays in the lists of its feeds.        *)
(*                                                                         *)
(* The invariant says where a run is in the list of a feed (ListInv), what *)
(* the runs the loop has passed have got (LossInv), and which events of a  *)
(* feed can be on their way to a run at all (OrderInv): those up to the    *)
(* one that is being sent, and that one only behind the cursor.            *)
(***************************************************************************)
EXTENDS LiveFeed, SequenceTheorems, WellFoundedInduction, TLAPS

Visited(r, f) == \E i \in 1..cursor[f] : channels[f][i] = r

SenderInv ==
    \A f \in LiveFeeds :
        /\ sender[f] = "idle" => cursor[f] = 0
        /\ sender[f] = "suspended" => cursor[f] > 0
        /\ sender[f] = "purge" => expected[f] <= cursor[f]

ListInv ==
    \A f \in LiveFeeds :
        /\ \A i, j \in DOMAIN channels[f] : channels[f][i] = channels[f][j] => i = j
        /\ \A r \in Runs : Listed(r, f) =>
              f \in Plays[r] /\ play[r][f] \in {"added", "waiting", "returned"}

RunInv ==
    \A r \in Runs :
        /\ worker[r] = "new" => job[r] = "new"
        /\ job[r] \in {"new", "launched"} => \A f \in Plays[r] : play[r][f] = "new"

(* A run that has a feed's events coming is in its list.                   *)
OpenRunsListed ==
    \A r \in Runs : \A f \in Plays[r] :
        play[r][f] \in {"added", "waiting", "returned"} => channel[r].closed \/ Listed(r, f)

LossInv ==
    \A f \in LiveFeeds : sender[f] # "idle" /\ InTimeframe(time[f]) =>
        \A i \in 1..cursor[f] :
            LET r == channels[f][i] IN Over(r) \/ channel[r].closed \/ Has(r, Event(f))

OrderInv ==
    \A r \in Runs : \A i \in DOMAIN Sees(r) :
        LET e == Sees(r)[i]
        IN  /\ e.time <= time[e.feed]
            /\ (e.time = time[e.feed] /\ sender[e.feed] # "idle") => Visited(r, e.feed)

Inv ==
    /\ TypeOK /\ SenderInv /\ ListInv /\ RunInv /\ OpenRunsListed /\ LossInv
    /\ OrderInv /\ InOrder
-----------------------------------------------------------------------------
(* Induction on the natural numbers, for a set instead of a predicate.     *)
LEMMA LeastElement ==
    ASSUME NEW T, T \subseteq Nat, T # {}
    PROVE  \E x \in T : \A y \in T : x <= y
<1> DEFINE R == OpToRel(<, Nat)
<1>1. IsWellFoundedOn(R, Nat)
  BY NatLessThanWellFounded
<1>2. \A x, y \in Nat : x < y => <<x, y>> \in R
  BY DEF OpToRel
<1> HIDE DEF R
<1>3. PICK x \in T : \A y \in T : ~(<<y, x>> \in R)
  BY <1>1, WFMin
<1>4. ASSUME NEW y \in T PROVE x <= y
  <2>1. x \in Nat /\ y \in Nat
    OBVIOUS
  <2>2. ~(y < x)
    BY <1>2, <1>3, <2>1
  <2>3. QED
    BY <2>1, <2>2
<1>5. QED
  BY <1>4

LEMMA Induct ==
    ASSUME NEW S, 0 \in S, \A n \in Nat : n \in S => n + 1 \in S
    PROVE  Nat \subseteq S
<1> DEFINE T == {n \in Nat : n \notin S}
<1> SUFFICES ASSUME T # {} PROVE FALSE
  OBVIOUS
<1>1. PICK x \in T : \A y \in T : x <= y
  BY LeastElement
<1>2. x # 0 /\ x - 1 \in Nat
  OBVIOUS
<1>3. x - 1 \in S
  BY <1>1, <1>2
<1>4. QED
  BY <1>2, <1>3


-----------------------------------------------------------------------------
(* StillOpen is a recursive function: what its first values are.           *)
Kept(g, m, s) ==
    g = [n \in 0..m |-> IF n = 0 THEN <<>>
                        ELSE IF channel[s[n]].closed THEN g[n - 1]
                        ELSE Append(g[n - 1], s[n])]

LEMMA KeptExists ==
    ASSUME NEW s, NEW m \in Nat
    PROVE  \E g : Kept(g, m, s)
<1> DEFINE S == {n \in Nat : \E g : Kept(g, n, s)}
<1>1. 0 \in S
  <2> DEFINE g == [n \in 0..0 |-> <<>>]
  <2>1. Kept(g, 0, s)
    BY DEF Kept
  <2>2. QED
    BY <2>1
<1>2. ASSUME NEW n \in Nat, n \in S PROVE n + 1 \in S
  <2>1. PICK g : Kept(g, n, s)
    BY <1>2
  <2>2. PICK x : x = IF channel[s[n + 1]].closed THEN g[n] ELSE Append(g[n], s[n + 1])
    OBVIOUS
  <2> DEFINE h == [i \in 0..n + 1 |-> IF i = n + 1 THEN x ELSE g[i]]
  <2>3. Kept(h, n + 1, s)
    <3>1. ASSUME NEW i \in 0..n + 1
          PROVE  h[i] = IF i = 0 THEN <<>>
                        ELSE IF channel[s[i]].closed THEN h[i - 1]
                        ELSE Append(h[i - 1], s[i])
      <4>1. CASE i = 0
        BY <2>1, <4>1 DEF Kept
      <4>2. CASE i = n + 1
        <5>1. h[n] = g[n] /\ i - 1 = n /\ i # 0 /\ h[i] = x
          BY <4>2
        <5> HIDE DEF h
        <5>2. QED
          BY <2>2, <4>2, <5>1
      <4>3. CASE i # 0 /\ i # n + 1
        <5>1. i \in 0..n /\ i - 1 \in 0..n + 1 /\ i - 1 # n + 1
          BY <4>3
        <5>2. h[i] = g[i] /\ h[i - 1] = g[i - 1]
          BY <4>3, <5>1
        <5>3. g[i] = IF channel[s[i]].closed THEN g[i - 1] ELSE Append(g[i - 1], s[i])
          BY <2>1, <4>3, <5>1 DEF Kept
        <5> HIDE DEF h
        <5>4. QED
          BY <4>3, <5>2, <5>3
      <4>4. QED
        BY <4>1, <4>2, <4>3
    <3>2. h = [i \in 0..n + 1 |-> h[i]]
      OBVIOUS
    <3> HIDE DEF h
    <3>3. QED
      BY <3>1, <3>2 DEF Kept
  <2> HIDE DEF h
  <2>4. QED
    BY <2>3
<1> HIDE DEF S
<1>3. Nat \subseteq S
  BY <1>1, <1>2, Induct
<1>4. QED
  BY <1>3 DEF S

(* One more channel that is kept.                                          *)
LEMMA AppendFacts ==
    ASSUME NEW S, NEW q \in Seq(S), NEW e \in S
    PROVE  /\ Append(q, e) \in Seq(S) /\ Len(q) \in Nat /\ Len(Append(q, e)) = Len(q) + 1
           /\ DOMAIN q = 1..Len(q) /\ DOMAIN Append(q, e) = 1..Len(q) + 1
           /\ \A k \in 1..Len(q) : Append(q, e)[k] = q[k]
           /\ Append(q, e)[Len(q) + 1] = e
OBVIOUS

(* What of the list is left: its open channels, each once.                 *)
OpenPart(q, m, s) ==
    /\ q \in Seq(Runs)
    /\ \A i \in DOMAIN q : \E j \in 1..m : q[i] = s[j]
    /\ \A i, j \in DOMAIN q : q[i] = q[j] => i = j
    /\ \A j \in 1..m : channel[s[j]].closed \/ \E i \in DOMAIN q : q[i] = s[j]

LEMMA KeptOpen ==
    ASSUME NEW s \in Seq(Runs), \A i, j \in 1..Len(s) : s[i] = s[j] => i = j,
           NEW g, Kept(g, Len(s), s)
    PROVE  OpenPart(g[Len(s)], Len(s), s)
<1> DEFINE S == {n \in Nat : n <= Len(s) => OpenPart(g[n], n, s)}
<1>1. 0 \in S
  <2>1. g[0] = <<>>
    BY DEF Kept
  <2>2. OpenPart(<<>>, 0, s)
    BY DEF OpenPart
  <2>3. QED
    BY <2>1, <2>2
<1>2. ASSUME NEW n \in Nat, n \in S PROVE n + 1 \in S
  <2> SUFFICES ASSUME n + 1 <= Len(s) PROVE OpenPart(g[n + 1], n + 1, s)
    OBVIOUS
  <2>1. OpenPart(g[n], n, s)
    BY <1>2
  <2>2. g[n + 1] = IF channel[s[n + 1]].closed THEN g[n] ELSE Append(g[n], s[n + 1])
    <3>1. n + 1 \in 0..Len(s) /\ n + 1 # 0 /\ (n + 1) - 1 = n
      OBVIOUS
    <3>2. QED
      BY <3>1 DEF Kept
  <2>3. /\ n + 1 \in 1..Len(s) /\ s[n + 1] \in Runs
        /\ \A j \in 1..n : j \in 1..Len(s) /\ j # n + 1 /\ j \in 1..n + 1
        /\ \A j \in 1..n + 1 : j \in 1..n \/ j = n + 1
    OBVIOUS
  <2> HIDE DEF S
  <2>4. CASE channel[s[n + 1]].closed
    BY <2>1, <2>2, <2>3, <2>4 DEF OpenPart
  <2>5. CASE ~channel[s[n + 1]].closed
    <3>1. PICK q, u : q = g[n] /\ u = g[n + 1] /\ u = Append(q, s[n + 1])
      BY <2>2, <2>5
    <3>2. /\ q \in Seq(Runs) /\ u \in Seq(Runs) /\ Len(q) \in Nat
          /\ DOMAIN q = 1..Len(q) /\ DOMAIN u = 1..Len(q) + 1
          /\ \A k \in 1..Len(q) : u[k] = q[k]
          /\ u[Len(q) + 1] = s[n + 1]
      BY <2>1, <2>3, <3>1, AppendFacts DEF OpenPart
    <3>3. \A i \in DOMAIN u : (i \in DOMAIN q /\ u[i] = q[i]) \/ i = Len(q) + 1
      BY <3>2
    <3>4. \A i \in DOMAIN q : i \in DOMAIN u /\ Len(q) + 1 \in DOMAIN u
      BY <3>2
    <3>5. \A i \in DOMAIN q : q[i] # s[n + 1]
      BY <2>1, <2>3, <3>1 DEF OpenPart
    <3>6. \A i \in DOMAIN u : \E j \in 1..n + 1 : u[i] = s[j]
      BY <2>1, <2>3, <3>1, <3>2, <3>3 DEF OpenPart
    <3>7. \A i, j \in DOMAIN u : u[i] = u[j] => i = j
      BY <2>1, <3>1, <3>2, <3>3, <3>5 DEF OpenPart
    <3>8. \A j \in 1..n + 1 : channel[s[j]].closed \/ \E i \in DOMAIN u : u[i] = s[j]
      <4> SUFFICES ASSUME NEW j \in 1..n + 1, ~channel[s[j]].closed
                   PROVE  \E i \in DOMAIN u : u[i] = s[j]
        OBVIOUS
      <4>1. CASE j \in 1..n
        <5>1. PICK i \in DOMAIN q : q[i] = s[j]
          BY <2>1, <3>1, <4>1 DEF OpenPart
        <5>2. QED
          BY <3>2, <3>4, <5>1
      <4>2. CASE j = n + 1
        <5>1. Len(q) + 1 \in DOMAIN u
          BY <3>2
        <5>2. QED
          BY <3>2, <4>2, <5>1
      <4>3. QED
        BY <2>3, <4>1, <4>2
    <3>9. OpenPart(u, n + 1, s)
      BY <3>2, <3>6, <3>7, <3>8 DEF OpenPart
    <3>10. QED
      BY <3>1, <3>9
  <2>6. QED
    BY <2>4, <2>5
<1> HIDE DEF S
<1>3. Nat \subseteq S
  BY <1>1, <1>2, Induct
<1>4. Len(s) \in Nat /\ Len(s) <= Len(s)
  OBVIOUS
<1>5. Len(s) \in S
  BY <1>3, <1>4
<1>6. QED
  BY <1>4, <1>5 DEF S

LEMMA StillOpenFacts ==
    ASSUME NEW s \in Seq(Runs), \A i, j \in 1..Len(s) : s[i] = s[j] => i = j
    PROVE  OpenPart(StillOpen(s), Len(s), s)
<1> DEFINE g == CHOOSE h : Kept(h, Len(s), s)
<1>1. Len(s) \in Nat
  OBVIOUS
<1>2. \E h : Kept(h, Len(s), s)
  BY <1>1, KeptExists
<1>3. Kept(g, Len(s), s)
  BY <1>2
<1>4. StillOpen(s) = g[Len(s)]
  BY DEF StillOpen, Kept
<1> HIDE DEF g
<1>5. QED
  BY <1>3, <1>4, KeptOpen

-----------------------------------------------------------------------------
(* The state                                                               *)
LEMMA FeedFacts ==
    ASSUME TypeOK, NEW f \in LiveFeeds
    PROVE  /\ channels[f] \in Seq(Runs) /\ Len(channels[f]) \in Nat
           /\ DOMAIN channels[f] = 1..Len(channels[f])
           /\ sender[f] \in {"idle", "loop", "suspended", "purge"}
           /\ time[f] \in Nat /\ cursor[f] \in Nat /\ expected[f] \in Nat
           /\ sender[f] # "idle" =>
                /\ cursor[f] <= Len(channels[f]) /\ expected[f] <= Len(channels[f])
                /\ \A i \in 1..cursor[f] : i \in DOMAIN channels[f] /\ channels[f][i] \in Runs
BY DEF TypeOK

LEMMA RunFacts ==
    ASSUME TypeOK, NEW r \in Runs
    PROVE  /\ channel[r] \in Channels(Events) /\ got[r] \in Seq(Events)
           /\ channel[r].queue \in Seq(Events) /\ channel[r].closed \in BOOLEAN
           /\ worker[r] \in {"new", "running", "over"}
           /\ job[r] \in {"new", "launched", "playing", "stopped"}
           /\ play[r] \in [Plays[r] -> {"new", "launched", "added", "waiting", "returned"}]
           /\ Plays[r] \subseteq LiveFeeds
BY LiveFeedAssumption DEF TypeOK, Channels

(* What a run sees is what it got, and then what is in its channel.        *)
LEMMA ConcatFacts ==
    ASSUME NEW S, NEW g \in Seq(S), NEW q \in Seq(S)
    PROVE  /\ g \o q \in Seq(S) /\ Len(g) \in Nat /\ Len(q) \in Nat
           /\ DOMAIN g = 1..Len(g) /\ DOMAIN q = 1..Len(q)
           /\ DOMAIN (g \o q) = 1..Len(g) + Len(q)
           /\ \A i \in 1..Len(g) : (g \o q)[i] = g[i]
           /\ \A i \in 1..Len(q) : (g \o q)[Len(g) + i] = q[i]
OBVIOUS

LEMMA SeesFacts ==
    ASSUME TypeOK, NEW r \in Runs
    PROVE  /\ Sees(r) \in Seq(Events) /\ Len(Sees(r)) \in Nat
           /\ DOMAIN Sees(r) = 1..Len(Sees(r))
           /\ \A i \in DOMAIN Sees(r) : /\ Sees(r)[i] \in Events
                                        /\ Sees(r)[i].feed \in LiveFeeds
                                        /\ Sees(r)[i].time \in Nat
<1>1. Sees(r) \in Seq(Events)
  BY RunFacts DEF Sees
<1>2. \A e \in Events : e.feed \in LiveFeeds /\ e.time \in Nat
  BY DEF Events
<1>3. \A i \in DOMAIN Sees(r) : Sees(r)[i] \in Events
  BY <1>1
<1>4. QED
  BY <1>1, <1>2, <1>3

LEMMA TimeframeFacts ==
    ASSUME NEW t \in Nat
    PROVE  InTimeframe(t) => ~AfterTimeframe(t)
BY ChannelAssumption DEF InTimeframe, AfterTimeframe

LEMMA SendFacts ==
    ASSUME NEW S, NEW ch \in Channels(S), NEW e \in S, NEW t \in Nat,
           NEW n, n = Send(ch, e, t)
    PROVE  /\ n \in Channels(S) /\ (ch.closed => n.closed)
           /\ \/ n.queue = Append(ch.queue, e) /\ ~ch.closed
              \/ n.queue = ch.queue /\ (InTimeframe(t) => ch.closed)
<1> DEFINE q == Append(ch.queue, e)
<1>1. q \in Seq(S)
  BY DEF Channels
<1>2. CASE InTimeframe(t) /\ ~ch.closed
  <2>1. n = [ch EXCEPT !.queue = q]
    BY <1>2, TimeframeFacts DEF Send
  <2> HIDE DEF q
  <2>2. n \in Channels(S) /\ n.queue = q /\ n.closed = ch.closed
    BY <1>1, <2>1 DEF Channels
  <2>3. QED
    BY <1>2, <2>2 DEF q
<1>3. CASE ~(InTimeframe(t) /\ ~ch.closed)
  <2>1. n = ch \/ n = [ch EXCEPT !.closed = TRUE, !.locked = FALSE]
    BY <1>3 DEF Send, Close
  <2>2. InTimeframe(t) => ch.closed
    BY <1>3
  <2>3. n \in Channels(S) /\ n.queue = ch.queue /\ (ch.closed => n.closed)
    BY <2>1 DEF Channels
  <2>4. QED
    BY <2>2, <2>3
<1>4. QED
  BY <1>2, <1>3

LEMMA CloseFacts ==
    ASSUME NEW S, NEW ch \in Channels(S)
    PROVE  /\ Close(ch) \in Channels(S) /\ Close(ch).queue = ch.queue /\ Close(ch).closed
           /\ [ch EXCEPT !.locked = TRUE] \in Channels(S)
           /\ [ch EXCEPT !.locked = TRUE].queue = ch.queue
           /\ [ch EXCEPT !.locked = TRUE].closed = ch.closed
BY DEF Close, Channels

-----------------------------------------------------------------------------
(* What a step leaves alone.                                               *)
Here == {"added", "waiting", "returned"}

LEMMA LossKept ==
    ASSUME TypeOK, LossInv,
           \A r \in Runs : /\ Over(r) => Over(r)'
                           /\ channel[r].closed => channel'[r].closed
                           /\ Over(r)' \/ \A e : Has(r, e) => Has(r, e)',
           \A f \in LiveFeeds : sender'[f] # "idle" =>
                /\ sender[f] # "idle" /\ time'[f] = time[f] /\ cursor'[f] = cursor[f]
                /\ \A i \in 1..cursor[f] : channels'[f][i] = channels[f][i]
    PROVE  LossInv'
<1> SUFFICES ASSUME NEW f \in LiveFeeds, sender'[f] # "idle", InTimeframe(time'[f]),
                    NEW i \in 1..cursor'[f], NEW r, r = channels'[f][i]
             PROVE  Over(r)' \/ channel'[r].closed \/ Has(r, Event(f))'
  BY DEF LossInv
<1>1. i \in 1..cursor[f] /\ r = channels[f][i] /\ sender[f] # "idle" /\ time'[f] = time[f]
  OBVIOUS
<1>2. r \in Runs
  BY <1>1, FeedFacts
<1>3. Over(r) \/ channel[r].closed \/ Has(r, Event(f))
  BY <1>1 DEF LossInv
<1>4. PICK e : e = Event(f) /\ e = Event(f)'
  BY <1>1 DEF Event
<1>5. Over(r)' \/ channel'[r].closed \/ Has(r, e)'
  BY <1>2, <1>3, <1>4
<1>6. QED
  BY <1>4, <1>5 DEF Has

(* Nothing new is on its way.                                              *)
LEMMA OrderKept ==
    ASSUME TypeOK, OrderInv, InOrder, NEW k \in [Runs -> Nat],
           \A r \in Runs : \A i \in DOMAIN Sees(r)' :
                i + k[r] \in DOMAIN Sees(r) /\ Sees(r)'[i] = Sees(r)[i + k[r]]
                /\ i \in Nat,
           \A f \in LiveFeeds :
                /\ time'[f] = time[f]
                /\ sender'[f] # "idle" =>
                    sender[f] # "idle" /\ \A r \in Runs : Visited(r, f) => Visited(r, f)'
    PROVE  OrderInv' /\ InOrder'
<1>1. ASSUME NEW r \in Runs, NEW i \in DOMAIN Sees(r)', NEW e, e = Sees(r)'[i]
      PROVE  /\ e.time <= time'[e.feed]
             /\ (e.time = time'[e.feed] /\ sender'[e.feed] # "idle") => Visited(r, e.feed)'
  <2>1. PICK j \in DOMAIN Sees(r) : Sees(r)'[i] = Sees(r)[j]
    BY <1>1
  <2>2. e = Sees(r)[j]
    BY <1>1, <2>1
  <2>3. e.feed \in LiveFeeds
    BY <2>2, SeesFacts
  <2>4. /\ e.time <= time[e.feed]
        /\ (e.time = time[e.feed] /\ sender[e.feed] # "idle") => Visited(r, e.feed)
    BY <2>2 DEF OrderInv
  <2>5. PICK f \in LiveFeeds : f = e.feed
    BY <2>3
  <2>6. /\ e.time <= time'[f]
        /\ (e.time = time'[f] /\ sender'[f] # "idle") => Visited(r, f)'
    BY <2>4, <2>5
  <2>7. QED
    BY <2>1, <2>2, <2>5, <2>6
<1>2. OrderInv'
  BY <1>1 DEF OrderInv, Visited
<1>3. ASSUME NEW r \in Runs, NEW i \in DOMAIN Sees(r)', NEW j \in DOMAIN Sees(r)', i < j,
             Sees(r)'[i].feed = Sees(r)'[j].feed
      PROVE  Sees(r)'[i].time < Sees(r)'[j].time
  <2>1. PICK a, b : a = i + k[r] /\ b = j + k[r]
    OBVIOUS
  <2>2. /\ a \in DOMAIN Sees(r) /\ b \in DOMAIN Sees(r)
        /\ Sees(r)'[i] = Sees(r)[a] /\ Sees(r)'[j] = Sees(r)[b]
    BY <2>1
  <2>3. a < b
    BY <1>3, <2>1
  <2>4. QED
    BY <1>3, <2>2, <2>3 DEF InOrder
<1>4. InOrder'
  BY <1>3 DEF InOrder
<1>5. QED
  BY <1>2, <1>4

-----------------------------------------------------------------------------
(* The sender of a feed moves on, and nobody else does.                    *)
LEMMA SenderMoves ==
    ASSUME Inv, UNCHANGED <<channels, time, channel, runVars, job, play>>,
           TypeOK', SenderInv',
           \A f \in LiveFeeds :
                sender'[f] # "idle" => sender[f] # "idle" /\ cursor'[f] = cursor[f]
    PROVE  Inv'
<1>1. /\ channels' = channels /\ time' = time /\ channel' = channel /\ got' = got
      /\ worker' = worker /\ job' = job /\ play' = play
  BY DEF runVars
<1>2. ListInv' /\ RunInv' /\ OpenRunsListed'
  BY <1>1 DEF Inv, ListInv, RunInv, OpenRunsListed, Listed
<1>3. LossInv'
  BY <1>1, LossKept DEF Inv, Over, Has
<1>4. \A r \in Runs : Sees(r)' = Sees(r)
  BY <1>1 DEF Sees
<1>5. \A f \in LiveFeeds : sender'[f] # "idle" =>
            sender[f] # "idle" /\ \A r \in Runs : Visited(r, f) => Visited(r, f)'
  BY <1>1 DEF Visited
<1> DEFINE k == [r \in Runs |-> 0]
<1>6. k \in [Runs -> Nat] /\ \A r \in Runs : \A i \in DOMAIN Sees(r)' :
            i + k[r] \in DOMAIN Sees(r) /\ Sees(r)'[i] = Sees(r)[i + k[r]] /\ i \in Nat
  <2>1. ASSUME NEW r \in Runs, NEW i \in DOMAIN Sees(r)'
        PROVE  i + k[r] \in DOMAIN Sees(r) /\ Sees(r)'[i] = Sees(r)[i + k[r]] /\ i \in Nat
    <3>1. i \in DOMAIN Sees(r) /\ i \in Nat /\ i + k[r] = i
      BY <1>4, <2>1, SeesFacts DEF Inv
    <3>2. QED
      BY <1>4, <3>1
  <2>2. QED
    BY <2>1
<1> HIDE DEF k
<1>7. OrderInv' /\ InOrder'
  BY <1>1, <1>5, <1>6, OrderKept DEF Inv
<1>8. QED
  BY <1>2, <1>3, <1>7 DEF Inv

LEMMA ResumeSendInv ==
    ASSUME Inv, NEW f \in LiveFeeds, ResumeSend(f)
    PROVE  Inv'
<1>1. /\ sender[f] = "suspended" /\ sender' = [sender EXCEPT ![f] = "loop"]
      /\ UNCHANGED <<channels, time, cursor, expected, channel, runVars, job, play>>
  BY DEF ResumeSend
<1>2. TypeOK' /\ SenderInv'
  BY <1>1 DEF Inv, TypeOK, SenderInv, runVars
<1>3. \A g \in LiveFeeds : sender'[g] # "idle" => sender[g] # "idle"
  BY <1>1 DEF Inv, TypeOK
<1>4. QED
  BY <1>1, <1>2, <1>3, SenderMoves

LEMMA EndLoopInv ==
    ASSUME Inv, NEW f \in LiveFeeds, EndLoop(f)
    PROVE  Inv'
<1>1. /\ sender[f] = "loop" /\ sender' = [sender EXCEPT ![f] = "purge"]
      /\ cursor[f] \in {expected[f], Len(channels[f])}
      /\ UNCHANGED <<channels, time, cursor, expected, channel, runVars, job, play>>
  BY DEF EndLoop
<1>2. expected[f] <= cursor[f]
  BY <1>1, FeedFacts DEF Inv
<1>3. TypeOK' /\ SenderInv'
  BY <1>1, <1>2 DEF Inv, TypeOK, SenderInv, runVars
<1>4. \A g \in LiveFeeds : sender'[g] # "idle" => sender[g] # "idle"
  BY <1>1 DEF Inv, TypeOK
<1>5. QED
  BY <1>1, <1>3, <1>4, SenderMoves

LEMMA SendCrashesInv ==
    ASSUME Inv, NEW f \in LiveFeeds, SendCrashes(f)
    PROVE  Inv'
<1>1. /\ sender' = [sender EXCEPT ![f] = "idle"] /\ cursor' = [cursor EXCEPT ![f] = 0]
      /\ expected' = [expected EXCEPT ![f] = 0]
      /\ UNCHANGED <<channels, time, channel, runVars, job, play>>
  BY DEF SendCrashes, Return
<1>2. TypeOK' /\ SenderInv'
  BY <1>1 DEF Inv, TypeOK, SenderInv, runVars
<1>3. \A g \in LiveFeeds :
        sender'[g] # "idle" => sender[g] # "idle" /\ cursor'[g] = cursor[g]
  BY <1>1 DEF Inv, TypeOK
<1>4. QED
  BY <1>1, <1>2, <1>3, SenderMoves

-----------------------------------------------------------------------------
(* A run, or a play of it, moves on; no event moves.                       *)
LEMMA RunMoves ==
    ASSUME Inv, UNCHANGED <<channels, senderVars>>, TypeOK', RunInv',
           \A r \in Runs :
                /\ channel'[r].queue = channel[r].queue
                /\ channel[r].closed => channel'[r].closed
                /\ Over(r) => Over(r)'
                /\ got'[r] = got[r] \/ (got'[r] = <<>> /\ Over(r)')
                /\ \A f \in Plays[r] : play'[r][f] \in Here <=> play[r][f] \in Here
    PROVE  Inv'
<1>1. /\ channels' = channels /\ sender' = sender /\ time' = time /\ cursor' = cursor
      /\ expected' = expected
  BY DEF senderVars
<1>2. SenderInv'
  BY <1>1 DEF Inv, SenderInv
<1>3. ListInv' /\ OpenRunsListed'
  BY <1>1 DEF Inv, ListInv, OpenRunsListed, Listed, Here
<1>4. LossInv'
  <2>1. \A r \in Runs : Over(r)' \/ \A e : Has(r, e) => Has(r, e)'
    BY DEF Has
  <2>2. QED
    BY <1>1, <2>1, LossKept DEF Inv
<1>5. \A f \in LiveFeeds : sender'[f] # "idle" =>
            sender[f] # "idle" /\ \A r \in Runs : Visited(r, f) => Visited(r, f)'
  BY <1>1 DEF Visited
<1> DEFINE k == [r \in Runs |-> IF got'[r] = got[r] THEN 0 ELSE Len(got[r])]
<1>6. k \in [Runs -> Nat]
  BY RunFacts DEF Inv
<1>7. ASSUME NEW r \in Runs, NEW i \in DOMAIN Sees(r)'
      PROVE  i + k[r] \in DOMAIN Sees(r) /\ Sees(r)'[i] = Sees(r)[i + k[r]] /\ i \in Nat
  <2>1. PICK q, g : q = channel[r].queue /\ g = got[r]
    OBVIOUS
  <2>2. /\ q \in Seq(Events) /\ g \in Seq(Events) /\ Len(q) \in Nat /\ Len(g) \in Nat
        /\ Sees(r) = g \o q /\ DOMAIN (g \o q) = 1..Len(g) + Len(q)
        /\ DOMAIN q = 1..Len(q)
        /\ \A j \in 1..Len(q) : (g \o q)[Len(g) + j] = q[j]
    <3>1. q \in Seq(Events) /\ g \in Seq(Events)
      BY <2>1, RunFacts DEF Inv
    <3>2. Sees(r) = g \o q
      BY <2>1 DEF Sees
    <3>3. QED
      BY <3>1, <3>2, ConcatFacts
  <2>3. CASE got'[r] = got[r]
    <3>1. Sees(r)' = g \o q /\ k[r] = 0
      BY <2>1, <2>3 DEF Sees
    <3>2. i \in 1..Len(g) + Len(q)
      BY <1>7, <2>2, <3>1
    <3>3. i + k[r] = i /\ i \in Nat
      BY <2>2, <3>1, <3>2
    <3> HIDE DEF k
    <3>4. QED
      BY <2>2, <3>1, <3>2, <3>3
  <2>4. CASE got'[r] # got[r]
    <3>1. Sees(r)' = q /\ k[r] = Len(g)
      <4>1. Sees(r)' = <<>> \o q /\ k[r] = Len(g)
        BY <2>1, <2>4 DEF Sees
      <4>2. <<>> \o q = q
        BY <2>2
      <4>3. QED
        BY <4>1, <4>2
    <3>2. i \in 1..Len(q)
      BY <1>7, <2>2, <3>1
    <3> HIDE DEF k
    <3>3. i \in Nat /\ i + k[r] = Len(g) + i /\ i + k[r] \in 1..Len(g) + Len(q)
      BY <2>2, <3>1, <3>2
    <3>4. QED
      BY <2>2, <3>1, <3>2, <3>3
  <2>5. QED
    BY <2>3, <2>4
<1> HIDE DEF k
<1>8. OrderInv' /\ InOrder'
  BY <1>1, <1>5, <1>6, <1>7, OrderKept DEF Inv
<1>9. QED
  BY <1>2, <1>3, <1>4, <1>8 DEF Inv

LEMMA StartRunInv ==
    ASSUME Inv, NEW r \in Runs, StartRun(r)
    PROVE  Inv'
<1>1. /\ worker[r] = "new" /\ worker' = [worker EXCEPT ![r] = "running"]
      /\ job' = [job EXCEPT ![r] = "launched"]
      /\ UNCHANGED <<channels, senderVars, channel, got, play>>
  BY DEF StartRun
<1>2. TypeOK'
  BY <1>1 DEF Inv, TypeOK, senderVars
<1>3. RunInv'
  BY <1>1 DEF Inv, TypeOK, RunInv
<1>4. \A q \in Runs : Over(q) => Over(q)'
  BY <1>1 DEF Inv, TypeOK, Over
<1>5. QED
  BY <1>1, <1>2, <1>3, <1>4, RunMoves

LEMMA StartJobInv ==
    ASSUME Inv, NEW r \in Runs, StartJob(r)
    PROVE  Inv'
<1>1. /\ job[r] = "launched" /\ job' = [job EXCEPT ![r] = "playing"]
      /\ play' = [play EXCEPT ![r] = [f \in Plays[r] |-> "launched"]]
      /\ UNCHANGED <<channels, senderVars, channel, got, worker>>
  BY DEF StartJob, runVars
<1>2. TypeOK'
  BY <1>1 DEF Inv, TypeOK, senderVars
<1>3. RunInv'
  BY <1>1 DEF Inv, TypeOK, RunInv
<1>4. \A q \in Runs : /\ Over(q) => Over(q)'
                      /\ \A f \in Plays[q] : play'[q][f] \in Here <=> play[q][f] \in Here
  BY <1>1 DEF Inv, TypeOK, RunInv, Over, Here
<1>5. QED
  BY <1>1, <1>2, <1>3, <1>4, RunMoves

LEMMA NeverStartedInv ==
    ASSUME Inv, NEW r \in Runs, NeverStarted(r)
    PROVE  Inv'
<1>1. /\ job[r] = "launched" /\ job' = [job EXCEPT ![r] = "stopped"]
      /\ UNCHANGED <<channels, senderVars, channel, got, worker, play>>
  BY DEF NeverStarted, runVars
<1>2. TypeOK'
  BY <1>1 DEF Inv, TypeOK, senderVars
<1>3. RunInv'
  BY <1>1 DEF Inv, TypeOK, RunInv
<1>4. \A q \in Runs : Over(q) => Over(q)'
  BY <1>1 DEF Over
<1>5. QED
  BY <1>1, <1>2, <1>3, <1>4, RunMoves

(* The three ways a run can end.                                           *)
LEMMA EndRunInv ==
    ASSUME Inv, NEW r \in Runs, ChannelIsDone(r) \/ TimeIsUp(r) \/ Abort(r)
    PROVE  Inv'
<1>1. /\ worker[r] = "running" /\ worker' = [worker EXCEPT ![r] = "over"]
      /\ got' = [got EXCEPT ![r] = <<>>]
      /\ UNCHANGED <<channels, senderVars, job, play>>
      /\ channel' = channel \/ channel' = [channel EXCEPT ![r] = Close(@)]
  BY DEF ChannelIsDone, TimeIsUp, Abort, EndRun
<1>2. /\ Close(channel[r]) \in Channels(Events) /\ Close(channel[r]).closed
      /\ Close(channel[r]).queue = channel[r].queue
  <2>1. channel[r] \in Channels(Events)
    BY RunFacts DEF Inv
  <2>2. QED
    BY <2>1, CloseFacts
<1>3. TypeOK'
  <2>1. channel' \in [Runs -> Channels(Events)]
    BY <1>1, <1>2 DEF Inv, TypeOK
  <2>2. got' \in [Runs -> Seq(Events)] /\ worker' \in [Runs -> {"new", "running", "over"}]
    BY <1>1 DEF Inv, TypeOK
  <2>3. QED
    BY <1>1, <2>1, <2>2 DEF Inv, TypeOK, senderVars
<1>4. RunInv'
  BY <1>1 DEF Inv, TypeOK, RunInv
<1>5. \A q \in Runs : /\ Over(q) => Over(q)'
                      /\ got'[q] = got[q] \/ (got'[q] = <<>> /\ Over(q)')
                      /\ channel'[q].queue = channel[q].queue
                      /\ channel[q].closed => channel'[q].closed
                      /\ play'[q] = play[q]
  BY <1>1, <1>2 DEF Inv, TypeOK, Over
<1>6. QED
  BY <1>1, <1>3, <1>4, <1>5, RunMoves

LEMMA EndJobInv ==
    ASSUME Inv, NEW r \in Runs, EndJob(r)
    PROVE  Inv'
<1>1. /\ job[r] = "playing" /\ job' = [job EXCEPT ![r] = "stopped"]
      /\ channel' = [channel EXCEPT ![r] = Close(@)]
      /\ UNCHANGED <<channels, senderVars, got, worker, play>>
  BY DEF EndJob, runVars
<1>2. /\ Close(channel[r]) \in Channels(Events) /\ Close(channel[r]).closed
      /\ Close(channel[r]).queue = channel[r].queue
  <2>1. channel[r] \in Channels(Events)
    BY RunFacts DEF Inv
  <2>2. QED
    BY <2>1, CloseFacts
<1>3. TypeOK'
  BY <1>1, <1>2 DEF Inv, TypeOK, senderVars
<1>4. RunInv'
  BY <1>1 DEF Inv, TypeOK, RunInv
<1>5. \A q \in Runs : /\ channel'[q].queue = channel[q].queue
                      /\ channel[q].closed => channel'[q].closed
  BY <1>1, <1>2 DEF Inv, TypeOK
<1>6. \A q \in Runs : Over(q) => Over(q)'
  BY <1>1 DEF Over
<1>7. QED
  BY <1>1, <1>3, <1>4, <1>5, <1>6, RunMoves

LEMMA PlayMovesInv ==
    ASSUME Inv, NEW r \in Runs, NEW f \in Plays[r],
           WaitOnClose(r, f) \/ LockMutex(r, f) \/ CancelWait(r, f)
    PROVE  Inv'
<1>1. PICK p \in {"waiting", "returned"} :
        /\ play[r][f] \in {"added", "waiting"}
        /\ play' = [play EXCEPT ![r][f] = p]
        /\ UNCHANGED <<channels, senderVars, got, worker, job>>
        /\ channel' = channel \/ channel' = [channel EXCEPT ![r].locked = TRUE]
  <2>1. CASE WaitOnClose(r, f)
    BY <2>1 DEF WaitOnClose, runVars
  <2>2. CASE LockMutex(r, f)
    BY <2>2 DEF LockMutex, runVars
  <2>3. CASE CancelWait(r, f)
    BY <2>3 DEF CancelWait, runVars
  <2>4. QED
    BY <2>1, <2>2, <2>3
<1>2. PICK ch : ch = [channel[r] EXCEPT !.locked = TRUE]
  OBVIOUS
<1>3. ch \in Channels(Events) /\ ch.queue = channel[r].queue /\ ch.closed = channel[r].closed
  <2>1. channel[r] \in Channels(Events)
    BY RunFacts DEF Inv
  <2>2. QED
    BY <1>2, <2>1, CloseFacts
<1>4. channel' = channel \/ channel' = [channel EXCEPT ![r] = ch]
  BY <1>1, <1>2
<1>5. TypeOK'
  <2>1. channel' \in [Runs -> Channels(Events)]
    BY <1>3, <1>4 DEF Inv, TypeOK
  <2>2. /\ DOMAIN play' = Runs
        /\ \A q \in Runs :
            play'[q] \in [Plays[q] -> {"new", "launched", "added", "waiting", "returned"}]
    BY <1>1 DEF Inv, TypeOK
  <2>3. QED
    BY <1>1, <2>1, <2>2 DEF Inv, TypeOK, senderVars
<1>6. play[r] \in [Plays[r] -> {"new", "launched", "added", "waiting", "returned"}]
      /\ DOMAIN play = Runs
  BY DEF Inv, TypeOK
<1>7. \A q \in Runs : \A g \in Plays[q] :
        play'[q][g] = IF q = r /\ g = f THEN p ELSE play[q][g]
  BY <1>1, <1>6
<1>8. RunInv'
  BY <1>1, <1>7 DEF Inv, RunInv
<1>9. \A q \in Runs : \A g \in Plays[q] : play'[q][g] \in Here <=> play[q][g] \in Here
  BY <1>1, <1>7 DEF Here
<1>10. \A q \in Runs : /\ channel'[q].queue = channel[q].queue
                       /\ channel[q].closed => channel'[q].closed
  BY <1>3, <1>4 DEF Inv, TypeOK
<1>11. \A q \in Runs : Over(q) => Over(q)'
  BY <1>1 DEF Over
<1>12. QED
  BY <1>1, <1>5, <1>8, <1>9, <1>10, <1>11, RunMoves

-----------------------------------------------------------------------------
(* The worker takes the oldest event.                                      *)
LEMMA TakeFacts ==
    ASSUME NEW S, NEW q \in Seq(S), q # <<>>, NEW g \in Seq(S),
           NEW h, h = Append(g, Head(q)), NEW t, t = Tail(q)
    PROVE  /\ h \in Seq(S) /\ t \in Seq(S) /\ h \o t = g \o q
           /\ \A i \in DOMAIN q : \/ \E j \in DOMAIN h : h[j] = q[i]
                                  \/ \E j \in DOMAIN t : t[j] = q[i]
           /\ \A i \in DOMAIN g : \E j \in DOMAIN h : h[j] = g[i]
<1>1. /\ Head(q) \in S /\ Head(q) = q[1] /\ t \in Seq(S) /\ h \in Seq(S)
      /\ Len(q) \in Nat /\ Len(q) >= 1 /\ Len(t) = Len(q) - 1
      /\ DOMAIN q = 1..Len(q) /\ DOMAIN t = 1..Len(q) - 1
      /\ \A i \in 1..Len(q) - 1 : t[i] = q[i + 1]
      /\ Len(g) \in Nat /\ DOMAIN g = 1..Len(g)
  OBVIOUS
<1>2. /\ Len(h) = Len(g) + 1 /\ DOMAIN h = 1..Len(g) + 1 /\ h[Len(g) + 1] = q[1]
      /\ \A i \in 1..Len(g) : h[i] = g[i]
  BY <1>1, AppendFacts
<1>3. h \o t = g \o q
  <2>1. /\ h \o t \in Seq(S) /\ DOMAIN (h \o t) = 1..Len(g) + 1 + (Len(q) - 1)
        /\ \A i \in 1..Len(g) + 1 : (h \o t)[i] = h[i]
        /\ \A i \in 1..Len(q) - 1 : (h \o t)[Len(g) + 1 + i] = t[i]
    <3>1. /\ DOMAIN (h \o t) = 1..Len(h) + Len(t) /\ h \o t \in Seq(S)
          /\ \A i \in 1..Len(h) : (h \o t)[i] = h[i]
          /\ \A i \in 1..Len(t) : (h \o t)[Len(h) + i] = t[i]
      <4>1. h \in Seq(S) /\ t \in Seq(S)
        BY <1>1
      <4>2. QED
        BY <4>1, ConcatFacts
    <3>2. QED
      BY <1>1, <1>2, <3>1
  <2>2. /\ g \o q \in Seq(S) /\ DOMAIN (g \o q) = 1..Len(g) + Len(q)
        /\ \A i \in 1..Len(g) : (g \o q)[i] = g[i]
        /\ \A i \in 1..Len(q) : (g \o q)[Len(g) + i] = q[i]
    BY <1>1, ConcatFacts
  <2>3. PICK a, b : a = h \o t /\ b = g \o q
    OBVIOUS
  <2>4. DOMAIN a = 1..Len(g) + Len(q) /\ DOMAIN b = 1..Len(g) + Len(q)
    <3>1. Len(g) + 1 + (Len(q) - 1) = Len(g) + Len(q)
      BY <1>1
    <3>2. QED
      BY <2>1, <2>2, <2>3, <3>1
  <2>5. ASSUME NEW i \in 1..Len(g) + Len(q) PROVE a[i] = b[i]
    <3>1. CASE i \in 1..Len(g)
      <4>1. i \in 1..Len(g) + 1
        BY <1>1, <3>1
      <4>2. QED
        BY <1>2, <2>1, <2>2, <2>3, <3>1, <4>1
    <3>2. CASE i = Len(g) + 1
      <4>1. i \in 1..Len(g) + 1 /\ 1 \in 1..Len(q)
        BY <1>1, <3>2
      <4>2. QED
        BY <1>2, <2>1, <2>2, <2>3, <3>2, <4>1
    <3>3. CASE i > Len(g) + 1
      <4>1. PICK j \in 1..Len(q) - 1 : i = Len(g) + 1 + j
        <5>1. i - (Len(g) + 1) \in 1..Len(q) - 1 /\ i = Len(g) + 1 + (i - (Len(g) + 1))
          BY <1>1, <3>3
        <5>2. QED
          BY <5>1
      <4>2. j + 1 \in 1..Len(q) /\ i = Len(g) + (j + 1)
        BY <1>1, <4>1
      <4>3. a[i] = t[j] /\ b[i] = q[j + 1]
        BY <2>1, <2>2, <2>3, <4>1, <4>2
      <4>4. QED
        BY <1>1, <4>1, <4>3
    <3>4. QED
      BY <1>1, <3>1, <3>2, <3>3
  <2>6. a \in Seq(S) /\ b \in Seq(S)
    BY <2>1, <2>2, <2>3
  <2>7. a = b
    <3>1. a = [i \in DOMAIN a |-> a[i]] /\ b = [i \in DOMAIN b |-> b[i]]
      BY <2>6
    <3>2. QED
      BY <2>4, <2>5, <3>1
  <2>8. QED
    BY <2>3, <2>7
<1>4. ASSUME NEW i \in DOMAIN q
      PROVE  \/ \E j \in DOMAIN h : h[j] = q[i]
             \/ \E j \in DOMAIN t : t[j] = q[i]
  <2>1. CASE i = 1
    <3>1. Len(g) + 1 \in DOMAIN h
      BY <1>1, <1>2
    <3>2. QED
      BY <1>2, <2>1, <3>1
  <2>2. CASE i # 1
    <3>1. i - 1 \in DOMAIN t /\ t[i - 1] = q[i]
      BY <1>1, <2>2
    <3>2. QED
      BY <3>1
  <2>3. QED
    BY <2>1, <2>2
<1>5. \A i \in DOMAIN g : i \in DOMAIN h /\ h[i] = g[i]
  BY <1>1, <1>2
<1>6. QED
  BY <1>1, <1>3, <1>4, <1>5

LEMMA ReceiveEventInv ==
    ASSUME Inv, NEW r \in Runs, ReceiveEvent(r)
    PROVE  Inv'
<1>1. PICK q, g, h, t : /\ q = channel[r].queue /\ g = got[r]
                        /\ h = Append(g, Head(q)) /\ t = Tail(q)
  OBVIOUS
<1>2. PICK ch : ch = Receive(channel[r])
  OBVIOUS
<1>3. /\ worker[r] = "running" /\ q # <<>>
      /\ got' = [got EXCEPT ![r] = h] /\ channel' = [channel EXCEPT ![r] = ch]
      /\ UNCHANGED <<channels, senderVars, worker, job, play>>
  BY <1>1, <1>2 DEF ReceiveEvent, CanReceive
<1>4. q \in Seq(Events) /\ g \in Seq(Events)
  BY <1>1, RunFacts DEF Inv
<1>5. /\ t \in Seq(Events) /\ h \in Seq(Events) /\ h \o t = g \o q
      /\ \A i \in DOMAIN q : \/ \E j \in DOMAIN h : h[j] = q[i]
                             \/ \E j \in DOMAIN t : t[j] = q[i]
      /\ \A i \in DOMAIN g : \E j \in DOMAIN h : h[j] = g[i]
  <2>1. q # <<>> /\ h = Append(g, Head(q)) /\ t = Tail(q)
    BY <1>1, <1>3
  <2>2. t \in Seq(Events) /\ h \in Seq(Events)
    BY <1>4, <2>1, TakeFacts
  <2>3. h \o t = g \o q
    BY <1>4, <2>1, TakeFacts
  <2>4. \A i \in DOMAIN q : \/ \E j \in DOMAIN h : h[j] = q[i]
                            \/ \E j \in DOMAIN t : t[j] = q[i]
    <3>1. Len(g) + 1 \in DOMAIN h /\ h[Len(g) + 1] = q[1]
      BY <1>4, <2>1
    <3>2. \A i \in DOMAIN q : i = 1 \/ (i - 1 \in DOMAIN t /\ t[i - 1] = q[i])
      BY <1>4, <2>1
    <3>3. QED
      BY <3>1, <3>2
  <2>5. \A i \in DOMAIN g : \E j \in DOMAIN h : h[j] = g[i]
    <3>1. \A i \in DOMAIN g : i \in DOMAIN h /\ h[i] = g[i]
      BY <1>4, <2>1
    <3>2. QED
      BY <3>1
  <2>6. QED
    BY <2>2, <2>3, <2>4, <2>5
<1>6. ch \in Channels(Events) /\ ch.queue = t /\ ch.closed = channel[r].closed
  <2>1. channel[r] \in Channels(Events) /\ ch = [channel[r] EXCEPT !.queue = t]
    BY <1>1, <1>2, RunFacts DEF Inv, Receive
  <2>2. QED
    BY <1>5, <2>1 DEF Channels
<1>7. TypeOK'
  BY <1>3, <1>5, <1>6 DEF Inv, TypeOK, senderVars
<1>8. /\ channels' = channels /\ sender' = sender /\ time' = time /\ cursor' = cursor
      /\ expected' = expected /\ worker' = worker /\ job' = job /\ play' = play
  BY <1>3 DEF senderVars
<1>9. SenderInv' /\ RunInv'
  BY <1>8 DEF Inv, SenderInv, RunInv
<1>10. \A p \in Runs : /\ channel'[p] = IF p = r THEN ch ELSE channel[p]
                       /\ got'[p] = IF p = r THEN h ELSE got[p]
  BY <1>3 DEF Inv, TypeOK
<1>11. \A p \in Runs : channel'[p].closed = channel[p].closed
  BY <1>6, <1>10
<1>12. ListInv' /\ OpenRunsListed'
  BY <1>8, <1>11 DEF Inv, ListInv, OpenRunsListed, Listed
<1>13. ASSUME NEW p \in Runs, NEW e, Has(p, e) PROVE Has(p, e)'
  <2>1. CASE p # r
    BY <1>10, <1>13, <2>1 DEF Has
  <2>2. CASE p = r
    <3>1. (\E i \in DOMAIN g : g[i] = e) \/ (\E i \in DOMAIN q : q[i] = e)
      BY <1>1, <1>13, <2>2 DEF Has
    <3>2. (\E i \in DOMAIN h : h[i] = e) \/ (\E i \in DOMAIN t : t[i] = e)
      BY <1>5, <3>1
    <3>3. got'[r] = h /\ channel'[r].queue = t
      BY <1>6, <1>10
    <3>4. QED
      BY <2>2, <3>2, <3>3 DEF Has
  <2>3. QED
    BY <2>1, <2>2
<1>14. \A p \in Runs : Over(p) => Over(p)'
  BY <1>8 DEF Over
<1>15. LossInv'
  BY <1>8, <1>11, <1>13, <1>14, LossKept DEF Inv
<1>16. \A p \in Runs : Sees(p)' = Sees(p)
  BY <1>1, <1>5, <1>6, <1>10 DEF Sees
<1>17. OrderInv' /\ InOrder'
  BY <1>8, <1>16 DEF Inv, OrderInv, InOrder, Visited
<1>18. QED
  BY <1>7, <1>9, <1>12, <1>15, <1>17 DEF Inv

-----------------------------------------------------------------------------
(* A send starts with the next event of the feed.                          *)
LEMMA StartSendInv ==
    ASSUME Inv, NEW f \in LiveFeeds, StartSend(f)
    PROVE  Inv'
<1>1. /\ sender[f] = "idle" /\ time[f] < LastTime[f]
      /\ sender' = [sender EXCEPT ![f] = "loop"]
      /\ time' = [time EXCEPT ![f] = @ + 1]
      /\ expected' = [expected EXCEPT ![f] = Len(channels[f])]
      /\ channels' = channels /\ cursor' = cursor /\ channel' = channel /\ got' = got
      /\ worker' = worker /\ job' = job /\ play' = play
  BY DEF StartSend, runVars
<1>2. cursor[f] = 0
  BY <1>1 DEF Inv, SenderInv
<1>3. Len(channels[f]) \in Nat /\ time[f] \in Nat /\ LastTime[f] \in Nat
  BY LiveFeedAssumption, FeedFacts DEF Inv
<1>4. \A g \in LiveFeeds : /\ time'[g] = IF g = f THEN time[f] + 1 ELSE time[g]
                           /\ sender'[g] = IF g = f THEN "loop" ELSE sender[g]
                           /\ expected'[g] = IF g = f THEN Len(channels[f]) ELSE expected[g]
  BY <1>1 DEF Inv, TypeOK
<1>5. TypeOK'
  <2>1. /\ sender' \in [LiveFeeds -> {"idle", "loop", "suspended", "purge"}]
        /\ time' \in [LiveFeeds -> Nat] /\ expected' \in [LiveFeeds -> Nat]
    BY <1>1, <1>3 DEF Inv, TypeOK
  <2>2. \A g \in LiveFeeds : time'[g] <= LastTime[g]
    BY <1>1, <1>3, <1>4 DEF Inv, TypeOK
  <2>3. \A g \in LiveFeeds : sender'[g] # "idle" =>
            cursor'[g] <= Len(channels'[g]) /\ expected'[g] <= Len(channels'[g])
    BY <1>1, <1>2, <1>3, <1>4 DEF Inv, TypeOK
  <2>4. QED
    BY <1>1, <2>1, <2>2, <2>3 DEF Inv, TypeOK
<1>6. SenderInv'
  BY <1>1, <1>4 DEF Inv, SenderInv
<1>7. ListInv' /\ RunInv' /\ OpenRunsListed'
  BY <1>1 DEF Inv, ListInv, RunInv, OpenRunsListed, Listed
<1>8. LossInv'
  <2> SUFFICES ASSUME NEW g \in LiveFeeds, sender'[g] # "idle", InTimeframe(time'[g]),
                      NEW i \in 1..cursor[g], NEW r, r = channels[g][i]
               PROVE  Over(r)' \/ channel'[r].closed \/ Has(r, Event(g))'
    BY <1>1 DEF LossInv
  <2>1. g # f
    BY <1>2
  <2>2. sender[g] # "idle" /\ time'[g] = time[g]
    BY <1>4, <2>1
  <2>3. Over(r) \/ channel[r].closed \/ Has(r, Event(g))
    BY <2>2 DEF Inv, LossInv
  <2>4. QED
    BY <1>1, <2>2, <2>3 DEF Over, Has, Event
<1>9. \A r \in Runs : Sees(r)' = Sees(r)
  BY <1>1 DEF Sees
<1>10. InOrder'
  BY <1>9 DEF Inv, InOrder
<1>11. OrderInv'
  <2>1. ASSUME NEW r \in Runs, NEW i \in DOMAIN Sees(r), NEW e, e = Sees(r)[i]
        PROVE  /\ e.time <= time'[e.feed]
               /\ (e.time = time'[e.feed] /\ sender'[e.feed] # "idle") => Visited(r, e.feed)'
    <3>1. e.feed \in LiveFeeds /\ e.time \in Nat
      BY <2>1, SeesFacts DEF Inv
    <3>2. /\ e.time <= time[e.feed]
          /\ (e.time = time[e.feed] /\ sender[e.feed] # "idle") => Visited(r, e.feed)
      BY <2>1 DEF Inv, OrderInv
    <3>3. CASE e.feed = f
      BY <1>3, <1>4, <3>1, <3>2, <3>3
    <3>4. CASE e.feed # f
      BY <1>1, <1>4, <3>1, <3>2, <3>4 DEF Visited
    <3>5. QED
      BY <3>3, <3>4
  <2>2. QED
    BY <1>9, <2>1 DEF OrderInv, Visited
<1>12. QED
  BY <1>5, <1>6, <1>7, <1>8, <1>10, <1>11 DEF Inv

(* The event goes to the next channel of the list, and to no channel twice.*)
LEMMA SendToInv ==
    ASSUME Inv, NEW f \in LiveFeeds, SendTo(f)
    PROVE  Inv'
<1>1. PICK c, r, e : c = cursor[f] /\ r = channels[f][c + 1] /\ e = Event(f)
  OBVIOUS
<1>2. PICK ch : ch = Send(channel[r], e, time[f])
  OBVIOUS
<1>3. /\ sender[f] = "loop" /\ c < Len(channels[f])
      /\ channel' = [channel EXCEPT ![r] = ch]
      /\ \E p \in {"loop", "suspended"} : sender' = [sender EXCEPT ![f] = p]
      /\ cursor' = [cursor EXCEPT ![f] = c + 1]
      /\ channels' = channels /\ time' = time /\ expected' = expected /\ got' = got
      /\ worker' = worker /\ job' = job /\ play' = play
  BY <1>1, <1>2 DEF SendTo, runVars
<1>4. /\ c \in Nat /\ Len(channels[f]) \in Nat /\ DOMAIN channels[f] = 1..Len(channels[f])
      /\ c + 1 \in DOMAIN channels[f] /\ r \in Runs /\ time[f] \in Nat
  BY <1>1, <1>3, FeedFacts DEF Inv
<1>5. e \in Events /\ e.feed = f /\ e.time = time[f] /\ e = Event(f)'
  BY <1>1, <1>3, <1>4 DEF Event, Events
<1>6. /\ ch \in Channels(Events) /\ (channel[r].closed => ch.closed)
      /\ \/ ch.queue = Append(channel[r].queue, e) /\ ~channel[r].closed
         \/ ch.queue = channel[r].queue /\ (InTimeframe(time[f]) => channel[r].closed)
  <2>1. channel[r] \in Channels(Events)
    BY <1>4, RunFacts DEF Inv
  <2> DEFINE E == Events
  <2>2. channel[r] \in Channels(E) /\ e \in E
    BY <1>5, <2>1
  <2> HIDE DEF E
  <2>3. QED
    <3>1. PICK old, t : old = channel[r] /\ t = time[f]
      OBVIOUS
    <3>2. old \in Channels(E) /\ e \in E /\ t \in Nat /\ ch = Send(old, e, t)
      BY <1>2, <1>4, <2>2, <3>1
    <3>3. ch \in Channels(E)
      BY <3>2, SendFacts
    <3>4. old.closed => ch.closed
      BY <3>2, SendFacts
    <3>5. \/ ch.queue = Append(old.queue, e) /\ ~old.closed
          \/ ch.queue = old.queue /\ (InTimeframe(t) => old.closed)
      BY <3>2, SendFacts
    <3>6. QED
      BY <3>1, <3>3, <3>4, <3>5 DEF E
<1>7. /\ \A p \in Runs : channel'[p] = IF p = r THEN ch ELSE channel[p]
      /\ \A g \in LiveFeeds : /\ cursor'[g] = IF g = f THEN c + 1 ELSE cursor[g]
                              /\ g # f => sender'[g] = sender[g]
      /\ sender'[f] \in {"loop", "suspended"}
  BY <1>3 DEF Inv, TypeOK
<1>8. TypeOK'
  <2>1. channel' \in [Runs -> Channels(Events)]
    BY <1>3, <1>6 DEF Inv, TypeOK
  <2>2. /\ sender' \in [LiveFeeds -> {"idle", "loop", "suspended", "purge"}]
        /\ cursor' \in [LiveFeeds -> Nat]
    BY <1>3, <1>4 DEF Inv, TypeOK
  <2>3. \A g \in LiveFeeds : sender'[g] # "idle" =>
            cursor'[g] <= Len(channels'[g]) /\ expected'[g] <= Len(channels'[g])
    BY <1>3, <1>4, <1>7 DEF Inv, TypeOK
  <2>4. QED
    BY <1>3, <2>1, <2>2, <2>3 DEF Inv, TypeOK
<1>9. SenderInv'
  BY <1>3, <1>4, <1>7 DEF Inv, SenderInv
<1>10. \A p \in Runs : channel[p].closed => channel'[p].closed
  BY <1>6, <1>7
<1>11. ListInv' /\ RunInv' /\ OpenRunsListed'
  BY <1>3, <1>10 DEF Inv, ListInv, RunInv, OpenRunsListed, Listed
<1>12. PICK q, n, g : q = channel[r].queue /\ n = ch.queue /\ g = got[r]
  OBVIOUS
<1>13. q \in Seq(Events) /\ n \in Seq(Events) /\ g \in Seq(Events)
  <2>1. n \in Seq(Events)
    BY <1>6, <1>12 DEF Channels
  <2>2. QED
    BY <1>4, <1>12, <2>1, RunFacts DEF Inv
<1>14. \/ /\ Len(n) = Len(q) + 1 /\ n[Len(q) + 1] = e /\ \A i \in 1..Len(q) : n[i] = q[i]
          /\ ~channel[r].closed
       \/ n = q /\ (InTimeframe(time[f]) => channel[r].closed)
  <2>1. n = Append(q, e) => /\ Len(n) = Len(q) + 1 /\ n[Len(q) + 1] = e
                            /\ \A i \in 1..Len(q) : n[i] = q[i]
    BY <1>5, <1>13, AppendFacts
  <2>2. QED
    BY <1>6, <1>12, <2>1
<1>15. \A i \in DOMAIN q : i \in DOMAIN n /\ n[i] = q[i]
  BY <1>13, <1>14, SMTT(20)
<1>16. ASSUME NEW p \in Runs, NEW x, Has(p, x) PROVE Has(p, x)'
  <2>1. CASE p # r
    BY <1>3, <1>7, <1>16, <2>1 DEF Has
  <2>2. CASE p = r
    <3>1. (\E i \in DOMAIN g : g[i] = x) \/ (\E i \in DOMAIN q : q[i] = x)
      BY <1>12, <1>16, <2>2 DEF Has
    <3>2. got'[r] = g /\ channel'[r].queue = n
      BY <1>3, <1>4, <1>7, <1>12
    <3>3. (\E i \in DOMAIN g : g[i] = x) \/ (\E i \in DOMAIN n : n[i] = x)
      BY <1>15, <3>1
    <3>4. QED
      BY <2>2, <3>2, <3>3 DEF Has
  <2>3. QED
    BY <2>1, <2>2
<1>17. LossInv'
  <2> SUFFICES ASSUME NEW h \in LiveFeeds, sender'[h] # "idle", InTimeframe(time[h]),
                      NEW i \in 1..cursor'[h], NEW p, p = channels[h][i]
               PROVE  Over(p)' \/ channel'[p].closed \/ Has(p, Event(h))'
    BY <1>3 DEF LossInv
  <2>1. sender[h] # "idle"
    BY <1>3, <1>7
  <2>2. CASE i \in 1..cursor[h]
    <3>1. p \in Runs
      BY <2>1, <2>2, FeedFacts DEF Inv
    <3>2. Over(p) \/ channel[p].closed \/ Has(p, Event(h))
      BY <2>1, <2>2 DEF Inv, LossInv
    <3>3. PICK x : x = Event(h) /\ x = Event(h)'
      BY <1>3 DEF Event
    <3>4. Over(p)' \/ channel'[p].closed \/ Has(p, x)'
      BY <1>3, <1>10, <1>16, <3>1, <3>2, <3>3 DEF Over
    <3>5. QED
      BY <3>3, <3>4 DEF Has
  <2>3. CASE i \notin 1..cursor[h]
    <3>1. h = f /\ i = c + 1 /\ p = r
      <4>1. h = f
        BY <1>7, <2>3
      <4>2. i \in 1..c + 1 /\ i \notin 1..c
        BY <1>1, <1>7, <2>3, <4>1
      <4>3. i = c + 1
        BY <1>4, <4>2
      <4>4. QED
        BY <1>1, <4>1, <4>3
    <3>2. channel'[r].closed \/ Has(r, e)'
      <4>1. CASE channel[r].closed
        BY <1>4, <1>10, <4>1
      <4>2. CASE ~channel[r].closed
        <5>1. Len(q) + 1 \in DOMAIN n /\ n[Len(q) + 1] = e
          BY <1>13, <1>14, <3>1, <4>2
        <5>2. channel'[r].queue = n
          BY <1>4, <1>7, <1>12
        <5>3. QED
          BY <5>1, <5>2 DEF Has
      <4>3. QED
        BY <4>1, <4>2
    <3>3. QED
      BY <1>5, <3>1, <3>2 DEF Has
  <2>4. QED
    BY <2>2, <2>3
<1>18. \A h \in LiveFeeds : \A p \in Runs : Visited(p, h) => Visited(p, h)'
  <2> SUFFICES ASSUME NEW h \in LiveFeeds, NEW p \in Runs, NEW i \in 1..cursor[h],
                      channels[h][i] = p
               PROVE  Visited(p, h)'
    BY DEF Visited
  <2>1. i \in 1..cursor'[h]
    BY <1>1, <1>4, <1>7
  <2>2. QED
    BY <1>3, <2>1 DEF Visited
<1>19. Visited(r, f)' /\ ~Visited(r, f)
  <2>1. c + 1 \in 1..cursor'[f]
    BY <1>4, <1>7
  <2>2. ASSUME NEW i \in 1..c, channels[f][i] = r PROVE FALSE
    <3>1. i \in DOMAIN channels[f] /\ i # c + 1
      BY <1>3, <1>4
    <3>2. QED
      BY <1>1, <1>4, <2>2, <3>1 DEF Inv, ListInv
  <2>3. QED
    BY <1>1, <1>3, <2>1, <2>2 DEF Visited
<1>20. PICK a, b : a = Sees(r) /\ b = g \o n /\ a = g \o q
  BY <1>12 DEF Sees
<1>21. Sees(r)' = b /\ \A p \in Runs : p # r => Sees(p)' = Sees(p)
  BY <1>3, <1>4, <1>7, <1>12, <1>20 DEF Sees
<1>22. /\ DOMAIN a = 1..Len(a) /\ Len(a) \in Nat
       /\ \/ /\ DOMAIN b = 1..Len(a) + 1 /\ b[Len(a) + 1] = e
             /\ \A i \in 1..Len(a) : b[i] = a[i]
          \/ b = a
  <2>1. /\ DOMAIN a = 1..Len(g) + Len(q) /\ Len(g) \in Nat /\ Len(q) \in Nat /\ a \in Seq(Events)
        /\ DOMAIN b = 1..Len(g) + Len(n)
        /\ \A i \in 1..Len(g) : a[i] = g[i] /\ b[i] = g[i]
        /\ \A i \in 1..Len(q) : a[Len(g) + i] = q[i]
        /\ \A i \in 1..Len(n) : b[Len(g) + i] = n[i]
    BY <1>13, <1>20, ConcatFacts
  <2>2. Len(a) = Len(g) + Len(q)
    BY <2>1
  <2>3. CASE n = q
    BY <1>20, <2>1, <2>2, <2>3
  <2>4. CASE n # q
    <3>1. Len(n) = Len(q) + 1 /\ n[Len(q) + 1] = e /\ \A i \in 1..Len(q) : n[i] = q[i]
      BY <1>14, <2>4
    <3>2. Len(q) + 1 \in 1..Len(n) /\ Len(g) + (Len(q) + 1) = Len(a) + 1
      BY <2>1, <2>2, <3>1
    <3>3. b[Len(a) + 1] = e
      BY <2>1, <3>1, <3>2
    <3>4. DOMAIN b = 1..Len(a) + 1
      BY <2>1, <2>2, <3>1
    <3>5. ASSUME NEW i \in 1..Len(a) PROVE b[i] = a[i]
      <4>1. CASE i \in 1..Len(g)
        BY <2>1, <4>1
      <4>2. CASE i \notin 1..Len(g)
        <5>1. PICK j \in 1..Len(q) : i = Len(g) + j
          <6>1. i - Len(g) \in 1..Len(q) /\ i = Len(g) + (i - Len(g))
            BY <2>1, <2>2, <4>2
          <6>2. QED
            BY <6>1
        <5>2. j \in 1..Len(n) /\ n[j] = q[j]
          BY <2>1, <3>1
        <5>3. QED
          BY <2>1, <5>1, <5>2
      <4>3. QED
        BY <4>1, <4>2
    <3>6. QED
      BY <2>1, <2>2, <3>3, <3>4, <3>5
  <2>5. QED
    BY <2>3, <2>4
<1>23. \A i \in DOMAIN b : (i \in DOMAIN a /\ b[i] = a[i]) \/ (i = Len(a) + 1 /\ b[i] = e)
  BY <1>22
<1>24. ASSUME NEW p \in Runs, NEW i \in DOMAIN Sees(p)', NEW x, x = Sees(p)'[i]
       PROVE  /\ x.time <= time[x.feed]
              /\ (x.time = time[x.feed] /\ sender'[x.feed] # "idle") => Visited(p, x.feed)'
  <2>1. CASE i \in DOMAIN Sees(p) /\ x = Sees(p)[i]
    <3>1. x.feed \in LiveFeeds
      BY <2>1, SeesFacts DEF Inv
    <3>2. /\ x.time <= time[x.feed]
          /\ (x.time = time[x.feed] /\ sender[x.feed] # "idle") => Visited(p, x.feed)
      BY <2>1 DEF Inv, OrderInv
    <3>3. sender'[x.feed] # "idle" => sender[x.feed] # "idle"
      BY <1>3, <1>7, <3>1
    <3>4. QED
      BY <1>18, <3>1, <3>2, <3>3
  <2>2. CASE p = r /\ x = e
    BY <1>4, <1>5, <1>19, <2>2
  <2>3. QED
    BY <1>20, <1>21, <1>23, <1>24, <2>1, <2>2
<1>25. OrderInv'
  BY <1>3, <1>24 DEF OrderInv, Visited
<1>26. ASSUME NEW i \in DOMAIN a, a[i].feed = f PROVE a[i].time < time[f]
  <2>1. PICK x : x = a[i]
    OBVIOUS
  <2>2. x.feed = f /\ x.time <= time[f] /\ (x.time = time[f] => Visited(r, f))
    BY <1>3, <1>4, <1>20, <1>26, <2>1 DEF Inv, OrderInv
  <2>3. x.time \in Nat
    BY <1>4, <1>20, <2>1, SeesFacts DEF Inv
  <2>4. QED
    BY <1>4, <1>19, <2>1, <2>2, <2>3
<1>27. ASSUME NEW i \in DOMAIN b, NEW j \in DOMAIN b, i < j, b[i].feed = b[j].feed
       PROVE  b[i].time < b[j].time
  <2>1. i \in DOMAIN a /\ b[i] = a[i]
    BY <1>22, <1>27
  <2>2. CASE j \in DOMAIN a /\ b[j] = a[j]
    BY <1>4, <1>20, <1>27, <2>1, <2>2 DEF Inv, InOrder
  <2>3. CASE b[j] = e
    BY <1>5, <1>26, <1>27, <2>1, <2>3
  <2>4. QED
    BY <1>23, <2>2, <2>3
<1>28. InOrder'
  <2>1. ASSUME NEW p \in Runs, NEW i \in DOMAIN Sees(p)', NEW j \in DOMAIN Sees(p)', i < j,
               Sees(p)'[i].feed = Sees(p)'[j].feed
        PROVE  Sees(p)'[i].time < Sees(p)'[j].time
    <3>1. CASE p = r
      BY <1>21, <1>27, <2>1, <3>1
    <3>2. CASE p # r
      BY <1>21, <2>1, <3>2 DEF Inv, InOrder
    <3>3. QED
      BY <3>1, <3>2
  <2>2. QED
    BY <2>1 DEF InOrder
<1>29. QED
  BY <1>8, <1>9, <1>11, <1>17, <1>25, <1>28 DEF Inv

-----------------------------------------------------------------------------
(* A list changes behind the cursors of the sends that go on.              *)
LEMMA ListMoves ==
    ASSUME Inv, UNCHANGED <<time, channel, runVars, job>>,
           \A f \in LiveFeeds : sender'[f] # "idle" =>
                /\ sender[f] # "idle" /\ cursor'[f] = cursor[f]
                /\ \A i \in 1..cursor[f] : channels'[f][i] = channels[f][i]
    PROVE  LossInv' /\ OrderInv' /\ InOrder'
<1>1. time' = time /\ channel' = channel /\ got' = got /\ worker' = worker
  BY DEF runVars
<1>2. LossInv'
  BY <1>1, LossKept DEF Inv, Over, Has
<1>3. \A r \in Runs : Sees(r)' = Sees(r)
  BY <1>1 DEF Sees
<1>4. ASSUME NEW r \in Runs, NEW i \in DOMAIN Sees(r), NEW e, e = Sees(r)[i]
      PROVE  /\ e.time <= time[e.feed]
             /\ (e.time = time[e.feed] /\ sender'[e.feed] # "idle") => Visited(r, e.feed)'
  <2>1. e.feed \in LiveFeeds
    BY <1>4, SeesFacts DEF Inv
  <2>2. /\ e.time <= time[e.feed]
        /\ (e.time = time[e.feed] /\ sender[e.feed] # "idle") => Visited(r, e.feed)
    BY <1>4 DEF Inv, OrderInv
  <2>3. QED
    BY <2>1, <2>2 DEF Visited
<1>5. OrderInv' /\ InOrder'
  BY <1>1, <1>3, <1>4 DEF Inv, OrderInv, InOrder, Visited
<1>6. QED
  BY <1>2, <1>5

(* A run puts its channel at the end of a list it is not in yet.           *)
LEMMA AddChannelInv ==
    ASSUME Inv, NEW r \in Runs, NEW f \in Plays[r], AddChannel(r, f)
    PROVE  Inv'
<1>1. /\ play[r][f] = "launched" /\ channels' = [channels EXCEPT ![f] = Append(@, r)]
      /\ play' = [play EXCEPT ![r][f] = "added"]
      /\ sender' = sender /\ time' = time /\ cursor' = cursor /\ expected' = expected
      /\ channel' = channel /\ got' = got /\ worker' = worker /\ job' = job
  BY DEF AddChannel, senderVars, runVars
<1>2. PICK s, u, n : s = channels[f] /\ u = Append(s, r) /\ n = Len(s)
  OBVIOUS
<1>3. f \in LiveFeeds /\ s \in Seq(Runs)
  BY <1>2, RunFacts, FeedFacts DEF Inv
<1>4. /\ u \in Seq(Runs) /\ n \in Nat /\ Len(u) = n + 1 /\ DOMAIN s = 1..n
      /\ DOMAIN u = 1..n + 1 /\ u[n + 1] = r /\ \A i \in 1..n : u[i] = s[i]
  BY <1>2, <1>3, AppendFacts
<1>5. \A g \in LiveFeeds : channels'[g] = IF g = f THEN u ELSE channels[g]
  BY <1>1, <1>2 DEF Inv, TypeOK
<1>6. play[r] \in [Plays[r] -> {"new", "launched", "added", "waiting", "returned"}]
      /\ DOMAIN play = Runs
  BY DEF Inv, TypeOK
<1>7. \A q \in Runs : \A g \in Plays[q] :
        play'[q][g] = IF q = r /\ g = f THEN "added" ELSE play[q][g]
  BY <1>1, <1>6
<1>8. TypeOK'
  <2>1. channels' \in [LiveFeeds -> Seq(Runs)]
    BY <1>1, <1>2, <1>3, <1>4 DEF Inv, TypeOK
  <2>2. /\ DOMAIN play' = Runs
        /\ \A q \in Runs :
            play'[q] \in [Plays[q] -> {"new", "launched", "added", "waiting", "returned"}]
    BY <1>1 DEF Inv, TypeOK
  <2>3. \A g \in LiveFeeds : sender[g] # "idle" =>
            cursor[g] <= Len(channels'[g]) /\ expected[g] <= Len(channels'[g])
    <3> SUFFICES ASSUME NEW g \in LiveFeeds, sender[g] # "idle"
                 PROVE  cursor[g] <= Len(channels'[g]) /\ expected[g] <= Len(channels'[g])
      OBVIOUS
    <3>1. /\ cursor[g] <= Len(channels[g]) /\ expected[g] <= Len(channels[g])
          /\ cursor[g] \in Nat /\ expected[g] \in Nat
      BY FeedFacts DEF Inv
    <3>2. CASE g = f
      <4>1. channels'[g] = u /\ Len(u) = Len(channels[g]) + 1 /\ Len(channels[g]) \in Nat
        BY <1>2, <1>4, <1>5, <3>2
      <4>2. QED
        BY <3>1, <4>1
    <3>3. CASE g # f
      BY <1>5, <3>1, <3>3
    <3>4. QED
      BY <3>2, <3>3
  <2>4. QED
    BY <1>1, <2>1, <2>2, <2>3 DEF Inv, TypeOK
<1>9. SenderInv'
  BY <1>1 DEF Inv, SenderInv
<1>10. RunInv'
  BY <1>1, <1>7 DEF Inv, RunInv
<1>11. \A i \in DOMAIN s : s[i] # r
  BY <1>1, <1>2, <1>3 DEF Inv, ListInv, Listed
<1>12. \A p \in Runs : \A g \in LiveFeeds :
            /\ Listed(p, g) => Listed(p, g)'
            /\ Listed(p, g)' => Listed(p, g) \/ (p = r /\ g = f)
  <2> SUFFICES ASSUME NEW p \in Runs
               PROVE  /\ Listed(p, f) => Listed(p, f)'
                      /\ Listed(p, f)' => Listed(p, f) \/ p = r
    BY <1>5 DEF Listed
  <2>1. channels[f] = s /\ channels'[f] = u
    BY <1>2, <1>3, <1>5
  <2>2. \A i \in DOMAIN s : i \in DOMAIN u /\ u[i] = s[i]
    BY <1>4
  <2>3. \A i \in DOMAIN u : (i \in DOMAIN s /\ u[i] = s[i]) \/ u[i] = r
    BY <1>4
  <2>4. QED
    BY <2>1, <2>2, <2>3 DEF Listed
<1>13. ListInv'
  <2>1. ASSUME NEW i \in DOMAIN u, NEW j \in DOMAIN u, u[i] = u[j] PROVE i = j
    <3>1. \A k \in DOMAIN u : (k \in DOMAIN s /\ u[k] = s[k] /\ u[k] # r) \/ (k = n + 1 /\ u[k] = r)
      BY <1>4, <1>11
    <3>2. \A k, m \in DOMAIN s : s[k] = s[m] => k = m
      BY <1>2, <1>3 DEF Inv, ListInv
    <3>3. QED
      BY <2>1, <3>1, <3>2
  <2>2. \A g \in LiveFeeds : \A i, j \in DOMAIN channels'[g] :
            channels'[g][i] = channels'[g][j] => i = j
    BY <1>5, <2>1 DEF Inv, ListInv
  <2>3. \A g \in LiveFeeds : \A p \in Runs : Listed(p, g)' =>
            g \in Plays[p] /\ play'[p][g] \in {"added", "waiting", "returned"}
    BY <1>7, <1>12 DEF Inv, ListInv
  <2>4. QED
    BY <2>2, <2>3 DEF ListInv, Listed
<1>14. OpenRunsListed'
  <2>1. n + 1 \in DOMAIN channels'[f] /\ channels'[f][n + 1] = r
    BY <1>3, <1>4, <1>5
  <2>2. Listed(r, f)'
    BY <2>1 DEF Listed
  <2>3. ASSUME NEW p \in Runs, NEW g \in Plays[p],
               play'[p][g] \in {"added", "waiting", "returned"}
        PROVE  channel'[p].closed \/ Listed(p, g)'
    <3>1. CASE p = r /\ g = f
      BY <2>2, <3>1
    <3>2. CASE ~(p = r /\ g = f)
      <4>1. g \in LiveFeeds /\ play[p][g] \in {"added", "waiting", "returned"}
        BY <1>7, <2>3, <3>2, RunFacts DEF Inv
      <4>2. channel[p].closed \/ Listed(p, g)
        BY <4>1 DEF Inv, OpenRunsListed
      <4>3. QED
        BY <1>1, <1>12, <4>1, <4>2
    <3>3. QED
      BY <3>1, <3>2
  <2>4. QED
    BY <2>3 DEF OpenRunsListed, Listed
<1>15. LossInv' /\ OrderInv' /\ InOrder'
  <2>1. ASSUME NEW g \in LiveFeeds, sender'[g] # "idle"
        PROVE  /\ sender[g] # "idle" /\ cursor'[g] = cursor[g]
               /\ \A i \in 1..cursor[g] : channels'[g][i] = channels[g][i]
    <3>1. sender[g] # "idle" /\ cursor'[g] = cursor[g] /\ cursor[g] \in Nat
          /\ cursor[g] <= Len(channels[g])
      BY <1>1, <2>1, FeedFacts DEF Inv
    <3>2. CASE g = f
      <4>1. channels[g] = s /\ channels'[g] = u /\ n = Len(channels[g])
        BY <1>2, <1>5, <3>2
      <4>2. \A i \in 1..cursor[g] : i \in 1..n
        BY <1>4, <3>1, <4>1
      <4>3. QED
        BY <1>4, <3>1, <4>1, <4>2
    <3>3. CASE g # f
      BY <1>5, <3>1, <3>3
    <3>4. QED
      BY <3>2, <3>3
  <2>2. UNCHANGED <<time, channel, runVars, job>>
    BY <1>1 DEF runVars
  <2>3. QED
    BY <2>1, <2>2, ListMoves
<1>16. QED
  BY <1>8, <1>9, <1>10, <1>13, <1>14, <1>15 DEF Inv

(* The channels that are open stay in the list.                            *)
LEMMA PurgeChannelsInv ==
    ASSUME Inv, NEW f \in LiveFeeds, PurgeChannels(f)
    PROVE  Inv'
<1>1. PICK s, u : s = channels[f] /\ u = StillOpen(s)
  OBVIOUS
<1>2. /\ sender[f] = "purge" /\ channels' = [channels EXCEPT ![f] = u]
      /\ sender' = [sender EXCEPT ![f] = "idle"] /\ cursor' = [cursor EXCEPT ![f] = 0]
      /\ expected' = [expected EXCEPT ![f] = 0]
      /\ time' = time /\ channel' = channel /\ got' = got /\ worker' = worker
      /\ job' = job /\ play' = play
  BY <1>1 DEF PurgeChannels, Return, runVars
<1>3. /\ s \in Seq(Runs) /\ DOMAIN s = 1..Len(s)
      /\ \A i, j \in DOMAIN s : s[i] = s[j] => i = j
  BY <1>1, FeedFacts DEF Inv, ListInv
<1>4. OpenPart(u, Len(s), s)
  BY <1>1, <1>3, StillOpenFacts
<1>5. /\ u \in Seq(Runs) /\ \A i, j \in DOMAIN u : u[i] = u[j] => i = j
      /\ \A i \in DOMAIN u : \E j \in DOMAIN s : u[i] = s[j]
      /\ \A j \in DOMAIN s : channel[s[j]].closed \/ \E i \in DOMAIN u : u[i] = s[j]
  BY <1>3, <1>4 DEF OpenPart
<1>6. \A g \in LiveFeeds : /\ channels'[g] = IF g = f THEN u ELSE channels[g]
                           /\ sender'[g] = IF g = f THEN "idle" ELSE sender[g]
                           /\ cursor'[g] = IF g = f THEN 0 ELSE cursor[g]
                           /\ expected'[g] = IF g = f THEN 0 ELSE expected[g]
  BY <1>2 DEF Inv, TypeOK
<1>7. TypeOK'
  <2>1. channels' \in [LiveFeeds -> Seq(Runs)]
    BY <1>2, <1>5 DEF Inv, TypeOK
  <2>2. /\ sender' \in [LiveFeeds -> {"idle", "loop", "suspended", "purge"}]
        /\ cursor' \in [LiveFeeds -> Nat] /\ expected' \in [LiveFeeds -> Nat]
    BY <1>2 DEF Inv, TypeOK
  <2>3. \A g \in LiveFeeds : sender'[g] # "idle" =>
            cursor'[g] <= Len(channels'[g]) /\ expected'[g] <= Len(channels'[g])
    BY <1>6 DEF Inv, TypeOK
  <2>4. QED
    BY <1>2, <2>1, <2>2, <2>3 DEF Inv, TypeOK
<1>8. SenderInv' /\ RunInv'
  BY <1>2, <1>6 DEF Inv, SenderInv, RunInv
<1>9. \A p \in Runs : \A g \in LiveFeeds :
            /\ Listed(p, g)' => Listed(p, g)
            /\ Listed(p, g) => channel[p].closed \/ Listed(p, g)'
  <2> SUFFICES ASSUME NEW p \in Runs
               PROVE  /\ Listed(p, f)' => Listed(p, f)
                      /\ Listed(p, f) => channel[p].closed \/ Listed(p, f)'
    BY <1>6 DEF Listed
  <2>1. channels[f] = s /\ channels'[f] = u
    BY <1>1, <1>6
  <2>2. QED
    BY <1>5, <2>1 DEF Listed
<1>10. ListInv'
  <2>1. \A g \in LiveFeeds : \A i, j \in DOMAIN channels'[g] :
            channels'[g][i] = channels'[g][j] => i = j
    BY <1>5, <1>6 DEF Inv, ListInv
  <2>2. \A g \in LiveFeeds : \A p \in Runs : Listed(p, g)' =>
            g \in Plays[p] /\ play'[p][g] \in {"added", "waiting", "returned"}
    BY <1>2, <1>9 DEF Inv, ListInv
  <2>3. QED
    BY <2>1, <2>2 DEF ListInv, Listed
<1>11. OpenRunsListed'
  <2>1. ASSUME NEW p \in Runs, NEW g \in Plays[p],
               play'[p][g] \in {"added", "waiting", "returned"}
        PROVE  channel'[p].closed \/ Listed(p, g)'
    <3>1. g \in LiveFeeds
      BY RunFacts DEF Inv
    <3>2. channel[p].closed \/ Listed(p, g)
      BY <1>2, <2>1 DEF Inv, OpenRunsListed
    <3>3. QED
      BY <1>2, <1>9, <3>1, <3>2
  <2>2. QED
    BY <2>1 DEF OpenRunsListed, Listed
<1>12. LossInv' /\ OrderInv' /\ InOrder'
  <2>1. \A g \in LiveFeeds : sender'[g] # "idle" =>
                /\ sender[g] # "idle" /\ cursor'[g] = cursor[g]
                /\ \A i \in 1..cursor[g] : channels'[g][i] = channels[g][i]
    BY <1>6
  <2>2. UNCHANGED <<time, channel, runVars, job>>
    BY <1>2 DEF runVars
  <2>3. QED
    BY <2>1, <2>2, ListMoves
<1>13. QED
  BY <1>7, <1>8, <1>10, <1>11, <1>12 DEF Inv

-----------------------------------------------------------------------------
LEMMA InitInv ==
    ASSUME Init
    PROVE  Inv
<1>1. NewChannel \in Channels(Events) /\ NewChannel.queue = <<>>
  BY DEF NewChannel, Channels
<1>2. TypeOK
  BY <1>1, LiveFeedAssumption DEF Init, TypeOK
<1>3. SenderInv /\ ListInv /\ RunInv /\ OpenRunsListed /\ LossInv
  BY LiveFeedAssumption DEF Init, SenderInv, ListInv, Listed, RunInv, OpenRunsListed, LossInv
<1>4. \A r \in Runs : Sees(r) = <<>>
  <2>1. <<>> \o <<>> = <<>>
    OBVIOUS
  <2>2. QED
    BY <1>1, <2>1 DEF Init, Sees
<1>5. OrderInv /\ InOrder
  BY <1>4 DEF OrderInv, InOrder
<1>6. QED
  BY <1>2, <1>3, <1>5 DEF Inv

LEMMA NextInv ==
    ASSUME Inv, [Next]_vars
    PROVE  Inv'
<1>1. CASE \E f \in LiveFeeds : SenderStep(f)
  BY <1>1, SendToInv, ResumeSendInv, SendCrashesInv, EndLoopInv, PurgeChannelsInv
     DEF SenderStep
<1>2. CASE \E r \in Runs : WorkerStep(r) \/ JobStep(r)
  BY <1>2, ReceiveEventInv, EndRunInv, StartJobInv, NeverStartedInv, EndJobInv
     DEF WorkerStep, JobStep
<1>3. CASE \E r \in Runs : \E f \in Plays[r] : PlayStep(r, f)
  BY <1>3, AddChannelInv, PlayMovesInv DEF PlayStep
<1>4. CASE \E f \in LiveFeeds : StartSend(f)
  BY <1>4, StartSendInv
<1>5. CASE \E r \in Runs : StartRun(r) \/ TimeIsUp(r) \/ Abort(r)
  BY <1>5, StartRunInv, EndRunInv
<1>6. CASE UNCHANGED vars
  <2>1. /\ channels' = channels /\ sender' = sender /\ time' = time /\ cursor' = cursor
        /\ expected' = expected /\ channel' = channel /\ got' = got /\ worker' = worker
        /\ job' = job /\ play' = play
    BY <1>6 DEF vars, senderVars, runVars
  <2>2. TypeOK' /\ SenderInv' /\ RunInv'
    BY <2>1 DEF Inv, TypeOK, SenderInv, RunInv
  <2>3. ListInv' /\ OpenRunsListed'
    BY <2>1 DEF Inv, ListInv, OpenRunsListed, Listed
  <2>4. LossInv' /\ OrderInv' /\ InOrder'
    <3>1. \A f \in LiveFeeds : sender'[f] # "idle" =>
                /\ sender[f] # "idle" /\ cursor'[f] = cursor[f]
                /\ \A i \in 1..cursor[f] : channels'[f][i] = channels[f][i]
      BY <2>1
    <3>2. UNCHANGED <<time, channel, runVars, job>>
      BY <2>1 DEF runVars
    <3>3. QED
      BY <3>1, <3>2, ListMoves
  <2>5. QED
    BY <2>2, <2>3, <2>4 DEF Inv
<1>7. QED
  BY <1>1, <1>2, <1>3, <1>4, <1>5, <1>6 DEF Next, Progress

(* What every step of the feeds and of the runs preserves.                 *)
THEOREM Invariance == Spec => []Inv
<1>1. Init => Inv
  BY InitInv
<1>2. Inv /\ [Next]_vars => Inv'
  BY NextInv
<1>3. QED
  BY <1>1, <1>2, PTL DEF Spec

(* The shape of the feeds' and the runs' state: cursors and the length the *)
(* loop expects stay within the list while a send is under way.            *)
THEOREM TypeCorrect == Spec => []TypeOK
<1>1. Inv => TypeOK
  BY DEF Inv
<1>2. QED
  BY <1>1, Invariance, PTL

(* LiveFeed.sendAsync: a send that ends without an exception has given the *)
(* event to every run that was listed when it started, is not over and     *)
(* whose channel is open, however many runs came and went meanwhile.       *)
THEOREM NothingIsLost == Spec => []NoSilentLoss
<1>1. ASSUME Inv PROVE NoSilentLoss
  <2> SUFFICES ASSUME NEW f \in LiveFeeds, sender[f] = "purge", InTimeframe(time[f]),
                      NEW i \in 1..expected[f], NEW r, r = channels[f][i]
               PROVE  Over(r) \/ channel[r].closed \/ Has(r, Event(f))
    BY DEF NoSilentLoss
  <2>1. expected[f] <= cursor[f] /\ expected[f] \in Nat /\ cursor[f] \in Nat
    BY <1>1, FeedFacts DEF Inv, SenderInv
  <2>2. i \in 1..cursor[f]
    BY <2>1
  <2>3. QED
    BY <1>1, <2>2 DEF Inv, LossInv
<1>2. QED
  BY <1>1, Invariance, PTL

(* A run gets the events of each feed in the feed's order, and none twice, *)
(* also after a send that ended in a ConcurrentModificationException.      *)
THEOREM EventsInOrder == Spec => []InOrder
<1>1. Inv => InOrder
  BY DEF Inv
<1>2. QED
  BY <1>1, Invariance, PTL

(* sendAsync removes closed channels only: a run that has added its channel*)
(* to the list of a feed stays there until the channel is closed.          *)
THEOREM OpenRunsStayListed == Spec => []OpenRunsListed
<1>1. Inv => OpenRunsListed
  BY DEF Inv
<1>2. QED
  BY <1>1, Invariance, PTL
=============================================================================
