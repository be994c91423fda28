------------------------- MODULE CombinedFeedProofs -------------------------
(***************************************************************************)
(* The merge of a combined feed, for any number of feeds, any events and   *)
(* any capacities of the channels.                                         *)
(*                                                                         *)
(* That the merge holds an event of every feed that has one is not         *)
(* inductive. Holding says what it holds in each of its states: in         *)
(* prefill, of the feeds before source, and after a send, of all but       *)
(* source. What it holds is in the timeframe, as the channel of a feed     *)
(* lets nothing else through; so the merge never closes the channel of the *)
(* run, and only play() does, when nobody has anything left to send.       *)
(*                                                                         *)
(* With that the combination implements the stream of EventStream: an      *)
(* event the run takes is the earliest of what is left of all feeds.       *)
(***************************************************************************)
EXTENDS CombinedFeed, TLAPS

LegalTime(f, i) == Sub!InTimeframe(times[f][i])

(* The channel of feed f. A feed that is not suspended finds room for its  *)
(* next event; a suspended one waits for the last event of the queue.      *)
FeedShape ==
    /\ times \in Combinations
    /\ channels \in [Feeds -> Sub!Channels(Nat)]
    /\ feeds \in [Feeds -> {"new", "send", "suspended", "stopped"}]
    /\ next \in [Feeds -> Nat]

FeedInv(f) ==
    /\ next[f] \in 1..Len(times[f]) + 1
    /\ \A k \in 1..Len(channels[f].queue) :
        channels[f].queue[k] \in 1..next[f] - 1 /\ LegalTime(f, channels[f].queue[k])
    /\ feeds[f] # "suspended" => Len(channels[f].queue) <= ChannelCapacity
    /\ feeds[f] = "suspended" =>
        \/ Len(channels[f].queue) <= ChannelCapacity
        \/ /\ Len(channels[f].queue) = ChannelCapacity + 1
           /\ channels[f].queue[ChannelCapacity + 1] = next[f] - 1

FeedsInv == FeedShape /\ \A f \in Feeds : FeedInv(f)

(* The merge holds an event of f, or there is none left.                   *)
Covered(f) == (\E e \in queue : e.feed = f) \/ Sub!ReceiveFails(channels[f])

Holding ==
    /\ merge = "prefill" =>
        /\ \A e \in queue : e.feed < source
        /\ \A f \in Feeds : f < source => Covered(f)
    /\ merge = "send" => \A f \in Feeds : Covered(f)
    /\ merge \in {"suspended", "refill"} =>
        /\ \A e \in queue : e.feed # source
        /\ \A f \in Feeds : f # source => Covered(f)

MergeInv ==
    /\ merge \in {"new", "prefill", "send", "suspended", "refill", "stopped"}
    /\ source \in Feeds \cup {1}
    /\ merge \in {"prefill", "send", "suspended", "refill"} => source \in Feeds
    /\ queue \subseteq Events
    /\ \A e \in queue : LegalTime(e.feed, e.pos)
    /\ \A d, e \in queue : d.feed = e.feed => d = e
    /\ merge = "new" => queue = {} /\ source = 1
    /\ Holding

MainInv ==
    /\ mainChannel \in Main!Channels(Events)
    /\ merge # "suspended" => Len(mainChannel.queue) <= MainCapacity
    /\ Len(mainChannel.queue) <= MainCapacity + 1

(* As long as the run goes on, its channel is closed by play() only.       *)
EndInv ==
    /\ play \in {"new", "joining", "stopped"} /\ cancelled \in BOOLEAN
    /\ worker \in {"running", "finished", "aborted"} /\ handled \in Seq(Events)
    /\ play = "new" => merge = "new" /\ \A f \in Feeds : feeds[f] = "new"
    /\ worker = "running" =>
        /\ ~cancelled
        /\ merge = "stopped" => queue = {}
        /\ mainChannel.closed => AllStopped /\ queue = {}
    /\ worker = "finished" => AllStopped /\ queue = {}

Inv == FeedsInv /\ MergeInv /\ MainInv /\ EndInv

-----------------------------------------------------------------------------
LEMMA TimesFacts ==
    ASSUME times \in Combinations
    PROVE  /\ times \in Seq(Seq(Nat)) /\ Len(times) \in Nat /\ Len(times) <= MaxFeeds
           /\ Feeds = 1..Len(times)
           /\ \A f \in Feeds : times[f] \in Seq(Nat) /\ Len(times[f]) \in Nat
<1>1. times \in Seq(Seq(Nat)) /\ Len(times) <= MaxFeeds
  BY CombinedFeedAssumption
<1>2. QED
  BY <1>1 DEF Feeds

LEMMA EventFacts ==
    ASSUME times \in Combinations, NEW f \in Feeds, NEW i \in 1..Len(times[f])
    PROVE  /\ [feed |-> f, pos |-> i] \in Events
           /\ Time([feed |-> f, pos |-> i]) = times[f][i]
<1> DEFINE e == [feed |-> f, pos |-> i]
<1>1. DOMAIN times[f] = 1..Len(times[f])
  BY TimesFacts
<1>2. e \in {[feed |-> f, pos |-> j] : j \in DOMAIN times[f]}
  BY <1>1
<1>3. e \in Events
  BY <1>2 DEF Events
<1>4. QED
  BY <1>3 DEF Time

(* What a channel of either kind is after a send.                          *)
LEMMA SubSendFacts ==
    ASSUME NEW S, NEW ch \in Sub!Channels(S), NEW e \in S, NEW t \in Nat,
           ~Sub!SendFails(ch, t)
    PROVE  LET n == Sub!Send(ch, e, t)
           IN  /\ n \in Sub!Channels(S)
               /\ \/ n.queue = ch.queue
                  \/ n.queue = Append(ch.queue, e) /\ Sub!InTimeframe(t) /\ ~ch.closed
               /\ ch.closed => n.queue = ch.queue /\ n.closed
<1> DEFINE n == Sub!Send(ch, e, t)
<1>1. CASE Sub!InTimeframe(t) /\ ~ch.closed
  <2>1. ~Sub!AfterTimeframe(t)
    BY <1>1, CombinedFeedAssumption DEF Sub!InTimeframe, Sub!AfterTimeframe
  <2> DEFINE q == Append(ch.queue, e)
  <2>2. q \in Seq(S)
    BY DEF Sub!Channels
  <2>3. n = [ch EXCEPT !.queue = q]
    BY <1>1, <2>1 DEF Sub!Send
  <2> HIDE DEF n, q
  <2>4. n \in Sub!Channels(S) /\ n.queue = q
    BY <2>2, <2>3 DEF Sub!Channels
  <2>5. QED
    BY <1>1, <2>4 DEF n, q
<1>2. CASE ~(Sub!InTimeframe(t) /\ ~ch.closed)
  <2>1. n \in {ch, [ch EXCEPT !.closed = TRUE, !.locked = FALSE]}
    BY <1>2 DEF Sub!Send, Sub!Close
  <2> HIDE DEF n
  <2>2. n \in Sub!Channels(S) /\ n.queue = ch.queue /\ (ch.closed => n.closed)
    BY <2>1 DEF Sub!Channels
  <2>3. QED
    BY <2>2 DEF n
<1>3. QED
  BY <1>1, <1>2

LEMMA AppendFacts ==
    ASSUME NEW S, NEW q \in Seq(S), NEW e \in S
    PROVE  /\ Len(q) \in Nat /\ Len(Append(q, e)) = Len(q) + 1
           /\ \A k \in 1..Len(q) : Append(q, e)[k] = q[k]
           /\ Append(q, e)[Len(q) + 1] = e
OBVIOUS

LEMMA MainSendFacts ==
    ASSUME NEW S, NEW ch \in Main!Channels(S), NEW e \in S, NEW t \in Nat,
           Main!InTimeframe(t), ~Main!SendFails(ch, t)
    PROVE  LET n == Main!Send(ch, e, t)
           IN  n \in Main!Channels(S) /\ n.queue = Append(ch.queue, e) /\ n.closed = ch.closed
<1>1. ~ch.closed
  BY DEF Main!SendFails
<1>2. ~Main!AfterTimeframe(t)
  BY CombinedFeedAssumption DEF Main!InTimeframe, Main!AfterTimeframe
<1> DEFINE n == Main!Send(ch, e, t)
           q == Append(ch.queue, e)
<1>3. q \in Seq(S)
  BY DEF Main!Channels
<1>4. n = [ch EXCEPT !.queue = q]
  BY <1>1, <1>2 DEF Main!Send
<1> HIDE DEF n, q
<1>5. n \in Main!Channels(S) /\ n.queue = q /\ n.closed = ch.closed
  BY <1>3, <1>4 DEF Main!Channels
<1>6. QED
  BY <1>5 DEF n, q

LEMMA SubCloseFacts ==
    ASSUME NEW S, NEW ch \in Sub!Channels(S)
    PROVE  /\ Sub!Close(ch) \in Sub!Channels(S)
           /\ Sub!Close(ch).queue = ch.queue /\ Sub!Close(ch).closed
BY DEF Sub!Close, Sub!Channels

LEMMA MainCloseFacts ==
    ASSUME NEW S, NEW ch \in Main!Channels(S)
    PROVE  /\ Main!Close(ch) \in Main!Channels(S)
           /\ Main!Close(ch).queue = ch.queue /\ Main!Close(ch).closed
BY DEF Main!Close, Main!Channels

LEMMA SubReceiveFacts ==
    ASSUME NEW S, NEW ch \in Sub!Channels(S), Sub!CanReceive(ch)
    PROVE  LET n == Sub!Receive(ch)
           IN  /\ n \in Sub!Channels(S) /\ n.closed = ch.closed
               /\ Head(ch.queue) = ch.queue[1] /\ Len(n.queue) = Len(ch.queue) - 1
               /\ \A k \in 1..Len(n.queue) : n.queue[k] = ch.queue[k + 1]
<1>1. ch.queue \in Seq(S) /\ ch.queue # <<>>
  BY DEF Sub!Channels, Sub!CanReceive
<1> DEFINE n == Sub!Receive(ch)
<1>2. n = [ch EXCEPT !.queue = Tail(ch.queue)]
  BY DEF Sub!Receive
<1> HIDE DEF n
<1>3. n.queue = Tail(ch.queue) /\ n.closed = ch.closed
  BY <1>2 DEF Sub!Channels
<1>4. Tail(ch.queue) \in Seq(S)
  BY <1>1
<1>5. n \in Sub!Channels(S)
  BY <1>2, <1>4 DEF Sub!Channels
<1>6. QED
  BY <1>1, <1>3, <1>5 DEF n

LEMMA MainReceiveFacts ==
    ASSUME NEW S, NEW ch \in Main!Channels(S), Main!CanReceive(ch)
    PROVE  LET n == Main!Receive(ch)
           IN  /\ n \in Main!Channels(S) /\ n.closed = ch.closed
               /\ Head(ch.queue) \in S /\ Len(n.queue) = Len(ch.queue) - 1
<1>1. ch.queue \in Seq(S) /\ ch.queue # <<>>
  BY DEF Main!Channels, Main!CanReceive
<1> DEFINE n == Main!Receive(ch)
<1>2. n = [ch EXCEPT !.queue = Tail(ch.queue)]
  BY DEF Main!Receive
<1> HIDE DEF n
<1>3. n.queue = Tail(ch.queue) /\ n.closed = ch.closed
  BY <1>2 DEF Main!Channels
<1>4. Tail(ch.queue) \in Seq(S)
  BY <1>1
<1>5. n \in Main!Channels(S)
  BY <1>2, <1>4 DEF Main!Channels
<1>6. QED
  BY <1>1, <1>3, <1>5 DEF n

-----------------------------------------------------------------------------
(* What a step leaves alone.                                               *)
LEMMA FeedsKept ==
    ASSUME FeedsInv, UNCHANGED <<times, feedVars>>
    PROVE  FeedsInv'
BY DEF FeedsInv, FeedShape, FeedInv, LegalTime, Feeds, feedVars, Sub!InTimeframe, Sub!Channels

LEMMA MergeKept ==
    ASSUME MergeInv, UNCHANGED <<times, mergeVars>>,
           \A f \in Feeds : Sub!ReceiveFails(channels[f]) => Sub!ReceiveFails(channels[f])'
    PROVE  MergeInv'
<1>1. Feeds' = Feeds /\ Events' = Events
  BY DEF Feeds, Events
<1>2. \A f \in Feeds : Covered(f) => Covered(f)'
  BY DEF Covered, mergeVars
<1>3. Holding'
  BY <1>1, <1>2 DEF MergeInv, Holding, mergeVars
<1>4. QED
  BY <1>1, <1>3 DEF MergeInv, mergeVars, LegalTime, Sub!InTimeframe

LEMMA MainKept ==
    ASSUME MainInv, UNCHANGED <<times, mainChannel>>,
           merge' = "suspended" <=> merge = "suspended"
    PROVE  MainInv'
<1>1. Events' = Events
  BY DEF Events, Feeds
<1>2. QED
  BY <1>1 DEF MainInv, Main!Channels

(* The step of a feed that changes its channel to c.                       *)
LEMMA OneFeed ==
    ASSUME FeedsInv, UNCHANGED times, NEW f \in Feeds,
           NEW c \in Sub!Channels(Nat), channels' = [channels EXCEPT ![f] = c],
           \E s \in {"new", "send", "suspended", "stopped"} : feeds' = [feeds EXCEPT ![f] = s],
           \E n \in Nat : next' = [next EXCEPT ![f] = n],
           FeedInv(f)'
    PROVE  FeedsInv'
<1>1. Feeds' = Feeds
  BY DEF Feeds
<1>2. FeedShape'
  BY <1>1 DEF FeedsInv, FeedShape, Sub!Channels
<1>3. ASSUME NEW g \in Feeds, g # f PROVE FeedInv(g)'
  <2>1. channels'[g] = channels[g] /\ feeds'[g] = feeds[g] /\ next'[g] = next[g]
    BY <1>3 DEF FeedsInv, FeedShape
  <2>2. FeedInv(g)
    BY DEF FeedsInv
  <2>3. QED
    BY <2>1, <2>2 DEF FeedInv, LegalTime, Sub!InTimeframe
<1>4. QED
  BY <1>1, <1>2, <1>3 DEF FeedsInv

(* A feed that goes on keeps the run from being over.                      *)
LEMMA EndKept ==
    ASSUME EndInv, UNCHANGED <<times, mergeVars, mainChannel, play, workerVars>>,
           ~AllStopped, play # "new"
    PROVE  EndInv'
<1>1. Events' = Events /\ Feeds' = Feeds
  BY DEF Events, Feeds
<1>2. QED
  BY <1>1 DEF EndInv, mergeVars, workerVars

-----------------------------------------------------------------------------
(* The feeds                                                               *)
LEMMA SendEventInv ==
    ASSUME Inv, NEW f \in Feeds, SendEvent(f)
    PROVE  Inv'
<1> DEFINE ch == channels[f]
           t  == times[f][next[f]]
           c  == Sub!Send(ch, next[f], t)
<1>1. FeedInv(f) /\ FeedShape /\ ch \in Sub!Channels(Nat) /\ next[f] \in Nat
  BY DEF Inv, FeedsInv, FeedShape
<1>2. t \in Nat /\ Len(times[f]) \in Nat
  BY <1>1, TimesFacts, SMTT(20) DEF FeedShape, FeedInv, SendEvent
<1>3. /\ channels' = [channels EXCEPT ![f] = c] /\ ~Sub!SendFails(ch, t)
      /\ next' = [next EXCEPT ![f] = next[f] + 1]
      /\ feeds[f] = "send" /\ next[f] <= Len(times[f]) /\ UNCHANGED times
  BY <1>1 DEF SendEvent, FeedShape
<1>4. /\ c \in Sub!Channels(Nat)
      /\ \/ c.queue = ch.queue
         \/ c.queue = Append(ch.queue, next[f]) /\ Sub!InTimeframe(t) /\ ~ch.closed
      /\ ch.closed => c.queue = ch.queue /\ c.closed
  BY <1>1, <1>2, <1>3, SubSendFacts
<1> HIDE DEF c
<1>5. channels'[f] = c /\ next'[f] = next[f] + 1
  BY <1>1, <1>3 DEF FeedShape
<1>6. feeds' = [feeds EXCEPT ![f] = IF Sub!Buffered(c, next[f]) THEN "send" ELSE "suspended"]
  BY <1>1, <1>3, <1>5 DEF SendEvent, FeedShape
<1>7. feeds'[f] = IF Sub!Buffered(c, next[f]) THEN "send" ELSE "suspended"
  BY <1>1, <1>6 DEF FeedShape
<1>8. ch.queue \in Seq(Nat) /\ c.queue \in Seq(Nat) /\ Len(ch.queue) <= ChannelCapacity
  BY <1>1, <1>3, <1>4 DEF Sub!Channels, FeedInv
<1> DEFINE q == ch.queue
           n == c.queue
<1>9. /\ Len(q) \in Nat
      /\ \/ n = q
         \/ /\ Len(n) = Len(q) + 1 /\ n[Len(q) + 1] = next[f] /\ Sub!InTimeframe(t)
            /\ \A k \in 1..Len(q) : n[k] = q[k]
  BY <1>1, <1>4, <1>8, AppendFacts
<1> HIDE DEF n
<1>10. \/ Len(n) <= ChannelCapacity
       \/ Len(n) = ChannelCapacity + 1 /\ n[ChannelCapacity + 1] = next[f]
  BY <1>8, <1>9, CombinedFeedAssumption
<1>11. Sub!Buffered(c, next[f]) => Len(n) <= ChannelCapacity
  BY <1>10, CombinedFeedAssumption DEF Sub!Buffered, n
<1>12. FeedInv(f)'
  <2>1. next'[f] \in 1..Len(times'[f]) + 1
    BY <1>1, <1>2, <1>3, <1>5
  <2>2. \A k \in 1..Len(q) : q[k] \in 1..next[f] - 1 /\ Sub!InTimeframe(times[f][q[k]])
    BY <1>1 DEF FeedInv, LegalTime
  <2>3. \A k \in 1..Len(n) : n[k] \in 1..next[f] /\ Sub!InTimeframe(times[f][n[k]])
    <3>1. SUFFICES ASSUME NEW k \in 1..Len(n)
                   PROVE  n[k] \in 1..next[f] /\ Sub!InTimeframe(times[f][n[k]])
      OBVIOUS
    <3>2. CASE n = q
      BY <1>1, <2>2, <3>2
    <3>3. CASE k \in 1..Len(q) /\ n[k] = q[k]
      BY <1>1, <2>2, <3>3
    <3>4. CASE n[k] = next[f] /\ Sub!InTimeframe(t)
      BY <1>1, <3>4 DEF FeedInv
    <3>5. QED
      BY <1>9, <3>2, <3>3, <3>4
  <2>4. /\ feeds'[f] # "suspended" => Len(n) <= ChannelCapacity
        /\ feeds'[f] = "suspended" =>
            \/ Len(n) <= ChannelCapacity
            \/ Len(n) = ChannelCapacity + 1 /\ n[ChannelCapacity + 1] = next'[f] - 1
    BY <1>1, <1>5, <1>7, <1>10, <1>11
  <2>5. channels'[f].queue = n /\ times' = times /\ next'[f] - 1 = next[f]
    BY <1>1, <1>3, <1>5 DEF n
  <2>6. QED
    BY <2>1, <2>3, <2>4, <2>5 DEF FeedInv, LegalTime, Sub!InTimeframe
<1>13. FeedsInv'
  <2>1. \E s \in {"new", "send", "suspended", "stopped"} : feeds' = [feeds EXCEPT ![f] = s]
    BY <1>6
  <2>2. \E m \in Nat : next' = [next EXCEPT ![f] = m]
    <3>1. next[f] + 1 \in Nat
      BY <1>1
    <3>2. QED
      BY <1>3, <3>1
  <2>3. QED
    BY <1>3, <1>4, <1>12, <2>1, <2>2, OneFeed DEF Inv
<1>14. MergeInv'
  <2>1. Sub!ReceiveFails(ch) => Sub!ReceiveFails(c)
    BY <1>4 DEF Sub!ReceiveFails
  <2>2. \A g \in Feeds : Sub!ReceiveFails(channels[g]) => Sub!ReceiveFails(channels'[g])
    BY <1>1, <1>3, <2>1 DEF FeedShape
  <2>3. QED
    BY <2>2, MergeKept DEF Inv, SendEvent, Sub!ReceiveFails
<1>15. MainInv'
  BY MainKept DEF Inv, SendEvent, mergeVars
<1>16. EndInv'
  BY <1>3, EndKept DEF Inv, EndInv, SendEvent, AllStopped
<1>17. QED
  BY <1>13, <1>14, <1>15, <1>16 DEF Inv

LEMMA ResumeSendInv ==
    ASSUME Inv, NEW f \in Feeds, ResumeSend(f)
    PROVE  Inv'
<1>1. FeedInv(f) /\ FeedShape
  BY DEF Inv, FeedsInv
<1>2. /\ channels[f] \in Sub!Channels(Nat) /\ next[f] \in Nat
      /\ channels' = [channels EXCEPT ![f] = channels[f]]
      /\ next' = [next EXCEPT ![f] = next[f]]
      /\ feeds' = [feeds EXCEPT ![f] = "send"] /\ feeds'[f] = "send"
      /\ UNCHANGED <<times, channels, next>>
  BY <1>1 DEF ResumeSend, FeedShape
<1>3. Len(channels[f].queue) <= ChannelCapacity
  BY <1>1, <1>2, CombinedFeedAssumption, SMTT(20) DEF FeedInv, ResumeSend, Sub!Buffered
<1>4. FeedInv(f)'
  BY <1>1, <1>2, <1>3 DEF FeedInv, LegalTime, Sub!InTimeframe
<1>5. FeedsInv'
  BY <1>2, <1>4, OneFeed DEF Inv
<1>6. MergeInv'
  BY MergeKept DEF Inv, ResumeSend, Sub!ReceiveFails
<1>7. MainInv'
  BY MainKept DEF Inv, ResumeSend, mergeVars
<1>8. EndInv'
  BY EndKept DEF Inv, EndInv, ResumeSend, AllStopped
<1>9. QED
  BY <1>5, <1>6, <1>7, <1>8 DEF Inv

LEMMA EndFeedInv ==
    ASSUME Inv, NEW f \in Feeds, EndFeed(f)
    PROVE  Inv'
<1> DEFINE c == Sub!Close(channels[f])
<1>1. FeedInv(f) /\ FeedShape
  BY DEF Inv, FeedsInv
<1>2. /\ channels[f] \in Sub!Channels(Nat) /\ next[f] \in Nat
      /\ channels' = [channels EXCEPT ![f] = c]
      /\ next' = [next EXCEPT ![f] = next[f]]
      /\ feeds' = [feeds EXCEPT ![f] = "stopped"] /\ feeds'[f] = "stopped"
      /\ feeds[f] = "send" /\ UNCHANGED <<times, next>>
  BY <1>1 DEF EndFeed, FeedShape
<1>3. c \in Sub!Channels(Nat) /\ c.queue = channels[f].queue /\ c.closed
  BY <1>2, SubCloseFacts
<1> HIDE DEF c
<1>4. channels'[f] = c
  BY <1>1, <1>2 DEF FeedShape
<1>5. FeedInv(f)'
  BY <1>1, <1>2, <1>3, <1>4 DEF FeedInv, LegalTime, Sub!InTimeframe
<1>6. FeedsInv'
  BY <1>2, <1>3, <1>5, OneFeed DEF Inv
<1>7. MergeInv'
  <2>1. \A g \in Feeds : Sub!ReceiveFails(channels[g]) => Sub!ReceiveFails(channels'[g])
    BY <1>1, <1>2, <1>3 DEF FeedShape, Sub!ReceiveFails
  <2>2. QED
    BY <2>1, MergeKept DEF Inv, EndFeed, Sub!ReceiveFails
<1>8. MainInv'
  BY MainKept DEF Inv, EndFeed, mergeVars
<1>9. EndInv'
  BY <1>2, EndKept DEF Inv, EndInv, EndFeed, AllStopped
<1>10. QED
  BY <1>6, <1>7, <1>8, <1>9 DEF Inv

-----------------------------------------------------------------------------
(* The merge                                                               *)

(* After NextSource the merge holds an event of every feed it has to, when *)
(* it now holds one of the source s, or knows that there is none.          *)
LEMMA NextSourceHolds ==
    ASSUME Inv, NEW s \in Feeds, s = source,
           merge \in {"prefill", "refill"}, NextSource, UNCHANGED times,
           \A e \in queue' : e \in queue \/ e.feed = s,
           \A f \in Feeds : f # s => (Covered(f) => Covered(f)'),
           Covered(s)'
    PROVE  /\ Holding' /\ source' \in Feeds'
           /\ merge' \in {"prefill", "send"}
<1>1. Feeds = 1..Len(times) /\ Len(times) \in Nat /\ Feeds' = Feeds
  BY TimesFacts DEF Inv, FeedsInv, FeedShape, Feeds
<1>2. CASE merge = "prefill" /\ source < Len(times)
  <2>1. source' = s + 1 /\ merge' = "prefill"
    BY <1>2 DEF NextSource
  <2>2. \A f \in Feeds : f < s + 1 => Covered(f)'
    BY <1>1, <1>2 DEF Inv, MergeInv, Holding
  <2>3. \A e \in queue' : e.feed < s + 1
    BY <1>1, <1>2 DEF Inv, MergeInv, Holding, Events
  <2>4. QED
    BY <1>1, <1>2, <2>1, <2>2, <2>3 DEF Holding
<1>3. CASE ~(merge = "prefill" /\ source < Len(times))
  <2>1. source' = s /\ merge' = "send"
    BY <1>3 DEF NextSource
  <2>2. \A f \in Feeds : f # s => Covered(f)
    BY <1>1, <1>3 DEF Inv, MergeInv, Holding
  <2>3. QED
    BY <1>1, <2>1, <2>2 DEF Holding
<1>4. QED
  BY <1>2, <1>3

LEMMA FetchEventInv ==
    ASSUME Inv, FetchEvent
    PROVE  Inv'
<1>1. PICK s \in Feeds : s = source
  BY DEF Inv, MergeInv, FetchEvent
<1> DEFINE ch == channels[s]
           c  == Sub!Receive(ch)
           e  == [feed |-> s, pos |-> Head(ch.queue)]
<1>2. /\ FeedShape /\ FeedInv(s) /\ ch \in Sub!Channels(Nat) /\ next[s] \in Nat
  BY DEF Inv, FeedsInv, FeedShape
<1>3. /\ channels' = [channels EXCEPT ![s] = c] /\ queue' = queue \cup {e}
      /\ feeds' = [feeds EXCEPT ![s] = feeds[s]]
      /\ next' = [next EXCEPT ![s] = next[s]]
      /\ UNCHANGED <<times, feeds, next>> /\ Sub!CanReceive(ch)
      /\ merge \in {"prefill", "refill"} /\ NextSource
  BY <1>1, <1>2 DEF FetchEvent, FeedShape
<1>4. /\ c \in Sub!Channels(Nat) /\ c.closed = ch.closed
      /\ Head(ch.queue) = ch.queue[1] /\ Len(c.queue) = Len(ch.queue) - 1
      /\ \A k \in 1..Len(c.queue) : c.queue[k] = ch.queue[k + 1]
  BY <1>2, <1>3, SubReceiveFacts
<1>5. Len(ch.queue) \in Nat \ {0} /\ ch.queue \in Seq(Nat)
  BY <1>2, <1>3 DEF Sub!Channels, Sub!CanReceive
<1> HIDE DEF c
<1>6. channels'[s] = c /\ \A f \in Feeds \ {s} : channels'[f] = channels[f]
  BY <1>2, <1>3 DEF FeedShape
<1>7. Feeds' = Feeds /\ Events' = Events
  BY <1>3 DEF Feeds, Events
<1> DEFINE q == ch.queue
           n == c.queue
<1>8. \A k \in 1..Len(q) : q[k] \in 1..next[s] - 1 /\ Sub!InTimeframe(times[s][q[k]])
  BY <1>2 DEF FeedInv, LegalTime
<1>9. FeedInv(s)'
  <2> HIDE DEF q, n
  <2>1. \A k \in 1..Len(n) : k + 1 \in 1..Len(q) /\ n[k] = q[k + 1]
    BY <1>4, <1>5 DEF q, n
  <2>2. \A k \in 1..Len(n) : n[k] \in 1..next[s] - 1 /\ Sub!InTimeframe(times[s][n[k]])
    BY <1>8, <2>1
  <2>3. Len(q) <= ChannelCapacity + 1
    BY <1>2, <1>5, CombinedFeedAssumption DEF FeedInv, q
  <2>4. Len(n) <= ChannelCapacity
    BY <1>4, <1>5, <2>3, CombinedFeedAssumption DEF q, n
  <2>5. channels'[s].queue = n /\ next[s] \in 1..Len(times[s]) + 1
    BY <1>2, <1>6 DEF n, FeedInv
  <2>6. QED
    BY <1>3, <2>2, <2>4, <2>5 DEF FeedInv, LegalTime, Sub!InTimeframe
<1>10. FeedsInv'
  <2>1. \E t \in {"new", "send", "suspended", "stopped"} : feeds' = [feeds EXCEPT ![s] = t]
    BY <1>2, <1>3 DEF FeedShape
  <2>2. QED
    BY <1>2, <1>3, <1>4, <1>9, <2>1, OneFeed DEF Inv
<1>11. e \in Events /\ LegalTime(e.feed, e.pos) /\ e.feed = s
  <2>1. q[1] \in 1..next[s] - 1 /\ LegalTime(s, q[1])
    BY <1>5, <1>8 DEF LegalTime
  <2>2. q[1] \in 1..Len(times[s])
    BY <1>2, <2>1, TimesFacts, SMTT(20) DEF FeedInv, FeedShape
  <2>3. e = [feed |-> s, pos |-> q[1]]
    BY <1>4
  <2>4. QED
    BY <1>2, <2>1, <2>2, <2>3, EventFacts DEF FeedShape
<1> HIDE DEF e
<1>12. \A d \in queue : d.feed # s
  <2>1. \A d \in queue : merge = "prefill" => d.feed < s
    BY <1>1 DEF Inv, MergeInv, Holding
  <2>2. \A d \in queue : merge = "refill" => d.feed # s
    BY <1>1 DEF Inv, MergeInv, Holding
  <2>3. s \in Nat
    BY <1>2, TimesFacts DEF FeedShape
  <2>4. QED
    BY <1>3, <2>1, <2>2, <2>3
<1>13. MergeInv'
  <2>1. \A f \in Feeds : f # s => (Covered(f) => Covered(f)')
    BY <1>3, <1>6 DEF Covered, Sub!ReceiveFails
  <2>2. Covered(s)'
    BY <1>3, <1>11 DEF Covered
  <2>3. /\ Holding' /\ source' \in Feeds'
        /\ merge' \in {"prefill", "send"}
    BY <1>1, <1>3, <1>11, <2>1, <2>2, NextSourceHolds
  <2>4. /\ queue' \subseteq Events'
        /\ \A d, g \in queue' : d.feed = g.feed => d = g
    BY <1>3, <1>7, <1>11, <1>12 DEF Inv, MergeInv
  <2>5. \A d \in queue' : LegalTime(d.feed, d.pos)
    BY <1>3, <1>11 DEF Inv, MergeInv
  <2>6. QED
    BY <1>3, <2>3, <2>4, <2>5 DEF MergeInv, LegalTime, Sub!InTimeframe
<1>14. MainInv'
  <2>1. merge # "suspended" /\ merge' # "suspended"
    BY <1>3 DEF NextSource
  <2>2. QED
    BY <2>1, MainKept DEF Inv, FetchEvent
<1>15. EndInv'
  BY <1>3, <1>7 DEF Inv, EndInv, AllStopped, FetchEvent, NextSource, workerVars
<1>16. QED
  BY <1>10, <1>13, <1>14, <1>15 DEF Inv

LEMMA FetchNothingInv ==
    ASSUME Inv, FetchNothing
    PROVE  Inv'
<1>1. PICK s \in Feeds : s = source
  BY DEF Inv, MergeInv, FetchNothing
<1>2. /\ UNCHANGED <<times, feedVars, queue>> /\ Sub!ReceiveFails(channels[s])
      /\ merge \in {"prefill", "refill"} /\ NextSource
  BY <1>1 DEF FetchNothing
<1>3. Feeds' = Feeds /\ Events' = Events
  BY <1>2 DEF Feeds, Events
<1>4. FeedsInv'
  BY <1>2, FeedsKept DEF Inv
<1>5. MergeInv'
  <2>1. \A f \in Feeds : Covered(f) => Covered(f)'
    BY <1>2 DEF Covered, Sub!ReceiveFails, feedVars
  <2>2. Covered(s)
    BY <1>2 DEF Covered
  <2>3. /\ Holding' /\ source' \in Feeds'
        /\ merge' \in {"prefill", "send"}
    BY <1>1, <1>2, <2>1, <2>2, NextSourceHolds
  <2>4. QED
    BY <1>2, <1>3, <2>3 DEF Inv, MergeInv, LegalTime, Sub!InTimeframe
<1>6. MainInv'
  <2>1. merge # "suspended" /\ merge' # "suspended"
    BY <1>2 DEF NextSource
  <2>2. QED
    BY <2>1, MainKept DEF Inv, FetchNothing
<1>7. EndInv'
  BY <1>2, <1>3 DEF Inv, EndInv, AllStopped, FetchNothing, NextSource, workerVars
<1>8. QED
  BY <1>4, <1>5, <1>6, <1>7 DEF Inv

LEMMA SendEarliestInv ==
    ASSUME Inv, SendEarliest
    PROVE  Inv'
<1>1. PICK e \in queue :
        /\ \A q \in queue : Time(e) <= Time(q)
        /\ ~Main!SendFails(mainChannel, Time(e))
        /\ mainChannel' = Main!Send(mainChannel, e, Time(e))
        /\ merge' = IF Main!Buffered(mainChannel', e) THEN "refill" ELSE "suspended"
        /\ queue' = queue \ {e} /\ source' = e.feed
  BY DEF SendEarliest
<1>2. merge = "send" /\ UNCHANGED <<times, feedVars, play, workerVars>>
  BY DEF SendEarliest
<1>3. e \in Events /\ e.feed \in Feeds /\ LegalTime(e.feed, e.pos) /\ Time(e) \in Nat
  <2>1. e \in Events /\ LegalTime(e.feed, e.pos)
    BY DEF Inv, MergeInv
  <2>2. e.feed \in Feeds /\ e.pos \in DOMAIN times[e.feed]
    BY <2>1 DEF Events
  <2>3. times[e.feed] \in Seq(Nat)
    BY <2>2, TimesFacts DEF Inv, FeedsInv, FeedShape
  <2>4. QED
    BY <2>1, <2>2, <2>3 DEF Time
<1>4. Feeds' = Feeds /\ Events' = Events
  BY <1>2 DEF Feeds, Events
<1>5. FeedsInv'
  BY <1>2, FeedsKept DEF Inv
<1>6. MergeInv'
  <2>1. \A f \in Feeds : f # e.feed => Covered(f)'
    <3>1. \A f \in Feeds : Covered(f)
      BY <1>2 DEF Inv, MergeInv, Holding
    <3>2. QED
      BY <1>1, <1>2, <3>1 DEF Covered, Sub!ReceiveFails, feedVars
  <2>2. \A d \in queue' : d.feed # e.feed
    BY <1>1 DEF Inv, MergeInv
  <2>3. Holding'
    BY <1>1, <1>4, <2>1, <2>2 DEF Holding
  <2>4. QED
    BY <1>1, <1>2, <1>3, <1>4, <2>3 DEF Inv, MergeInv, LegalTime, Sub!InTimeframe
<1>7. MainInv' /\ mainChannel'.closed = mainChannel.closed
  <2> DEFINE ch == mainChannel
             c  == Main!Send(mainChannel, e, Time(e))
             q  == ch.queue
             n  == c.queue
  <2>1. Main!InTimeframe(Time(e))
    BY <1>3 DEF LegalTime, Time, Sub!InTimeframe, Main!InTimeframe
  <2>2. ch \in Main!Channels(Events) /\ Len(q) <= MainCapacity
    BY <1>2 DEF Inv, MainInv
  <2>3. c \in Main!Channels(Events) /\ n = Append(q, e) /\ c.closed = ch.closed
    BY <1>1, <1>3, <2>1, <2>2, MainSendFacts
  <2>4. q \in Seq(Events)
    BY <2>2 DEF Main!Channels
  <2>5. Len(q) \in Nat /\ Len(n) = Len(q) + 1 /\ n[Len(q) + 1] = e
    BY <1>3, <2>3, <2>4, AppendFacts
  <2>6. mainChannel' = c
    BY <1>1
  <2> HIDE DEF c, q
  <2>7. Len(n) <= MainCapacity + 1
    BY <2>2, <2>5, CombinedFeedAssumption
  <2>8. Main!Buffered(c, e) => Len(n) <= MainCapacity
    BY <2>2, <2>5, CombinedFeedAssumption DEF Main!Buffered
  <2>9. QED
    BY <1>1, <1>4, <2>3, <2>6, <2>7, <2>8 DEF MainInv, Main!Channels
<1>8. EndInv'
  <2>1. ~AllStopped
    BY <1>2 DEF AllStopped
  <2>2. merge' # "stopped"
    BY <1>1
  <2>3. QED
    BY <1>2, <1>4, <1>7, <2>1, <2>2 DEF Inv, EndInv, workerVars
<1>9. QED
  BY <1>5, <1>6, <1>7, <1>8 DEF Inv

LEMMA ResumeMergeInv ==
    ASSUME Inv, ResumeMerge
    PROVE  Inv'
<1>1. Feeds' = Feeds /\ Events' = Events
  BY DEF ResumeMerge, Feeds, Events
<1>2. FeedsInv'
  BY FeedsKept DEF Inv, ResumeMerge
<1>3. MergeInv'
  <2>1. \A f \in Feeds : Covered(f) => Covered(f)'
    BY DEF Covered, Sub!ReceiveFails, ResumeMerge, feedVars
  <2>2. Holding'
    BY <1>1, <2>1 DEF Inv, MergeInv, Holding, ResumeMerge
  <2>3. QED
    BY <1>1, <2>2 DEF Inv, MergeInv, ResumeMerge, LegalTime, Sub!InTimeframe
<1>4. MainInv'
  BY <1>1, CombinedFeedAssumption DEF Inv, MainInv, ResumeMerge, Main!Channels
<1>5. EndInv'
  BY <1>1 DEF Inv, EndInv, AllStopped, ResumeMerge, workerVars
<1>6. QED
  BY <1>2, <1>3, <1>4, <1>5 DEF Inv

(* The merge stops: it is out of events, or the run is over.               *)
LEMMA MergeStops ==
    ASSUME Inv, merge = "send", merge' = "stopped", queue' \subseteq queue,
           UNCHANGED <<times, feedVars, source, mainChannel, play, workerVars>>,
           queue' = {} \/ mainChannel.closed
    PROVE  Inv'
<1>1. Feeds' = Feeds /\ Events' = Events
  BY DEF Feeds, Events
<1>2. FeedsInv'
  BY FeedsKept DEF Inv
<1>3. MergeInv'
  BY <1>1 DEF Inv, MergeInv, Holding, LegalTime, Sub!InTimeframe
<1>4. MainInv'
  BY <1>1 DEF Inv, MainInv, Main!Channels
<1>5. EndInv'
  BY <1>1 DEF Inv, EndInv, AllStopped, workerVars
<1>6. QED
  BY <1>2, <1>3, <1>4, <1>5 DEF Inv

LEMMA MergeFailsInv ==
    ASSUME Inv, MergeFails
    PROVE  Inv'
<1>1. queue' \subseteq queue /\ mainChannel.closed
  BY DEF MergeFails, Main!SendFails
<1>2. QED
  BY <1>1, MergeStops DEF MergeFails

LEMMA EndMergeInv ==
    ASSUME Inv, EndMerge
    PROVE  Inv'
BY MergeStops DEF EndMerge

-----------------------------------------------------------------------------
(* play() and the worker                                                   *)
LEMMA StartPlayInv ==
    ASSUME Inv, StartPlay
    PROVE  Inv'
<1>1. Feeds' = Feeds /\ Events' = Events
  BY DEF StartPlay, Feeds, Events
<1>2. Feeds = 1..Len(times) /\ Len(times) \in Nat
  BY TimesFacts DEF Inv, FeedsInv, FeedShape
<1>3. merge = "new" /\ queue = {} /\ source = 1 /\ ~AllStopped
  BY DEF Inv, EndInv, MergeInv, StartPlay, AllStopped
<1>4. /\ UNCHANGED <<times, channels, next, source, queue, mainChannel, workerVars>>
      /\ feeds' = [f \in Feeds |-> "send"] /\ play' = "joining"
      /\ merge' = IF Feeds = {} THEN "stopped" ELSE "prefill"
  BY DEF StartPlay
<1>5. FeedsInv'
  <2>1. FeedShape'
    BY <1>1, <1>4 DEF Inv, FeedsInv, FeedShape, Sub!Channels
  <2>2. ASSUME NEW f \in Feeds PROVE FeedInv(f)'
    <3>1. feeds'[f] = "send" /\ FeedInv(f) /\ feeds[f] = "new"
      BY <1>4 DEF Inv, FeedsInv, EndInv, StartPlay
    <3>2. QED
      BY <1>4, <3>1 DEF FeedInv, LegalTime, Sub!InTimeframe
  <2>3. QED
    BY <1>1, <2>1, <2>2 DEF FeedsInv
<1>6. MergeInv'
  BY <1>1, <1>2, <1>3, <1>4 DEF Inv, MergeInv, Holding
<1>7. MainInv'
  BY <1>1, <1>3, <1>4 DEF Inv, MainInv, Main!Channels
<1>8. EndInv'
  BY <1>1, <1>3, <1>4 DEF Inv, EndInv, workerVars
<1>9. QED
  BY <1>5, <1>6, <1>7, <1>8 DEF Inv

LEMMA EndPlayInv ==
    ASSUME Inv, EndPlay
    PROVE  Inv'
<1>1. Feeds' = Feeds /\ Events' = Events
  BY DEF EndPlay, Feeds, Events
<1>2. FeedsInv'
  BY FeedsKept DEF Inv, EndPlay
<1>3. MergeInv'
  BY MergeKept DEF Inv, EndPlay, feedVars, Sub!ReceiveFails
<1>4. MainInv'
  <2> DEFINE c == Main!Close(mainChannel)
  <2>1. c \in Main!Channels(Events) /\ c.queue = mainChannel.queue
    BY MainCloseFacts DEF Inv, MainInv
  <2>2. mainChannel' = c /\ merge' = merge
    BY DEF EndPlay, mergeVars
  <2> HIDE DEF c
  <2>3. QED
    BY <1>1, <2>1, <2>2 DEF Inv, MainInv, Main!Channels
<1>5. EndInv'
  BY <1>1 DEF Inv, EndInv, AllStopped, EndPlay, mergeVars, feedVars, workerVars
<1>6. QED
  BY <1>2, <1>3, <1>4, <1>5 DEF Inv

(* What happens to the run and to play() does not concern feeds and merge. *)
LEMMA OthersKept ==
    ASSUME Inv, UNCHANGED <<times, feedVars, mergeVars>>
    PROVE  FeedsInv' /\ MergeInv'
<1>1. \A f \in Feeds : Sub!ReceiveFails(channels[f]) => Sub!ReceiveFails(channels[f])'
  BY DEF feedVars, Sub!ReceiveFails
<1>2. QED
  BY <1>1, FeedsKept, MergeKept DEF Inv

LEMMA NeverStartedInv ==
    ASSUME Inv, NeverStarted
    PROVE  Inv'
<1>1. Feeds' = Feeds /\ Events' = Events
  BY DEF NeverStarted, Feeds, Events
<1>2. FeedsInv' /\ MergeInv'
  BY OthersKept DEF NeverStarted
<1>3. MainInv'
  BY MainKept DEF Inv, NeverStarted, mergeVars
<1>4. EndInv'
  BY <1>1 DEF Inv, EndInv, AllStopped, NeverStarted, mergeVars, feedVars, workerVars
<1>5. QED
  BY <1>2, <1>3, <1>4 DEF Inv

LEMMA HandleEventInv ==
    ASSUME Inv, HandleEvent
    PROVE  Inv'
<1> DEFINE c == Main!Receive(mainChannel)
<1>1. Feeds' = Feeds /\ Events' = Events
  BY DEF HandleEvent, Feeds, Events
<1>2. FeedsInv' /\ MergeInv'
  BY OthersKept DEF HandleEvent
<1>3. /\ c \in Main!Channels(Events) /\ c.closed = mainChannel.closed
      /\ Head(mainChannel.queue) \in Events /\ Len(c.queue) = Len(mainChannel.queue) - 1
  BY MainReceiveFacts DEF Inv, MainInv, HandleEvent
<1>4. mainChannel' = c /\ UNCHANGED <<times, feedVars, mergeVars>>
  BY DEF HandleEvent
<1>5. Len(mainChannel.queue) \in Nat
  BY DEF Inv, MainInv, Main!Channels
<1> HIDE DEF c
<1>6. MainInv'
  BY <1>1, <1>3, <1>4, <1>5, CombinedFeedAssumption DEF Inv, MainInv, Main!Channels, mergeVars
<1>7. EndInv'
  <2>1. handled' \in Seq(Events)
    BY <1>3 DEF Inv, EndInv, HandleEvent
  <2>2. QED
    BY <1>1, <1>3, <1>4, <2>1
       DEF Inv, EndInv, AllStopped, HandleEvent, mergeVars, feedVars
<1>8. QED
  BY <1>2, <1>6, <1>7 DEF Inv

(* The worker ends: the channel is done, or the run is aborted.            *)
LEMMA EndRunInv ==
    ASSUME Inv, ChannelIsDone \/ Abort
    PROVE  Inv'
<1>1. Feeds' = Feeds /\ Events' = Events
  BY DEF ChannelIsDone, Abort, Feeds, Events
<1>2. FeedsInv' /\ MergeInv'
  BY OthersKept DEF ChannelIsDone, Abort
<1>3. MainInv'
  BY MainKept DEF Inv, ChannelIsDone, Abort, mergeVars
<1>4. EndInv'
  BY <1>1 DEF Inv, EndInv, AllStopped, ChannelIsDone, Abort, Main!ReceiveFails,
              mergeVars, feedVars
<1>5. QED
  BY <1>2, <1>3, <1>4 DEF Inv

LEMMA StutterInv ==
    ASSUME Inv, UNCHANGED vars
    PROVE  Inv'
<1>1. Feeds' = Feeds /\ Events' = Events
  BY DEF vars, Feeds, Events
<1>2. FeedsInv' /\ MergeInv'
  BY OthersKept DEF vars
<1>3. MainInv'
  BY MainKept DEF Inv, vars, mergeVars
<1>4. EndInv'
  BY <1>1 DEF Inv, EndInv, AllStopped, vars, mergeVars, feedVars, workerVars
<1>5. QED
  BY <1>2, <1>3, <1>4 DEF Inv

-----------------------------------------------------------------------------
LEMMA InitInv == Init => Inv
<1> SUFFICES ASSUME Init PROVE Inv
  OBVIOUS
<1>1. Feeds = 1..Len(times) /\ \A f \in Feeds : Len(times[f]) \in Nat
  BY TimesFacts DEF Init
<1>2. Sub!NewChannel \in Sub!Channels(Nat) /\ Sub!NewChannel.queue = <<>>
  BY DEF Sub!NewChannel, Sub!Channels
<1>3. /\ Main!NewChannel \in Main!Channels(Events)
      /\ Main!NewChannel.queue = <<>> /\ ~Main!NewChannel.closed
  BY DEF Main!NewChannel, Main!Channels
<1>4. FeedsInv
  <2>1. FeedShape
    BY <1>2 DEF Init, FeedShape
  <2>2. \A f \in Feeds : FeedInv(f)
    BY <1>1, <1>2, CombinedFeedAssumption DEF Init, FeedInv
  <2>3. QED
    BY <2>1, <2>2 DEF FeedsInv
<1>5. MergeInv
  BY DEF Init, MergeInv, Holding
<1>6. MainInv
  BY <1>3, CombinedFeedAssumption DEF Init, MainInv
<1>7. EndInv
  <2>1. <<>> \in Seq(Events)
    OBVIOUS
  <2>2. QED
    BY <1>3, <2>1 DEF Init, EndInv
<1>8. QED
  BY <1>4, <1>5, <1>6, <1>7 DEF Inv

LEMMA NextInv == Inv /\ [Next]_vars => Inv'
<1> SUFFICES ASSUME Inv, [Next]_vars PROVE Inv'
  OBVIOUS
<1>1. CASE \E f \in Feeds : FeedStep(f)
  BY <1>1, SendEventInv, ResumeSendInv, EndFeedInv DEF FeedStep
<1>2. CASE MergeStep
  BY <1>2, FetchEventInv, FetchNothingInv, SendEarliestInv, ResumeMergeInv,
     MergeFailsInv, EndMergeInv DEF MergeStep
<1>3. CASE PlayStep
  BY <1>3, StartPlayInv, NeverStartedInv, EndPlayInv DEF PlayStep
<1>4. CASE WorkerStep \/ Abort
  BY <1>4, HandleEventInv, EndRunInv DEF WorkerStep
<1>5. CASE UNCHANGED vars
  BY <1>5, StutterInv
<1>6. QED
  BY <1>1, <1>2, <1>3, <1>4, <1>5 DEF Next

-----------------------------------------------------------------------------
(* Every step of the feeds, of the merge, of play() and of the worker      *)
(* preserves the invariant.                                                *)
THEOREM Invariance == Spec => []Inv
<1>1. Init => Inv
  BY InitInv
<1>2. Inv /\ [Next]_vars => Inv'
  BY NextInv
<1>3. QED
  BY <1>1, <1>2, PTL DEF Spec

(* The shape of the state, for any number of feeds.                        *)
THEOREM TypeCorrect == Spec => []TypeOK
<1>1. ASSUME Inv PROVE TypeOK
  <2>1. /\ times \in Seq(Seq(Nat)) /\ Len(times) <= MaxFeeds
        /\ \A f \in Feeds : times[f] \in Seq(Nat) /\ Len(times[f]) \in Nat
    BY <1>1, TimesFacts DEF Inv, FeedsInv, FeedShape
  <2>2. ASSUME NEW f \in Feeds
        PROVE  /\ channels[f] \in Sub!Channels(DOMAIN times[f])
               /\ feeds[f] \in {"new", "send", "suspended", "stopped"}
               /\ next[f] \in 1..Len(times[f]) + 1
    <3>1. FeedInv(f) /\ FeedShape
      BY <1>1 DEF Inv, FeedsInv
    <3>2. DOMAIN times[f] = 1..Len(times[f])
      BY <2>1
    <3>3. channels[f] \in Sub!Channels(Nat) /\ next[f] \in Nat
      BY <3>1 DEF FeedShape
    <3> DEFINE q == channels[f].queue
    <3>4. q \in Seq(Nat) /\ Len(q) \in Nat
      BY <3>3 DEF Sub!Channels
    <3>5. \A k \in 1..Len(q) : q[k] \in 1..Len(times[f])
      BY <2>1, <3>1, <3>3, SMTT(20) DEF FeedInv
    <3>6. q \in Seq(1..Len(times[f]))
      <4> HIDE DEF q
      <4>1. PICK S : S = 1..Len(times[f])
        OBVIOUS
      <4>2. q = [k \in 1..Len(q) |-> q[k]] /\ \A k \in 1..Len(q) : q[k] \in S
        BY <3>4, <3>5, <4>1
      <4>3. q \in Seq(S)
        BY <3>4, <4>2
      <4>4. QED
        BY <4>1, <4>3
    <3>7. QED
      BY <3>1, <3>2, <3>3, <3>6 DEF Sub!Channels, FeedShape, FeedInv
  <2>3. QED
    BY <1>1, <2>1, <2>2 DEF Inv, MergeInv, MainInv, EndInv, TypeOK
<1>2. QED
  BY <1>1, Invariance, PTL

(* Whenever the merge picks an event it holds one of every feed that is    *)
(* not exhausted.                                                          *)
THEOREM MergeIsReady == Spec => []HoldsOnePerFeed
<1>1. Inv => HoldsOnePerFeed
  BY DEF Inv, MergeInv, Holding, Covered, HoldsOnePerFeed
<1>2. QED
  BY <1>1, Invariance, PTL

(* A run that finishes has left nothing behind.                            *)
THEOREM FinishedMeansDone == Spec => []NothingLeftBehind
<1>1. Inv => NothingLeftBehind
  BY DEF Inv, EndInv, NothingLeftBehind
<1>2. QED
  BY <1>1, Invariance, PTL

(* No channel ever holds more than its capacity and one sender's event.    *)
THEOREM LeadIsBounded == Spec => []BoundedLead
<1>1. ASSUME Inv PROVE BoundedLead
  <2>1. ASSUME NEW f \in Feeds PROVE Len(channels[f].queue) <= ChannelCapacity + 1
    <3>1. FeedInv(f) /\ channels[f] \in Sub!Channels(Nat)
      BY <1>1 DEF Inv, FeedsInv, FeedShape
    <3>2. Len(channels[f].queue) \in Nat
      BY <3>1 DEF Sub!Channels
    <3>3. QED
      BY <3>1, <3>2, CombinedFeedAssumption DEF FeedInv
  <2>2. QED
    BY <1>1, <2>1 DEF Inv, MainInv, BoundedLead
<1>2. QED
  BY <1>1, Invariance, PTL

-----------------------------------------------------------------------------
(* The stream of the run. What the merge has sent is what the worker has   *)
(* handled, followed by the queue of the channel of the run, so that       *)
(* handling an event does not change it. Every event of a feed is on its   *)
(* way: to be sent by the feed, in the channel of the feed, held by the    *)
(* merge, sent. And every event the merge has sent was the next one of the *)
(* stream after those it had sent before.                                  *)
Entry(f, i)   == [feed |-> f, pos |-> i]
Vis(f, i)     == Start <= times[f][i] /\ \A j \in 1..i : ~Sub!AfterTimeframe(times[f][j])
Sent          == handled \o mainChannel.queue
SentOf(f)     == {i \in DOMAIN times[f] : \E k \in DOMAIN Sent : Sent[k] = Entry(f, i)}
HeldOf(f)     == {i \in DOMAIN times[f] : Entry(f, i) \in queue}
WaitingOf(f)  == {channels[f].queue[k] : k \in DOMAIN channels[f].queue}

(* What was left of feed f when the merge sent its kth event.              *)
Rest(k, f) == {i \in DOMAIN times[f] : Vis(f, i) /\ \A m \in 1..k - 1 : Sent[m] # Entry(f, i)}

NextAt(k) ==
    /\ Sent[k].pos \in Rest(k, Sent[k].feed)
    /\ \A j \in Rest(k, Sent[k].feed) : Sent[k].pos <= j
    /\ \A g \in Feeds : \A j \in Rest(k, g) :
        (\A i \in Rest(k, g) : j <= i) => Time(Sent[k]) <= times[g][j]

PathInv(f) ==
    /\ \A i \in SentOf(f) :
        i < next[f] /\ (\A j \in HeldOf(f) : i < j) /\ \A j \in WaitingOf(f) : i < j
    /\ \A i \in HeldOf(f) : i < next[f] /\ Vis(f, i) /\ \A j \in WaitingOf(f) : i < j
    /\ \A i \in WaitingOf(f) : i < next[f] /\ Vis(f, i)
    /\ \A k, m \in 1..Len(channels[f].queue) :
        k < m => channels[f].queue[k] < channels[f].queue[m]
    /\ \A i \in 1..next[f] - 1 : Vis(f, i) => i \in SentOf(f) \cup HeldOf(f) \cup WaitingOf(f)
    /\ ~channels[f].closed => \A i \in 1..next[f] - 1 : ~Sub!AfterTimeframe(times[f][i])
    /\ channels[f].closed => \A i \in next[f]..Len(times[f]) : ~Vis(f, i)

StreamInv ==
    worker = "running" =>
        /\ \A f \in Feeds : PathInv(f)
        /\ merge = "stopped" => \A f \in Feeds : Sub!ReceiveFails(channels[f])
        /\ \A k \in 1..Len(Sent) : NextAt(k)

LEMMA PathFacts ==
    ASSUME Inv, NEW f \in Feeds
    PROVE  /\ Len(times[f]) \in Nat /\ DOMAIN times[f] = 1..Len(times[f])
           /\ \A i \in DOMAIN times[f] : times[f][i] \in Nat
           /\ next[f] \in 1..Len(times[f]) + 1 /\ next[f] \in Nat
           /\ channels[f] \in Sub!Channels(Nat) /\ channels[f].queue \in Seq(Nat)
           /\ Len(channels[f].queue) \in Nat
           /\ DOMAIN channels[f].queue = 1..Len(channels[f].queue)
           /\ \A k \in 1..Len(channels[f].queue) : channels[f].queue[k] \in WaitingOf(f)
           /\ WaitingOf(f) \subseteq 1..next[f] - 1 /\ WaitingOf(f) \subseteq 1..Len(times[f])
<1>1. FeedShape /\ FeedInv(f) /\ times[f] \in Seq(Nat)
  BY TimesFacts DEF Inv, FeedsInv, FeedShape
<1>2. channels[f] \in Sub!Channels(Nat) /\ next[f] \in Nat
  BY <1>1 DEF FeedShape
<1>3. channels[f].queue \in Seq(Nat)
  BY <1>2 DEF Sub!Channels
<1> DEFINE q == channels[f].queue
<1> HIDE DEF q
<1>4. Len(q) \in Nat /\ DOMAIN q = 1..Len(q)
  BY <1>3 DEF q
<1>5. \A k \in 1..Len(q) : q[k] \in 1..next[f] - 1
  BY <1>1 DEF FeedInv, q
<1>6. next[f] \in 1..Len(times[f]) + 1 /\ Len(times[f]) \in Nat /\ DOMAIN times[f] = 1..Len(times[f])
  BY <1>1 DEF FeedInv
<1>7. /\ \A k \in 1..Len(q) : q[k] \in WaitingOf(f)
      /\ WaitingOf(f) \subseteq 1..next[f] - 1
  BY <1>4, <1>5 DEF WaitingOf, q
<1>8. WaitingOf(f) \subseteq 1..Len(times[f])
  BY <1>2, <1>6, <1>7
<1>9. \A i \in DOMAIN times[f] : times[f][i] \in Nat
  BY <1>1, <1>6
<1>10. QED
  BY <1>2, <1>3, <1>4, <1>6, <1>7, <1>8, <1>9 DEF q

LEMMA SentFacts ==
    ASSUME Inv
    PROVE  /\ handled \in Seq(Events) /\ mainChannel.queue \in Seq(Events)
           /\ Sent \in Seq(Events) /\ Len(Sent) \in Nat /\ DOMAIN Sent = 1..Len(Sent)
           /\ Len(Sent) = Len(handled) + Len(mainChannel.queue)
           /\ Len(handled) \in Nat /\ Len(mainChannel.queue) \in Nat
           /\ \A k \in 1..Len(handled) : Sent[k] = handled[k]
           /\ \A k \in 1..Len(mainChannel.queue) : Sent[Len(handled) + k] = mainChannel.queue[k]
<1>1. handled \in Seq(Events) /\ mainChannel \in Main!Channels(Events)
  BY DEF Inv, EndInv, MainInv
<1>2. mainChannel.queue \in Seq(Events)
  BY <1>1 DEF Main!Channels
<1> DEFINE E == Events
           q == mainChannel.queue
<1> HIDE DEF E, q
<1>3. handled \in Seq(E) /\ q \in Seq(E) /\ Sent = handled \o q
  BY <1>1, <1>2 DEF E, q, Sent
<1>4. /\ Sent \in Seq(E) /\ Len(Sent) \in Nat /\ DOMAIN Sent = 1..Len(Sent)
      /\ Len(Sent) = Len(handled) + Len(q) /\ Len(handled) \in Nat /\ Len(q) \in Nat
      /\ \A k \in 1..Len(handled) : Sent[k] = handled[k]
      /\ \A k \in 1..Len(q) : Sent[Len(handled) + k] = q[k]
  BY <1>3
<1>5. QED
  BY <1>1, <1>2, <1>4 DEF E, q

LEMMA SentKept ==
    ASSUME UNCHANGED times, Sent' = Sent
    PROVE  /\ \A f : SentOf(f)' = SentOf(f)
           /\ \A k : NextAt(k) => NextAt(k)'
<1>1. \A k, f : Rest(k, f)' = Rest(k, f)
  BY DEF Rest, Vis, Entry
<1>2. \A k : NextAt(k) => NextAt(k)'
  BY <1>1 DEF NextAt, Time, Feeds
<1>3. \A f : SentOf(f)' = SentOf(f)
  BY DEF SentOf, Entry
<1>4. QED
  BY <1>2, <1>3

LEMMA PathKept ==
    ASSUME NEW f, PathInv(f), UNCHANGED times, SentOf(f)' = SentOf(f),
           HeldOf(f)' = HeldOf(f), channels'[f] = channels[f], next'[f] = next[f]
    PROVE  PathInv(f)'
<1>1. WaitingOf(f)' = WaitingOf(f) /\ \A i : Vis(f, i)' <=> Vis(f, i)
  BY DEF WaitingOf, Vis
<1>2. QED
  BY <1>1 DEF PathInv

(* A step that moves no event from one part of its way to the next.        *)
LEMMA StreamKept ==
    ASSUME StreamInv, UNCHANGED <<times, channels, next, queue>>, Sent' = Sent,
           worker' = "running" => worker = "running",
           worker' = "running" /\ merge' = "stopped"
             => merge = "stopped" \/ \A f \in Feeds : Sub!ReceiveFails(channels[f])
    PROVE  StreamInv'
<1> SUFFICES ASSUME worker' = "running"
             PROVE  /\ (\A f \in Feeds : PathInv(f))'
                    /\ merge' = "stopped" => (\A f \in Feeds : Sub!ReceiveFails(channels[f]))'
                    /\ (\A k \in 1..Len(Sent) : NextAt(k))'
  BY DEF StreamInv
<1>1. Feeds' = Feeds /\ \A f : HeldOf(f)' = HeldOf(f)
  BY DEF Feeds, HeldOf, Entry
<1>2. \A f \in Feeds : PathInv(f)'
  BY <1>1, SentKept, PathKept DEF StreamInv
<1>3. merge' = "stopped" => \A f \in Feeds : Sub!ReceiveFails(channels[f])
  BY DEF StreamInv
<1>4. merge' = "stopped" => \A f \in Feeds' : Sub!ReceiveFails(channels[f])'
  BY <1>1, <1>3 DEF Sub!ReceiveFails
<1>5. \A k \in 1..Len(Sent) : NextAt(k)'
  BY SentKept DEF StreamInv
<1>6. QED
  BY <1>1, <1>2, <1>4, <1>5

(* A step of feed f, with what it does to the way of its own events.       *)
LEMMA StreamOfFeed ==
    ASSUME Inv, StreamInv, NEW f \in Feeds, UNCHANGED <<times, mergeVars, mainChannel, workerVars>>,
           NEW c, channels' = [channels EXCEPT ![f] = c],
           NEW n, next' = [next EXCEPT ![f] = n],
           Sub!ReceiveFails(channels[f]) => Sub!ReceiveFails(c),
           PathInv(f) => PathInv(f)'
    PROVE  StreamInv'
<1> SUFFICES ASSUME worker = "running"
             PROVE  /\ (\A g \in Feeds : PathInv(g))'
                    /\ merge = "stopped" => (\A g \in Feeds : Sub!ReceiveFails(channels[g]))'
                    /\ (\A k \in 1..Len(Sent) : NextAt(k))'
  BY DEF StreamInv, workerVars, mergeVars
<1>1. /\ Feeds' = Feeds /\ \A g : HeldOf(g)' = HeldOf(g)
      /\ Sent' = Sent
  BY DEF Feeds, HeldOf, Entry, Sent, mergeVars, workerVars
<1>2. ASSUME NEW g \in Feeds, g # f
      PROVE  PathInv(g)' /\ channels'[g] = channels[g]
  <2>1. channels'[g] = channels[g] /\ next'[g] = next[g]
    BY <1>2 DEF Inv, FeedsInv, FeedShape
  <2>2. QED
    BY <1>1, <2>1, SentKept, PathKept DEF StreamInv
<1>3. PathInv(f)' /\ channels'[f] = c
  BY DEF StreamInv, Inv, FeedsInv, FeedShape
<1>4. merge = "stopped" => \A g \in Feeds : Sub!ReceiveFails(channels[g])'
  BY <1>2, <1>3 DEF StreamInv, Sub!ReceiveFails
<1>5. \A k \in 1..Len(Sent) : NextAt(k)'
  BY <1>1, SentKept DEF StreamInv
<1>6. QED
  BY <1>1, <1>2, <1>3, <1>4, <1>5

LEMMA SendEventStream ==
    ASSUME Inv, StreamInv, NEW f \in Feeds, SendEvent(f)
    PROVE  StreamInv'
<1> DEFINE ch == channels[f]
           t  == times[f][next[f]]
           c  == Sub!Send(ch, next[f], t)
           q  == ch.queue
           n  == c.queue
<1>1. /\ next[f] \in 1..Len(times[f]) /\ next[f] \in Nat /\ t \in Nat
      /\ ch \in Sub!Channels(Nat) /\ ~Sub!SendFails(ch, t) /\ Len(times[f]) \in Nat
      /\ DOMAIN times[f] = 1..Len(times[f])
      /\ q \in Seq(Nat) /\ Len(q) \in Nat /\ DOMAIN q = 1..Len(q)
      /\ \A k \in 1..Len(q) : q[k] \in WaitingOf(f)
      /\ WaitingOf(f) \subseteq 1..next[f] - 1
  BY PathFacts DEF SendEvent
<1>2. /\ channels' = [channels EXCEPT ![f] = c] /\ next' = [next EXCEPT ![f] = next[f] + 1]
      /\ channels'[f] = c /\ next'[f] = next[f] + 1
      /\ UNCHANGED <<times, mergeVars, mainChannel, workerVars>>
  BY DEF SendEvent, Inv, FeedsInv, FeedShape
<1>3. /\ ch.closed => n = q /\ c.closed
      /\ \/ n = q /\ ~Sub!InTimeframe(t) /\ c.closed = (ch.closed \/ Sub!AfterTimeframe(t))
         \/ n = Append(q, next[f]) /\ Sub!InTimeframe(t) /\ ~ch.closed /\ ~c.closed
  <2>1. CASE Sub!InTimeframe(t)
    <3>1. ~ch.closed /\ ~Sub!AfterTimeframe(t)
      BY <1>1, <2>1, CombinedFeedAssumption DEF Sub!SendFails, Sub!InTimeframe, Sub!AfterTimeframe
    <3> DEFINE a == Append(q, next[f])
    <3>2. c = [ch EXCEPT !.queue = a]
      BY <2>1, <3>1 DEF Sub!Send
    <3> HIDE DEF a, c
    <3>3. c.queue = a /\ c.closed = ch.closed
      BY <1>1, <3>2 DEF Sub!Channels
    <3>4. QED
      BY <2>1, <3>1, <3>3 DEF a
  <2>2. CASE ~Sub!InTimeframe(t) /\ Sub!AfterTimeframe(t)
    <3>1. c = Sub!Close(ch)
      BY <2>2 DEF Sub!Send
    <3> HIDE DEF c
    <3>2. c.queue = ch.queue /\ c.closed
      BY <1>1, <3>1, SubCloseFacts
    <3>3. QED
      BY <2>2, <3>2
  <2>3. CASE ~Sub!InTimeframe(t) /\ ~Sub!AfterTimeframe(t)
    <3>1. c = ch
      BY <2>3 DEF Sub!Send
    <3> HIDE DEF c
    <3>2. c.closed = (ch.closed \/ Sub!AfterTimeframe(t))
      BY <1>1, <2>3, <3>1 DEF Sub!Channels
    <3>3. QED
      BY <2>3, <3>1, <3>2
  <2>4. QED
    BY <2>1, <2>2, <2>3
<1> HIDE DEF c, q
<1>4. Sub!ReceiveFails(ch) => Sub!ReceiveFails(c)
  BY <1>3 DEF Sub!ReceiveFails, q
<1>5. \/ n = q /\ WaitingOf(f)' = WaitingOf(f)
      \/ /\ Len(n) = Len(q) + 1 /\ n[Len(q) + 1] = next[f]
         /\ \A k \in 1..Len(q) : n[k] = q[k]
         /\ WaitingOf(f)' = WaitingOf(f) \cup {next[f]}
         /\ Sub!InTimeframe(t) /\ ~ch.closed /\ ~c.closed
  <2>1. WaitingOf(f)' = {n[k] : k \in DOMAIN n} /\ WaitingOf(f) = {q[k] : k \in DOMAIN q}
    BY <1>2 DEF WaitingOf, q
  <2> HIDE DEF n, t, ch
  <2>2. CASE n = q
    BY <1>1, <2>1, <2>2
  <2>3. CASE n = Append(q, next[f]) /\ Sub!InTimeframe(t) /\ ~ch.closed /\ ~c.closed
    <3>1. /\ DOMAIN n = 1..Len(q) + 1 /\ Len(n) = Len(q) + 1 /\ n[Len(q) + 1] = next[f]
          /\ \A k \in 1..Len(q) : n[k] = q[k]
      BY <1>1, <2>3, AppendFacts
    <3>2. \A j \in WaitingOf(f)' : j \in WaitingOf(f) \cup {next[f]}
      BY <1>1, <2>1, <3>1, SMTT(20)
    <3>3. next[f] \in WaitingOf(f)'
      <4>1. Len(q) + 1 \in DOMAIN n
        BY <1>1, <3>1
      <4>2. QED
        BY <2>1, <3>1, <4>1
    <3>4. ASSUME NEW k \in DOMAIN q PROVE q[k] \in WaitingOf(f)'
      <4>1. k \in DOMAIN n /\ n[k] = q[k]
        BY <1>1, <3>1, <3>4
      <4>2. QED
        BY <2>1, <4>1
    <3>5. QED
      BY <2>1, <2>3, <3>1, <3>2, <3>3, <3>4
  <2>4. QED
    BY <1>3, <2>2, <2>3
<1>6. PathInv(f) => PathInv(f)'
  <2> SUFFICES ASSUME PathInv(f) PROVE PathInv(f)'
    OBVIOUS
  <2>1. /\ HeldOf(f)' = HeldOf(f) /\ SentOf(f)' = SentOf(f) /\ \A i : Vis(f, i)' <=> Vis(f, i)
        /\ HeldOf(f) \subseteq Nat /\ SentOf(f) \subseteq Nat
    <3>1. UNCHANGED <<times, queue, handled, mainChannel>>
      BY <1>2 DEF mergeVars, workerVars
    <3>2. HeldOf(f) \subseteq Nat /\ SentOf(f) \subseteq Nat
      BY <1>1 DEF HeldOf, SentOf
    <3>3. Sent' = Sent
      BY <3>1 DEF Sent
    <3>4. HeldOf(f)' = HeldOf(f) /\ \A i : Vis(f, i)' <=> Vis(f, i)
      BY <3>1 DEF HeldOf, Vis, Entry
    <3>5. SentOf(f)' = SentOf(f)
      BY <3>1, <3>3 DEF SentOf, Entry
    <3>6. QED
      BY <3>2, <3>4, <3>5
  <2>2. ~ch.closed => \A i \in 1..next[f] - 1 : ~Sub!AfterTimeframe(times[f][i])
    BY DEF PathInv
  <2>3. Sub!InTimeframe(t) <=> Start <= t /\ ~Sub!AfterTimeframe(t)
    BY <1>1, CombinedFeedAssumption DEF Sub!InTimeframe, Sub!AfterTimeframe
  <2>4. ~ch.closed /\ Sub!InTimeframe(t) => Vis(f, next[f])
    BY <1>1, <2>2, <2>3 DEF Vis
  <2>5. \A i \in WaitingOf(f)' : i \in WaitingOf(f) \/ (i = next[f] /\ Vis(f, next[f]))
    BY <1>5, <2>4
  <2>6. \A i \in SentOf(f) : i < next[f] + 1 /\ (\A j \in HeldOf(f) : i < j)
                              /\ \A j \in WaitingOf(f)' : i < j
    BY <1>1, <2>1, <2>5 DEF PathInv
  <2>7. \A i \in HeldOf(f) : i < next[f] + 1 /\ Vis(f, i) /\ \A j \in WaitingOf(f)' : i < j
    BY <1>1, <2>1, <2>5 DEF PathInv
  <2>8. \A i \in WaitingOf(f)' : i < next[f] + 1 /\ Vis(f, i)
    <3>1. \A i \in WaitingOf(f) : i < next[f] /\ Vis(f, i)
      BY DEF PathInv
    <3>2. \A i \in WaitingOf(f) : i < next[f] + 1
      BY <1>1
    <3>3. next[f] < next[f] + 1
      BY <1>1
    <3>4. QED
      BY <2>5, <3>1, <3>2, <3>3
  <2>9. \A k, m \in 1..Len(n) : k < m => n[k] < n[m]
    <3>1. \A k, m \in 1..Len(q) : k < m => q[k] < q[m]
      BY DEF q, PathInv
    <3>2. \A k \in 1..Len(q) : q[k] < next[f]
      BY <1>1
    <3> HIDE DEF n
    <3>3. CASE n = q
      BY <3>1, <3>3
    <3>4. CASE /\ Len(n) = Len(q) + 1 /\ n[Len(q) + 1] = next[f]
               /\ \A k \in 1..Len(q) : n[k] = q[k]
      <4>1. SUFFICES ASSUME NEW k \in 1..Len(n), NEW m \in 1..Len(n), k < m
                     PROVE  n[k] < n[m]
        OBVIOUS
      <4>2. k \in 1..Len(q) /\ n[k] = q[k] /\ (m \in 1..Len(q) \/ m = Len(q) + 1)
        <5>1. PICK l \in Nat : l = Len(q)
          BY <1>1
        <5>2. k \in 1..l + 1 /\ m \in 1..l + 1
          BY <3>4, <4>1, <5>1
        <5>3. k \in 1..l /\ (m \in 1..l \/ m = l + 1)
          BY <4>1, <5>2
        <5>4. QED
          BY <3>4, <5>1, <5>3
      <4>3. QED
        BY <3>1, <3>2, <3>4, <4>1, <4>2
    <3>5. QED
      BY <1>5, <3>3, <3>4
  <2>10. ASSUME NEW i \in 1..next[f], Vis(f, i)
         PROVE  i \in SentOf(f) \cup HeldOf(f) \cup WaitingOf(f)'
    <3>1. CASE i = next[f]
      <4>1. Sub!InTimeframe(t)
        BY <1>1, <2>3, <2>10, <3>1 DEF Vis
      <4>2. QED
        BY <1>3, <1>5, <3>1, <4>1
    <3>2. CASE i \in 1..next[f] - 1
      BY <1>5, <2>10, <3>2 DEF PathInv
    <3>3. QED
      BY <1>1, <3>1, <3>2
  <2>11. ASSUME ~c.closed, NEW i \in 1..next[f] PROVE ~Sub!AfterTimeframe(times[f][i])
    <3>1. ~ch.closed /\ ~Sub!AfterTimeframe(t)
      BY <1>3, <2>3, <2>11
    <3>2. QED
      BY <1>1, <2>2, <3>1
  <2>12. ASSUME c.closed, NEW i \in next[f] + 1..Len(times[f]) PROVE ~Vis(f, i)
    <3>1. ch.closed \/ Sub!AfterTimeframe(t)
      BY <1>3, <2>12
    <3>2. CASE ch.closed
      BY <1>1, <3>2 DEF PathInv
    <3>3. CASE Sub!AfterTimeframe(t)
      BY <1>1, <3>3 DEF Vis
    <3>4. QED
      BY <3>1, <3>2, <3>3
  <2>13. channels'[f].queue = n /\ channels'[f].closed = c.closed /\ next'[f] - 1 = next[f]
    BY <1>1, <1>2
  <2>14. QED
    BY <1>2, <2>1, <2>6, <2>7, <2>8, <2>9, <2>10, <2>11, <2>12, <2>13 DEF PathInv
<1>7. QED
  BY <1>2, <1>4, <1>6, StreamOfFeed

LEMMA EndFeedStream ==
    ASSUME Inv, StreamInv, NEW f \in Feeds, EndFeed(f)
    PROVE  StreamInv'
<1> DEFINE ch == channels[f]
           c  == Sub!Close(ch)
<1>1. /\ ch \in Sub!Channels(Nat) /\ next[f] \in Nat /\ Len(times[f]) \in Nat
      /\ ch.closed \/ next[f] > Len(times[f])
  BY PathFacts DEF EndFeed, Sub!SendFails
<1>2. c.queue = ch.queue /\ c.closed
  BY <1>1, SubCloseFacts
<1>3. /\ channels' = [channels EXCEPT ![f] = c] /\ channels'[f] = c
      /\ next' = [next EXCEPT ![f] = next[f]] /\ next'[f] = next[f]
      /\ UNCHANGED <<times, mergeVars, mainChannel, workerVars>>
  BY DEF EndFeed, Inv, FeedsInv, FeedShape
<1> HIDE DEF c
<1>4. Sub!ReceiveFails(ch) => Sub!ReceiveFails(c)
  BY <1>2 DEF Sub!ReceiveFails
<1>5. PathInv(f) => PathInv(f)'
  <2>1. UNCHANGED <<times, queue, handled, mainChannel>>
    BY <1>3 DEF mergeVars, workerVars
  <2>2. Sent' = Sent
    BY <2>1 DEF Sent
  <2>3. /\ HeldOf(f)' = HeldOf(f) /\ WaitingOf(f)' = WaitingOf(f)
        /\ \A i : Vis(f, i)' <=> Vis(f, i)
    BY <1>2, <1>3, <2>1 DEF HeldOf, WaitingOf, Vis, Entry
  <2>4. SentOf(f)' = SentOf(f)
    BY <2>1, <2>2 DEF SentOf, Entry
  <2>5. next[f] > Len(times[f]) => \A i \in next[f]..Len(times[f]) : ~Vis(f, i)
    BY <1>1
  <2>6. QED
    BY <1>1, <1>2, <1>3, <2>1, <2>3, <2>4, <2>5 DEF PathInv
<1>6. QED
  BY <1>3, <1>4, <1>5, StreamOfFeed

(* The event goes from the channel of the feed into the hands of the merge.*)
LEMMA FetchEventStream ==
    ASSUME Inv, StreamInv, FetchEvent
    PROVE  StreamInv'
<1>1. PICK s \in Feeds : s = source
  BY DEF Inv, MergeInv, FetchEvent
<1> DEFINE ch == channels[s]
           c  == Sub!Receive(ch)
           q  == ch.queue
           n  == c.queue
<1>2. /\ channels' = [channels EXCEPT ![s] = c] /\ queue' = queue \cup {Entry(s, Head(q))}
      /\ channels'[s] = c /\ \A g \in Feeds \ {s} : channels'[g] = channels[g]
      /\ UNCHANGED <<times, next, handled, mainChannel, worker>> /\ Sub!CanReceive(ch)
      /\ merge \in {"prefill", "refill"} /\ merge' # "stopped"
  BY <1>1 DEF FetchEvent, NextSource, Entry, workerVars, Inv, FeedsInv, FeedShape
<1>3. /\ ch \in Sub!Channels(Nat) /\ Len(q) \in Nat /\ DOMAIN q = 1..Len(q)
      /\ Len(times[s]) \in Nat /\ DOMAIN times[s] = 1..Len(times[s])
      /\ \A k \in 1..Len(q) : q[k] \in WaitingOf(s)
      /\ WaitingOf(s) \subseteq 1..Len(times[s])
  BY PathFacts
<1>4. /\ c \in Sub!Channels(Nat) /\ c.closed = ch.closed
      /\ Head(q) = q[1] /\ Len(n) = Len(q) - 1
      /\ \A k \in 1..Len(n) : n[k] = q[k + 1]
  BY <1>2, <1>3, SubReceiveFacts
<1>5. Len(q) # 0
  BY <1>2, <1>3 DEF Sub!CanReceive, Sub!Channels
<1>6. n \in Seq(Nat)
  BY <1>4 DEF Sub!Channels
<1> HIDE DEF c
<1>7. DOMAIN n = 1..Len(n) /\ Len(n) \in Nat
  BY <1>6
<1>8. WaitingOf(s)' = {n[k] : k \in DOMAIN n} /\ WaitingOf(s) = {q[k] : k \in DOMAIN q}
  BY <1>2 DEF WaitingOf
<1> HIDE DEF n, q, ch
<1>9. HeldOf(s) = {}
  <2>1. \A d \in queue : merge = "prefill" => d.feed < s
    BY <1>1 DEF Inv, MergeInv, Holding
  <2>2. \A d \in queue : merge = "refill" => d.feed # s
    BY <1>1 DEF Inv, MergeInv, Holding
  <2>3. s \in Nat
    BY TimesFacts DEF Inv, FeedsInv, FeedShape
  <2>4. \A d \in queue : d.feed # s
    BY <1>2, <2>1, <2>2, <2>3
  <2>5. QED
    BY <2>4 DEF HeldOf, Entry
<1>10. q[1] \in WaitingOf(s) /\ q[1] \in 1..Len(times[s])
  BY <1>3, <1>5
<1>11. HeldOf(s)' = {q[1]}
  <2>1. \A i : Entry(s, i) \in queue' <=> Entry(s, i) \in queue \/ i = q[1]
    BY <1>2, <1>4 DEF Entry
  <2>2. times'[s] = times[s] /\ \A i : Entry(s, i)' = Entry(s, i)
    BY <1>2 DEF Entry
  <2>3. QED
    BY <1>3, <1>9, <1>10, <2>1, <2>2 DEF HeldOf
<1>12. Sent' = Sent /\ Feeds' = Feeds
  BY <1>2 DEF Sent, Feeds
<1> SUFFICES ASSUME worker = "running"
             PROVE  /\ (\A g \in Feeds : PathInv(g))'
                    /\ (\A k \in 1..Len(Sent) : NextAt(k))'
  BY <1>2 DEF StreamInv
<1>13. ASSUME NEW g \in Feeds, g # s PROVE PathInv(g)'
  <2>1. HeldOf(g)' = HeldOf(g)
    BY <1>2, <1>13 DEF HeldOf, Entry
  <2>2. channels'[g] = channels[g] /\ next'[g] = next[g] /\ PathInv(g)
    BY <1>2, <1>13 DEF StreamInv
  <2>3. QED
    BY <1>2, <1>12, <2>1, <2>2, SentKept, PathKept
<1>14. PathInv(s)'
  <2>1. PathInv(s) /\ (\A k, m \in 1..Len(q) : k < m => q[k] < q[m])
    BY DEF StreamInv, PathInv, q, ch
  <2>2. \A j \in WaitingOf(s)' : j \in WaitingOf(s) /\ q[1] < j
    <3>1. SUFFICES ASSUME NEW k \in 1..Len(n) PROVE n[k] \in WaitingOf(s) /\ q[1] < n[k]
      BY <1>7, <1>8
    <3>2. k + 1 \in 1..Len(q) /\ 1 \in 1..Len(q) /\ 1 < k + 1 /\ n[k] = q[k + 1]
      BY <1>3, <1>4, <1>5, <3>1
    <3>3. QED
      BY <1>3, <2>1, <3>2
  <2>3. \A j \in WaitingOf(s) : j = q[1] \/ j \in WaitingOf(s)'
    <3>1. SUFFICES ASSUME NEW k \in 1..Len(q), k # 1 PROVE q[k] \in WaitingOf(s)'
      BY <1>3, <1>8
    <3>2. k - 1 \in DOMAIN n /\ n[k - 1] = q[k]
      BY <1>3, <1>4, <1>7, <3>1
    <3>3. QED
      BY <1>8, <3>2
  <2>4. \A k, m \in 1..Len(n) : k < m => n[k] < n[m]
    <3>1. SUFFICES ASSUME NEW k \in 1..Len(n), NEW m \in 1..Len(n), k < m PROVE n[k] < n[m]
      OBVIOUS
    <3>2. k + 1 \in 1..Len(q) /\ m + 1 \in 1..Len(q) /\ k + 1 < m + 1
      BY <1>3, <1>4, <1>5, <3>1
    <3>3. QED
      BY <1>4, <2>1, <3>2
  <2>5. SentOf(s)' = SentOf(s) /\ (\A i : Vis(s, i)' <=> Vis(s, i)) /\ next'[s] = next[s]
        /\ times' = times
    BY <1>2, <1>12, SentKept DEF Vis
  <2>6. channels'[s].queue = n /\ channels'[s].closed = channels[s].closed
    BY <1>2, <1>4 DEF n, ch
  <2>7. \A i \in SentOf(s) : i < next[s] /\ i < q[1] /\ \A j \in WaitingOf(s)' : i < j
    BY <1>10, <2>1, <2>2 DEF PathInv
  <2>8. q[1] < next[s] /\ Vis(s, q[1]) /\ \A i \in WaitingOf(s)' : i < next[s] /\ Vis(s, i)
    BY <1>10, <2>1, <2>2 DEF PathInv
  <2>9. \A i \in 1..next[s] - 1 : Vis(s, i) => i \in SentOf(s) \cup {q[1]} \cup WaitingOf(s)'
    BY <1>9, <2>1, <2>3 DEF PathInv
  <2>10. /\ ~channels[s].closed => \A i \in 1..next[s] - 1 : ~Sub!AfterTimeframe(times[s][i])
         /\ channels[s].closed => \A i \in next[s]..Len(times[s]) : ~Vis(s, i)
    BY <2>1 DEF PathInv
  <2>11. QED
    BY <1>11, <2>2, <2>4, <2>5, <2>6, <2>7, <2>8, <2>9, <2>10 DEF PathInv
<1>15. \A k \in 1..Len(Sent) : NextAt(k)'
  BY <1>2, <1>12, SentKept DEF StreamInv
<1>16. QED
  BY <1>12, <1>13, <1>14, <1>15

(* What is left of a feed starts with the event the merge holds of it.     *)
LEMMA HeldIsFirst ==
    ASSUME Inv, StreamInv, worker = "running", NEW g \in Feeds,
           NEW i \in DOMAIN times[g], Vis(g, i), i \notin SentOf(g)
    PROVE  /\ \A j \in HeldOf(g) : j <= i
           /\ ~Sub!ReceiveFails(channels[g]) \/ i \in HeldOf(g)
<1>1. /\ PathInv(g) /\ i \in 1..Len(times[g]) /\ Len(times[g]) \in Nat /\ next[g] \in Nat
      /\ \A j \in HeldOf(g) : j \in 1..Len(times[g])
      /\ \A j \in WaitingOf(g) : j \in 1..Len(times[g])
  BY PathFacts DEF StreamInv, HeldOf
<1>2. \A d, e \in queue : d.feed = e.feed => d = e
  BY DEF Inv, MergeInv
<1>3. \A j, k \in HeldOf(g) : j = k
  <2>1. ASSUME NEW j \in HeldOf(g), NEW k \in HeldOf(g) PROVE j = k
    <3>1. Entry(g, j) = Entry(g, k)
      BY <1>2, <2>1 DEF HeldOf, Entry
    <3>2. QED
      BY <3>1 DEF Entry
  <2>2. QED
    BY <2>1
<1>4. CASE i < next[g]
  <2>1. i \in HeldOf(g) \cup WaitingOf(g)
    BY <1>1, <1>4 DEF PathInv
  <2>2. \A j \in HeldOf(g) : j <= i
    BY <1>1, <1>3, <2>1 DEF PathInv
  <2>3. Sub!ReceiveFails(channels[g]) => WaitingOf(g) = {}
    BY DEF Sub!ReceiveFails, WaitingOf
  <2>4. QED
    BY <2>1, <2>2, <2>3
<1>5. CASE ~(i < next[g])
  <2>1. \A j \in HeldOf(g) : j <= i
    BY <1>1, <1>5 DEF PathInv
  <2>2. ~channels[g].closed
    BY <1>1, <1>5 DEF PathInv
  <2>3. QED
    BY <2>1, <2>2 DEF Sub!ReceiveFails
<1>6. QED
  BY <1>4, <1>5

LEMMA SentIsAppended ==
    ASSUME NEW S, NEW h \in Seq(S), NEW q \in Seq(S), NEW e \in S
    PROVE  h \o Append(q, e) = Append(h \o q, e)
<1> DEFINE l == h \o Append(q, e)
           r == Append(h \o q, e)
           n == Len(h) + Len(q) + 1
<1>1. /\ Len(h) \in Nat /\ Len(q) \in Nat
      /\ l \in Seq(S) /\ r \in Seq(S) /\ Len(l) = n /\ Len(r) = n
  OBVIOUS
<1>2. \A k \in 1..n : l[k] = r[k]
  OBVIOUS
<1> HIDE DEF l, r
<1>3. QED
  BY <1>1, <1>2 DEF l, r

LEMMA SendEarliestStream ==
    ASSUME Inv, StreamInv, SendEarliest
    PROVE  StreamInv'
<1>1. PICK e \in queue :
        /\ \A q \in queue : Time(e) <= Time(q)
        /\ ~Main!SendFails(mainChannel, Time(e))
        /\ mainChannel' = Main!Send(mainChannel, e, Time(e))
        /\ queue' = queue \ {e}
  BY DEF SendEarliest
<1>2. /\ merge = "send" /\ merge' # "stopped"
      /\ UNCHANGED <<times, channels, next, handled, worker>>
  BY DEF SendEarliest, feedVars, workerVars
<1>3. e \in Events /\ LegalTime(e.feed, e.pos)
  BY DEF Inv, MergeInv
<1>4. PICK f \in Feeds : \E i \in DOMAIN times[f] : e = Entry(f, i)
  BY <1>3 DEF Events, Entry
<1>5. PICK i \in DOMAIN times[f] : e = Entry(f, i)
  BY <1>4
<1>6. e.feed = f /\ e.pos = i /\ Time(e) = times[f][i] /\ times[f][i] \in Nat
  BY <1>5, PathFacts DEF Entry, Time
<1>7. mainChannel'.queue = Append(mainChannel.queue, e)
  <2>1. Main!InTimeframe(Time(e))
    BY <1>3, <1>6 DEF LegalTime, Sub!InTimeframe, Main!InTimeframe
  <2>2. mainChannel \in Main!Channels(Events)
    BY DEF Inv, MainInv
  <2>3. QED
    BY <1>1, <1>3, <1>6, <2>1, <2>2, MainSendFacts
<1> PICK n : n = Len(Sent)
  OBVIOUS
<1>8. Sent' = Append(Sent, e)
  <2> DEFINE E == Events
  <2>1. handled \in Seq(E) /\ mainChannel.queue \in Seq(E) /\ e \in E
    BY <1>3, SentFacts
  <2> HIDE DEF E
  <2>2. QED
    BY <1>2, <1>7, <2>1, SentIsAppended DEF Sent
<1>9. /\ n \in Nat /\ DOMAIN Sent = 1..n
      /\ Len(Sent)' = n + 1 /\ DOMAIN Sent' = 1..n + 1
      /\ Sent'[n + 1] = e /\ \A k \in 1..n : Sent'[k] = Sent[k]
  <2> DEFINE E == Events
  <2>1. Sent \in Seq(E) /\ e \in E
    BY <1>3, SentFacts
  <2> HIDE DEF E
  <2>2. QED
    BY <1>8, <2>1, AppendFacts
<1>10. Feeds' = Feeds /\ (\A g, j : Vis(g, j)' <=> Vis(g, j)) /\ (\A g, j : Entry(g, j)' = Entry(g, j))
  BY <1>2 DEF Feeds, Vis, Entry
<1> SUFFICES ASSUME worker = "running"
             PROVE  /\ (\A g \in Feeds : PathInv(g))'
                    /\ (\A k \in 1..Len(Sent) : NextAt(k))'
  BY <1>2 DEF StreamInv
<1>11. \A g, j : j \in SentOf(g)' <=> j \in SentOf(g) \/ (j \in DOMAIN times[g] /\ e = Entry(g, j))
  <2>1. ASSUME NEW g, NEW j
        PROVE  (\E k \in DOMAIN Sent' : Sent'[k] = Entry(g, j))
                 <=> (\E k \in DOMAIN Sent : Sent[k] = Entry(g, j)) \/ e = Entry(g, j)
    <3>1. n + 1 \in DOMAIN Sent' /\ DOMAIN Sent \subseteq DOMAIN Sent'
      BY <1>9
    <3>2. \A k \in DOMAIN Sent' : k = n + 1 \/ k \in DOMAIN Sent
      BY <1>9
    <3>3. QED
      BY <1>9, <3>1, <3>2
  <2>2. QED
    BY <1>2, <1>10, <2>1 DEF SentOf
<1>12. \A g, j : j \in HeldOf(g)' <=> j \in HeldOf(g) /\ e # Entry(g, j)
  BY <1>1, <1>2, <1>10 DEF HeldOf
<1>13. i \in HeldOf(f)
  BY <1>5 DEF HeldOf
<1>14. ASSUME NEW g \in Feeds PROVE PathInv(g)'
  <2>1. CASE g # f
    <3>1. \A j : e # Entry(g, j)
      BY <1>6, <2>1 DEF Entry
    <3>2. SentOf(g)' = SentOf(g) /\ HeldOf(g)' = HeldOf(g)
      BY <1>11, <1>12, <3>1
    <3>3. QED
      BY <1>2, <1>14, <3>2, PathKept DEF StreamInv
  <2>2. CASE g = f
    <3>1. PathInv(f)
      BY DEF StreamInv
    <3>2. \A j : e = Entry(f, j) <=> j = i
      BY <1>5 DEF Entry
    <3>3. /\ \A j : j \in SentOf(f)' <=> j \in SentOf(f) \/ j = i
          /\ \A j : j \in HeldOf(f)' <=> j \in HeldOf(f) /\ j # i
      BY <1>11, <1>12, <3>2
    <3>4. HeldOf(f) = {i}
      <4>1. \A j \in HeldOf(f) : Entry(f, j) = e
        BY <1>6 DEF HeldOf, Inv, MergeInv, Entry
      <4>2. QED
        BY <1>13, <3>2, <4>1
    <3>5. HeldOf(f)' = {} /\ SentOf(f)' = SentOf(f) \cup {i}
      BY <3>3, <3>4
    <3>6. WaitingOf(f)' = WaitingOf(f)
      BY <1>2 DEF WaitingOf
    <3>7. \A j \in SentOf(f) \cup {i} : j < next[f] /\ \A k \in WaitingOf(f) : j < k
      BY <3>1, <3>4 DEF PathInv
    <3>8. \A j \in 1..next[f] - 1 : Vis(f, j) => j \in SentOf(f) \cup {i} \cup WaitingOf(f)
      BY <3>1, <3>4 DEF PathInv
    <3>9. QED
      BY <1>2, <1>10, <2>2, <3>1, <3>5, <3>6, <3>7, <3>8 DEF PathInv
  <2>3. QED
    BY <2>1, <2>2
<1>15. \A k, g : k \in 1..n + 1 => Rest(k, g)' = Rest(k, g)
  <2>1. SUFFICES ASSUME NEW k \in 1..n + 1, NEW g PROVE Rest(k, g)' = Rest(k, g)
    OBVIOUS
  <2>2. \A m \in 1..k - 1 : Sent'[m] = Sent[m]
    BY <1>9
  <2>3. QED
    BY <1>2, <1>10, <2>2 DEF Rest
<1>16. \A g : Rest(n + 1, g) = {j \in DOMAIN times[g] : Vis(g, j) /\ j \notin SentOf(g)}
  <2>1. n + 1 - 1 = n
    BY <1>9
  <2>2. QED
    BY <1>9, <2>1 DEF Rest, SentOf
<1>17. NextAt(n + 1)'
  <2>1. i \in Rest(n + 1, f)
    <3>1. Vis(f, i) /\ (\A j \in SentOf(f) : j < i)
      BY <1>13 DEF StreamInv, PathInv
    <3>2. i \notin SentOf(f)
      <4>1. ~(i < i)
        BY PathFacts
      <4>2. QED
        BY <3>1, <4>1
    <3>3. QED
      BY <1>16, <3>1, <3>2
  <2>2. \A j \in Rest(n + 1, f) : i <= j
    BY <1>13, <1>16, HeldIsFirst
  <2>3. ASSUME NEW g \in Feeds, NEW j \in Rest(n + 1, g), \A k \in Rest(n + 1, g) : j <= k
        PROVE  Time(e) <= times[g][j]
    <3>1. j \in DOMAIN times[g] /\ Vis(g, j) /\ j \notin SentOf(g)
      BY <1>16, <2>3
    <3>2. j \in HeldOf(g)
      <4>1. Covered(g)
        BY <1>2 DEF Inv, MergeInv, Holding
      <4>2. CASE Sub!ReceiveFails(channels[g])
        BY <3>1, <4>2, HeldIsFirst
      <4>3. CASE \E d \in queue : d.feed = g
        <5>1. PICK d \in queue : d.feed = g
          BY <4>3
        <5>2. PICK k \in DOMAIN times[g] : d = Entry(g, k)
          BY <5>1 DEF Inv, MergeInv, Events, Entry
        <5>3. k \in HeldOf(g) /\ k <= j
          BY <3>1, <5>2, HeldIsFirst DEF HeldOf
        <5>4. Vis(g, k) /\ \A m \in SentOf(g) : m < k
          BY <5>3 DEF StreamInv, PathInv
        <5>5. k \notin SentOf(g)
          <6>1. ~(k < k)
            BY PathFacts
          <6>2. QED
            BY <5>4, <6>1
        <5>6. k \in Rest(n + 1, g)
          BY <1>16, <5>4, <5>5
        <5>7. j = k
          BY <2>3, <3>1, <5>3, <5>6, PathFacts
        <5>8. QED
          BY <5>3, <5>7
      <4>4. QED
        BY <4>1, <4>2, <4>3 DEF Covered
    <3>3. Entry(g, j) \in queue /\ Time(Entry(g, j)) = times[g][j]
      BY <3>2 DEF HeldOf, Time, Entry
    <3>4. QED
      BY <1>1, <3>3
  <2>4. n + 1 \in 1..n + 1 /\ \A g : Rest(n + 1, g)' = Rest(n + 1, g)
    BY <1>9, <1>15
  <2>5. Time(e)' = Time(e)
    BY <1>2 DEF Time
  <2>6. QED
    BY <1>2, <1>6, <1>9, <1>10, <2>1, <2>2, <2>3, <2>4, <2>5 DEF NextAt, Time
<1>18. \A k \in 1..n : NextAt(k)'
  <2>1. SUFFICES ASSUME NEW k \in 1..n PROVE NextAt(k)'
    OBVIOUS
  <2>2. NextAt(k) /\ Sent'[k] = Sent[k] /\ \A g : Rest(k, g)' = Rest(k, g)
    BY <1>9, <1>15, <2>1 DEF StreamInv
  <2>3. QED
    BY <1>2, <1>10, <2>2 DEF NextAt, Time
<1>19. QED
  BY <1>9, <1>10, <1>14, <1>17, <1>18

LEMMA SentIsHandled ==
    ASSUME NEW S, NEW h \in Seq(S), NEW q \in Seq(S), q # <<>>
    PROVE  Append(h, Head(q)) \o Tail(q) = h \o q
<1> DEFINE l == Append(h, Head(q)) \o Tail(q)
           r == h \o q
           n == Len(h) + Len(q)
<1>1. Len(h) \in Nat /\ Len(q) \in Nat /\ Len(q) >= 1 /\ Head(q) \in S /\ Tail(q) \in Seq(S)
  OBVIOUS
<1>2. l \in Seq(S) /\ r \in Seq(S) /\ Len(l) = n /\ Len(r) = n
  OBVIOUS
<1>3. ASSUME NEW k \in 1..n PROVE l[k] = r[k]
  <2>1. CASE k <= Len(h)
    BY <1>1, <2>1
  <2>2. CASE k = Len(h) + 1
    BY <1>1, <2>2
  <2>3. CASE k > Len(h) + 1
    BY <1>1, <2>3
  <2>4. QED
    BY <1>1, <2>1, <2>2, <2>3
<1> HIDE DEF l, r
<1>4. QED
  BY <1>2, <1>3 DEF l, r

LEMMA HandleEventStream ==
    ASSUME Inv, StreamInv, HandleEvent
    PROVE  StreamInv'
<1>1. Sent' = Sent
  <2> DEFINE E == Events
             q == mainChannel.queue
  <2>1. handled \in Seq(E) /\ q \in Seq(E) /\ q # <<>>
    BY SentFacts DEF HandleEvent, Main!CanReceive
  <2>2. handled' = Append(handled, Head(q)) /\ mainChannel'.queue = Tail(q)
    BY DEF HandleEvent, Main!Receive, Inv, MainInv, Main!Channels
  <2>3. Append(handled, Head(q)) \o Tail(q) = handled \o q
    <3> HIDE DEF E, q
    <3>1. QED
      BY <2>1, SentIsHandled
  <2>4. QED
    BY <2>2, <2>3 DEF Sent
<1>2. QED
  BY <1>1, StreamKept DEF HandleEvent, feedVars, mergeVars

LEMMA OtherStepsStream ==
    ASSUME Inv, StreamInv,
           \/ \E f \in Feeds : ResumeSend(f)
           \/ FetchNothing \/ ResumeMerge \/ MergeFails \/ EndMerge
           \/ PlayStep \/ ChannelIsDone \/ Abort \/ UNCHANGED vars
    PROVE  StreamInv'
<1>1. CASE MergeFails \/ ChannelIsDone \/ Abort
  <2>1. worker' # "running"
    <3>1. ~(MergeFails /\ worker = "running")
      BY DEF MergeFails, Main!SendFails, Inv, EndInv, AllStopped
    <3>2. QED
      BY <1>1, <3>1 DEF MergeFails, ChannelIsDone, Abort, workerVars
  <2>2. QED
    BY <2>1 DEF StreamInv
<1>2. CASE EndPlay
  <2>1. mainChannel'.queue = mainChannel.queue
    BY <1>2, MainCloseFacts DEF EndPlay, Inv, MainInv
  <2>2. Sent' = Sent
    BY <1>2, <2>1 DEF Sent, EndPlay, workerVars
  <2>3. QED
    BY <1>2, <2>2, StreamKept DEF EndPlay, workerVars, feedVars, mergeVars
<1>3. CASE \/ \E f \in Feeds : ResumeSend(f)
           \/ FetchNothing \/ ResumeMerge \/ EndMerge
           \/ StartPlay \/ NeverStarted \/ UNCHANGED vars
  <2>1. UNCHANGED <<times, channels, next, queue, mainChannel, workerVars>>
    BY <1>3 DEF ResumeSend, FetchNothing, ResumeMerge, EndMerge, StartPlay, NeverStarted, vars,
                feedVars, mergeVars
  <2>2. Sent' = Sent /\ worker' = worker
    BY <2>1 DEF Sent, workerVars
  <2>3. EndMerge => \A f \in Feeds : Sub!ReceiveFails(channels[f])
    BY DEF EndMerge, Inv, MergeInv, Holding, Covered
  <2>4. merge' = "stopped" => merge = "stopped" \/ \A f \in Feeds : Sub!ReceiveFails(channels[f])
    BY <1>3, <2>3 DEF ResumeSend, FetchNothing, NextSource, ResumeMerge, StartPlay,
                      NeverStarted, vars, mergeVars
  <2>5. QED
    BY <2>1, <2>2, <2>4, StreamKept
<1>4. QED
  BY <1>1, <1>2, <1>3 DEF PlayStep

LEMMA InitStream == Init => StreamInv
<1> SUFFICES ASSUME Init PROVE StreamInv
  OBVIOUS
<1>1. /\ handled = <<>> /\ mainChannel.queue = <<>> /\ queue = {} /\ merge = "new"
      /\ \A f \in Feeds : /\ channels[f].queue = <<>> /\ ~channels[f].closed /\ next[f] = 1
  BY DEF Init, Main!NewChannel, Sub!NewChannel
<1>2. Sent = <<>>
  BY <1>1 DEF Sent
<1>3. ASSUME NEW f \in Feeds PROVE PathInv(f)
  <2>1. SentOf(f) = {} /\ HeldOf(f) = {} /\ WaitingOf(f) = {}
    BY <1>1, <1>2 DEF SentOf, HeldOf, WaitingOf
  <2>2. QED
    BY <1>1, <2>1 DEF PathInv
<1>4. QED
  BY <1>1, <1>2, <1>3 DEF StreamInv

LEMMA NextStream == Inv /\ StreamInv /\ [Next]_vars => StreamInv'
<1> SUFFICES ASSUME Inv, StreamInv, [Next]_vars PROVE StreamInv'
  OBVIOUS
<1>1. CASE \E f \in Feeds : FeedStep(f)
  BY <1>1, SendEventStream, EndFeedStream, OtherStepsStream DEF FeedStep
<1>2. CASE MergeStep
  BY <1>2, FetchEventStream, SendEarliestStream, OtherStepsStream DEF MergeStep
<1>3. CASE PlayStep \/ WorkerStep \/ Abort \/ UNCHANGED vars
  BY <1>3, HandleEventStream, OtherStepsStream DEF WorkerStep
<1>4. QED
  BY <1>1, <1>2, <1>3 DEF Next

(* What is left of the stream is what was left when the merge sent the     *)
(* event that is now the first in the channel of the run.                  *)
LEMMA LeftIsRest ==
    ASSUME Inv, NEW f \in Feeds
    PROVE  Stream!Left(f) = Rest(Len(handled) + 1, f)
<1>1. /\ Len(handled) \in Nat /\ DOMAIN handled = 1..Len(handled)
      /\ \A k \in 1..Len(handled) : Sent[k] = handled[k]
  BY SentFacts DEF Inv, EndInv
<1>2. \A i : Stream!Event(f, i) \in Stream!Seen
                <=> \E m \in 1..Len(handled) : handled[m] = Entry(f, i)
  BY <1>1 DEF Stream!Seen, Stream!Event, Entry
<1>3. \A i : Stream!Event(f, i) \notin Stream!Seen
                <=> \A m \in 1..Len(handled) + 1 - 1 : Sent[m] # Entry(f, i)
  <2>1. Len(handled) + 1 - 1 = Len(handled)
    BY <1>1
  <2>2. QED
    BY <1>1, <1>2, <2>1
<1>4. \A i : i \in Stream!Visible(f) <=> i \in DOMAIN times[f] /\ Vis(f, i)
  BY DEF Stream!Visible, Stream!Past, Vis, Sub!AfterTimeframe
<1>5. QED
  BY <1>3, <1>4 DEF Stream!Left, Rest

LEMMA NextMerges == Inv /\ StreamInv /\ [Next]_vars => [Stream!Next]_(Stream!vars)
<1> SUFFICES ASSUME Inv, StreamInv, [Next]_vars PROVE [Stream!Next]_(Stream!vars)
  OBVIOUS
<1>1. CASE HandleEvent
  <2>1. /\ worker = "running" /\ UNCHANGED <<times, worker>>
        /\ handled' = Append(handled, Head(mainChannel.queue)) /\ mainChannel.queue # <<>>
    BY <1>1 DEF HandleEvent, Main!CanReceive
  <2> DEFINE q == mainChannel.queue
             n == Len(handled) + 1
             e == Sent[n]
  <2>2. Head(q) = e /\ n \in 1..Len(Sent) /\ e \in Events
    <3> DEFINE E == Events
    <3>1. /\ q \in Seq(E) /\ Len(q) \in Nat /\ q # <<>>
          /\ Sent \in Seq(E) /\ Len(Sent) = Len(handled) + Len(q)
          /\ Len(handled) \in Nat
          /\ \A k \in 1..Len(q) : Sent[Len(handled) + k] = q[k]
      BY <2>1, SentFacts
    <3> HIDE DEF E, q
    <3>2. 1 \in 1..Len(q) /\ Head(q) = q[1]
      BY <3>1
    <3>3. Sent[Len(handled) + 1] = q[1] /\ n \in 1..Len(Sent)
      BY <3>1, <3>2
    <3>4. e \in E
      BY <3>1, <3>3
    <3>5. QED
      BY <3>2, <3>3, <3>4 DEF E
  <2> HIDE DEF n, q
  <2>3. e.feed \in Feeds /\ e = Stream!Event(e.feed, e.pos)
    BY <2>2 DEF Events, Stream!Event
  <2>4. NextAt(n)
    BY <2>1, <2>2 DEF StreamInv
  <2>5. \A g \in Feeds : Stream!Left(g) = Rest(n, g)
    BY LeftIsRest DEF n
  <2> HIDE DEF e
  <2>6. e.pos \in Stream!Left(e.feed) /\ Stream!IsNext(e.feed, e.pos)
    BY <2>3, <2>4, <2>5 DEF NextAt, Stream!IsNext, Stream!IsFirst, Time, Feeds, e
  <2>7. Stream!Deliver
    BY <2>1, <2>2, <2>3, <2>6 DEF Stream!Deliver, Feeds, q
  <2>8. QED
    BY <2>7 DEF Stream!Next
<1>2. CASE ChannelIsDone
  <2>1. /\ worker = "running" /\ worker' = "finished" /\ UNCHANGED <<times, handled>>
        /\ mainChannel.queue = <<>> /\ queue = {} /\ merge = "stopped"
    BY <1>2 DEF ChannelIsDone, Main!ReceiveFails, Inv, EndInv, AllStopped
  <2>2. ASSUME NEW f \in Feeds, NEW i \in Stream!Left(f) PROVE FALSE
    <3>1. /\ i \in DOMAIN times[f] /\ Vis(f, i)
          /\ \A m \in 1..Len(handled) + 1 - 1 : Sent[m] # Entry(f, i)
      BY <2>2, LeftIsRest DEF Rest
    <3>2. DOMAIN Sent = 1..Len(handled) + 1 - 1
      BY <2>1, SentFacts
    <3>3. i \notin SentOf(f) /\ i \notin HeldOf(f)
      BY <2>1, <3>1, <3>2 DEF SentOf, HeldOf
    <3>4. Sub!ReceiveFails(channels[f])
      BY <2>1 DEF StreamInv
    <3>5. QED
      BY <2>1, <3>1, <3>3, <3>4, HeldIsFirst
  <2>3. Stream!Finish
    BY <2>1, <2>2 DEF Stream!Finish, Feeds
  <2>4. QED
    BY <2>3 DEF Stream!Next
<1>3. CASE Abort
  BY <1>3 DEF Abort, Stream!Abort, Stream!Next
<1>4. CASE (\E f \in Feeds : FeedStep(f)) \/ MergeStep \/ PlayStep \/ UNCHANGED vars
  <2>1. UNCHANGED <<times, workerVars>>
    BY <1>4 DEF FeedStep, SendEvent, ResumeSend, EndFeed, MergeStep, FetchEvent, FetchNothing,
                SendEarliest, ResumeMerge, MergeFails, EndMerge, PlayStep, StartPlay,
                NeverStarted, EndPlay, vars
  <2>2. QED
    BY <2>1 DEF workerVars, Stream!vars
<1>5. QED
  BY <1>1, <1>2, <1>3, <1>4 DEF Next, WorkerStep

(* A run over a combination gets the events of every feed in their order,  *)
(* each once, and always the earliest of what is left, whatever the pace   *)
(* of the feeds and however full the channels are. (That the run comes to  *)
(* an end is checked by TLC only.)                                         *)
THEOREM MergesInOrder == Spec => Stream!Init /\ [][Stream!Next]_(Stream!vars)
<1>1. Init => StreamInv /\ Stream!Init
  BY InitStream DEF Init, Stream!Init
<1>2. Inv /\ StreamInv /\ [Next]_vars => StreamInv'
  BY NextStream
<1>3. Inv /\ StreamInv /\ [Next]_vars => [Stream!Next]_(Stream!vars)
  BY NextMerges
<1>4. QED
  BY <1>1, <1>2, <1>3, Invariance, PTL DEF Spec
=============================================================================
