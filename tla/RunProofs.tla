------------------------------ MODULE RunProofs ------------------------------
(***************************************************************************)
(* One run, for any feed, any capacity of the channel, any timeframe and   *)
(* any timeouts: what the strategy is shown is the stream of EventStream.  *)
(*                                                                         *)
(* That no event is lost but by a timeout is not inductive. The invariant  *)
(* follows every event of the feed on its way: it is still to be sent, or  *)
(* in the queue of the channel, or in the hands of the worker, or done     *)
(* with, and these four parts of the feed never change their order. What   *)
(* ends the sending early leaves nothing behind that the run may see.      *)
(***************************************************************************)
EXTENDS Run, TLAPS, FiniteSetTheorems

Vis(i) == Start <= times[i] /\ \A j \in 1..i : ~AfterTimeframe(times[j])
Done   == Shown \cup lost
Queued == {channel.queue[k] : k \in DOMAIN channel.queue}

WorkerInv ==
    /\ worker = "taken" => event # Heartbeat
    /\ worker \in {"receive", "finished", "aborted"} => event = Heartbeat
    /\ worker = "step" /\ event = Heartbeat => beats < MaxHeartbeats
    /\ cancelled => Over

(* A channel of one sender: only its last event can be out of the buffer.  *)
QueueInv ==
    /\ \A k, m \in 1..Len(channel.queue) : k < m => channel.queue[k] < channel.queue[m]
    /\ \/ Len(channel.queue) <= Capacity
       \/ /\ feed = "suspended"
          /\ Len(channel.queue) = Capacity + 1
          /\ channel.queue[Capacity + 1] = next - 1

(* Done with, then with the worker, then in the queue, then to be sent.    *)
OrderInv ==
    /\ \A i \in Done : i < next /\ (event # Heartbeat => i < event)
    /\ \A i \in Done : \A j \in Queued : i < j
    /\ event # Heartbeat =>
        /\ event \in DOMAIN times /\ Vis(event) /\ event < next
        /\ \A j \in Queued : event < j
    /\ \A j \in Queued : j \in DOMAIN times /\ j < next /\ Vis(j)

(* Nothing that was sent is missing, and nothing that is not sent matters. *)
ProgressInv ==
    /\ ~channel.closed => \A j \in 1..next - 1 : ~AfterTimeframe(times[j])
    /\ ~Over =>
        /\ \A i \in 1..next - 1 : Vis(i) => i \in Done \/ i = event \/ i \in Queued
        /\ channel.closed \/ feed = "closing" => \A i \in next..Len(times) : ~Vis(i)

(* A heartbeat is under way for every event that was dropped.              *)
LossInv ==
    /\ Missed \subseteq lost
    /\ LossesShow
    /\ ~Over => Cardinality(lost)
                  <= IF worker = "step" /\ event = Heartbeat THEN beats + 1 ELSE beats

Inv == TypeOK /\ WorkerInv /\ QueueInv /\ OrderInv /\ ProgressInv /\ LossInv

-----------------------------------------------------------------------------
LEMMA TimesFacts ==
    ASSUME TypeOK
    PROVE  /\ Len(times) \in Nat /\ DOMAIN times = 1..Len(times) /\ next \in Nat /\ event \in Nat
           /\ \A i \in DOMAIN times : times[i] \in Nat
           /\ channel \in Channels(DOMAIN times) /\ channel.queue \in Seq(DOMAIN times)
           /\ Len(channel.queue) \in Nat /\ DOMAIN channel.queue = 1..Len(channel.queue)
           /\ \A k \in 1..Len(channel.queue) :
                channel.queue[k] \in 1..Len(times) /\ channel.queue[k] \in Queued
<1>1. times \in Seq(Nat) /\ channel \in Channels(DOMAIN times)
      /\ next \in 1..Len(times) + 1 /\ event \in 0..Len(times)
  BY DEF TypeOK
<1>2. channel.queue \in Seq(DOMAIN times)
  BY <1>1 DEF Channels
<1>3. QED
  BY <1>1, <1>2, SMTT(20) DEF Queued

(* A time in the timeframe is not past it; a time that is neither before   *)
(* the timeframe nor past it is in it.                                     *)
LEMMA TimeframeFacts ==
    ASSUME NEW t \in Nat
    PROVE  InTimeframe(t) <=> Start <= t /\ ~AfterTimeframe(t)
BY ChannelAssumption DEF InTimeframe, AfterTimeframe

LEMMA AppendFacts ==
    ASSUME NEW S, NEW q \in Seq(S), NEW e \in S
    PROVE  /\ Append(q, e) \in Seq(S) /\ Len(q) \in Nat /\ Len(Append(q, e)) = Len(q) + 1
           /\ \A k \in 1..Len(q) : Append(q, e)[k] = q[k]
           /\ Append(q, e)[Len(q) + 1] = e
           /\ DOMAIN q = 1..Len(q) /\ DOMAIN Append(q, e) = 1..Len(q) + 1
OBVIOUS

(* The channel after a send that succeeds, after close() and receive(),    *)
(* and when a suspended sender takes the last event back.                  *)
LEMMA SendFacts ==
    ASSUME NEW S, NEW ch \in Channels(S), NEW e \in S, NEW t \in Nat, ~SendFails(ch, t)
    PROVE  LET n == Send(ch, e, t)
           IN  /\ n \in Channels(S)
               /\ \/ /\ n.queue = Append(ch.queue, e) /\ n.closed = ch.closed
                     /\ InTimeframe(t) /\ ~ch.closed
                  \/ /\ n.queue = ch.queue /\ n.closed = (ch.closed \/ AfterTimeframe(t))
                     /\ ~InTimeframe(t)
<1> DEFINE n == Send(ch, e, t)
<1>1. CASE InTimeframe(t)
  <2>1. ~ch.closed /\ ~AfterTimeframe(t)
    BY <1>1, TimeframeFacts DEF SendFails
  <2> DEFINE q == Append(ch.queue, e)
  <2>2. q \in Seq(S)
    BY DEF Channels
  <2>3. n = [ch EXCEPT !.queue = q]
    BY <1>1, <2>1 DEF Send
  <2> HIDE DEF n, q
  <2>4. n \in Channels(S) /\ n.queue = q /\ n.closed = ch.closed
    BY <2>2, <2>3 DEF Channels
  <2>5. QED
    BY <1>1, <2>1, <2>4 DEF n, q
<1>2. CASE ~InTimeframe(t) /\ AfterTimeframe(t) /\ ~ch.closed
  <2>1. n = [ch EXCEPT !.closed = TRUE, !.locked = FALSE]
    BY <1>2 DEF Send, Close
  <2> HIDE DEF n
  <2>2. n \in Channels(S) /\ n.queue = ch.queue /\ n.closed
    BY <2>1 DEF Channels
  <2>3. QED
    BY <1>2, <2>2 DEF n
<1>3. CASE ~InTimeframe(t) /\ (ch.closed \/ ~AfterTimeframe(t))
  <2>1. n = ch /\ (ch.closed \/ ~AfterTimeframe(t))
    BY <1>3 DEF Send, Close
  <2> HIDE DEF n
  <2>2. n.closed = (ch.closed \/ AfterTimeframe(t))
    BY <2>1 DEF Channels
  <2>3. QED
    BY <1>3, <2>1, <2>2 DEF n
<1>4. QED
  BY <1>1, <1>2, <1>3

LEMMA CloseFacts ==
    ASSUME NEW S, NEW ch \in Channels(S)
    PROVE  Close(ch) \in Channels(S) /\ Close(ch).queue = ch.queue /\ Close(ch).closed
BY DEF Close, Channels

LEMMA ReceiveFacts ==
    ASSUME NEW S, NEW ch \in Channels(S), CanReceive(ch)
    PROVE  LET n == Receive(ch)
           IN  /\ n \in Channels(S) /\ n.closed = ch.closed
               /\ Len(ch.queue) \in Nat /\ Len(ch.queue) >= 1
               /\ DOMAIN n.queue = 1..Len(n.queue) /\ DOMAIN ch.queue = 1..Len(ch.queue)
               /\ Head(ch.queue) = ch.queue[1] /\ Len(n.queue) = Len(ch.queue) - 1
               /\ \A k \in 1..Len(n.queue) : n.queue[k] = ch.queue[k + 1]
<1>1. ch.queue \in Seq(S) /\ ch.queue # <<>>
  BY DEF Channels, CanReceive
<1> DEFINE n == Receive(ch)
<1>2. n = [ch EXCEPT !.queue = Tail(ch.queue)]
  BY DEF Receive
<1> HIDE DEF n
<1>3. n.queue = Tail(ch.queue) /\ n.closed = ch.closed
  BY <1>2 DEF Channels
<1>4. Tail(ch.queue) \in Seq(S)
  BY <1>1
<1>5. n \in Channels(S)
  BY <1>2, <1>4 DEF Channels
<1>6. QED
  BY <1>1, <1>3, <1>5 DEF n

LastIsNew(ch, m) ==
    Len(ch.queue) = m + 1 /\ \A k \in 1..m : ch.queue[k] # ch.queue[m + 1]

WithoutLast(n, ch, m, S) ==
    /\ n \in Channels(S) /\ n.closed = ch.closed
    /\ Len(n.queue) = m /\ DOMAIN n.queue = 1..m
    /\ \A k \in 1..m : n.queue[k] = ch.queue[k]

LEMMA WithdrawFacts ==
    ASSUME NEW S, NEW ch \in Channels(S), NEW m \in Nat, LastIsNew(ch, m),
           NEW n, n = Withdraw(ch, ch.queue[m + 1])
    PROVE  WithoutLast(n, ch, m, S)
<1> DEFINE q == ch.queue
           p == CHOOSE i \in DOMAIN q : q[i] = q[m + 1]
           r == SubSeq(q, 1, p - 1) \o SubSeq(q, p + 1, Len(q))
<1>1. /\ q \in Seq(S) /\ DOMAIN q = 1..m + 1 /\ Len(q) = m + 1
      /\ \A k \in 1..m : q[k] # q[m + 1]
  BY DEF Channels, LastIsNew
<1>2. p \in DOMAIN q /\ q[p] = q[m + 1]
  BY <1>1
<1>3. p = m + 1
  BY <1>1, <1>2
<1>4. n = [ch EXCEPT !.queue = r]
  BY DEF Withdraw
<1> HIDE DEF p
<1>5. /\ SubSeq(q, 1, m) \in Seq(S) /\ Len(SubSeq(q, 1, m)) = m
      /\ \A k \in 1..m : SubSeq(q, 1, m)[k] = q[k]
  BY <1>1
<1>6. SubSeq(q, m + 2, m + 1) \in Seq(S) /\ Len(SubSeq(q, m + 2, m + 1)) = 0
  BY <1>1
<1>7. r \in Seq(S) /\ Len(r) = m /\ \A k \in 1..m : r[k] = q[k]
  <2>1. p - 1 = m /\ p + 1 = m + 2 /\ Len(q) = m + 1
    BY <1>1, <1>3
  <2>2. r = SubSeq(q, 1, m) \o SubSeq(q, m + 2, m + 1)
    BY <2>1
  <2> DEFINE u == SubSeq(q, 1, m)
             v == SubSeq(q, m + 2, m + 1)
  <2> HIDE DEF u, v, r, q
  <2>3. QED
    BY <1>5, <1>6, <2>2 DEF u, v
<1> HIDE DEF r
<1>8. n \in Channels(S) /\ n.queue = r /\ n.closed = ch.closed
  BY <1>4, <1>7 DEF Channels
<1>9. DOMAIN r = 1..m
  BY <1>7
<1>10. QED
  BY <1>7, <1>8, <1>9 DEF WithoutLast

-----------------------------------------------------------------------------
(* What a step leaves alone.                                               *)
LEMMA MissedKept ==
    ASSUME UNCHANGED <<times, handled>>
    PROVE  Missed' = Missed /\ Shown' = Shown
<1>1. Shown' = Shown
  BY DEF Shown
<1>2. Stream!Visible(1)' = Stream!Visible(1)
  BY DEF Stream!Visible, Stream!Past
<1>3. QED
  BY <1>1, <1>2 DEF Missed

LEMMA LostFacts ==
    ASSUME TypeOK
    PROVE  /\ IsFiniteSet(lost) /\ Cardinality(lost) \in Nat /\ beats \in Nat
           /\ \A S : S \subseteq lost =>
                IsFiniteSet(S) /\ Cardinality(S) \in Nat /\ Cardinality(S) <= Cardinality(lost)
<1>1. Len(times) \in Nat /\ lost \subseteq 1..Len(times)
  BY TimesFacts DEF TypeOK
<1>2. IsFiniteSet(1..Len(times))
  BY <1>1, FS_Interval
<1>3. IsFiniteSet(lost)
  BY <1>1, <1>2, FS_Subset
<1>4. beats \in Nat
  BY RunAssumption DEF TypeOK
<1>5. QED
  BY <1>3, <1>4, FS_Subset, FS_CardinalityType

LEMMA LossKept ==
    ASSUME TypeOK, LossInv, UNCHANGED <<times, handled, beats, lost>>,
           ~Over' => /\ ~Over
                     /\ worker = "step" /\ event = Heartbeat
                          => worker' = "step" /\ event' = Heartbeat
    PROVE  LossInv'
<1>1. CASE Over'
  BY <1>1, MissedKept DEF LossInv, LossesShow
<1>2. CASE ~Over'
  <2>1. /\ ~Over /\ Missed' = Missed
        /\ worker = "step" /\ event = Heartbeat => worker' = "step" /\ event' = Heartbeat
    BY <1>2, MissedKept
  <2>2. Cardinality(lost) <= beats \/ Cardinality(lost) <= beats + 1
    BY <2>1 DEF LossInv
  <2>3. CASE worker = "step" /\ event = Heartbeat
    BY <2>1, <2>3, LostFacts DEF LossInv, LossesShow, Heartbeat
  <2>4. CASE ~(worker = "step" /\ event = Heartbeat)
    BY <2>1, <2>4, LostFacts DEF LossInv, LossesShow, Heartbeat
  <2>5. QED
    BY <2>3, <2>4
<1>3. QED
  BY <1>1, <1>2

(* A step that takes no event anywhere.                                    *)
LEMMA OrderKept ==
    ASSUME OrderInv, UNCHANGED <<times, next, handled, lost, event>>,
           channel'.queue = channel.queue
    PROVE  OrderInv'
BY DEF OrderInv, Done, Shown, Queued, Vis

LEMMA ProgressKept ==
    ASSUME ProgressInv, UNCHANGED <<times, next, handled, lost, event>>,
           channel'.queue = channel.queue, channel.closed => channel'.closed,
           ~Over' => /\ ~Over
                     /\ channel'.closed \/ feed' = "closing"
                          => channel.closed \/ feed = "closing" \/ next > Len(times),
           TypeOK
    PROVE  ProgressInv'
<1>1. Done' = Done /\ Queued' = Queued /\ \A i : Vis(i)' <=> Vis(i)
  BY DEF Done, Shown, Queued, Vis
<1>2. ~channel'.closed => \A j \in 1..next' - 1 : ~AfterTimeframe(times'[j])
  BY DEF ProgressInv
<1>3. ~Over' => \A i \in 1..next - 1 : Vis(i) => i \in Done \/ i = event \/ i \in Queued
  BY DEF ProgressInv
<1>4. ASSUME ~Over', channel'.closed \/ feed' = "closing", NEW i \in next..Len(times)
      PROVE  ~Vis(i)
  <2>1. channel.closed \/ feed = "closing"
    BY <1>4, TimesFacts
  <2>2. QED
    BY <1>4, <2>1 DEF ProgressInv
<1>5. QED
  BY <1>1, <1>2, <1>3, <1>4 DEF ProgressInv

-----------------------------------------------------------------------------
(* The feed                                                                *)
LEMMA SendEventInv ==
    ASSUME Inv, SendEvent
    PROVE  Inv'
<1> DEFINE t == times[next]
           c == Send(channel, next, t)
           q == channel.queue
           n == c.queue
<1>1. /\ feed = "send" /\ next <= Len(times) /\ ~SendFails(channel, t)
      /\ channel' = c /\ next' = next + 1
      /\ feed' = IF Buffered(c, next) THEN "send" ELSE "suspended"
      /\ UNCHANGED <<given, cancelled, workerVars, clock>>
  BY DEF SendEvent
<1>2. /\ TypeOK /\ next \in 1..Len(times) /\ Len(times) \in Nat /\ DOMAIN times = 1..Len(times)
      /\ t \in Nat /\ next \in Nat
      /\ channel \in Channels(DOMAIN times) /\ q \in Seq(DOMAIN times) /\ next \in DOMAIN times
  BY <1>1, TimesFacts DEF Inv, TypeOK
<1>3. /\ c \in Channels(DOMAIN times)
      /\ \/ n = Append(q, next) /\ c.closed = channel.closed /\ InTimeframe(t) /\ ~channel.closed
         \/ n = q /\ c.closed = (channel.closed \/ AfterTimeframe(t)) /\ ~InTimeframe(t)
  <2> DEFINE D == DOMAIN times
  <2>1. channel \in Channels(D) /\ next \in D /\ t \in Nat /\ ~SendFails(channel, t)
    BY <1>1, <1>2
  <2> HIDE DEF D, t
  <2>2. QED
    BY <2>1, SendFacts DEF D
<1>4. /\ Len(q) \in Nat /\ DOMAIN q = 1..Len(q) /\ Len(q) <= Capacity
      /\ \A k \in 1..Len(q) : q[k] \in 1..Len(times) /\ q[k] \in Queued
  BY <1>1, <1>2, TimesFacts DEF Inv, QueueInv
<1>5. \/ /\ Len(n) = Len(q) + 1 /\ n[Len(q) + 1] = next
         /\ DOMAIN n = 1..Len(q) + 1
         /\ \A k \in 1..Len(q) : n[k] = q[k]
         /\ c.closed = channel.closed /\ InTimeframe(t) /\ ~channel.closed
      \/ n = q /\ c.closed = (channel.closed \/ AfterTimeframe(t)) /\ ~InTimeframe(t)
  <2> DEFINE D == DOMAIN times
  <2>1. q \in Seq(D) /\ next \in D
    BY <1>2
  <2> HIDE DEF c, q, t, D
  <2>2. QED
    BY <1>3, <2>1, AppendFacts
<1> HIDE DEF c, q
<1>6. /\ times' = times /\ timeOut' = timeOut /\ cancelled' = cancelled /\ clock' = clock
      /\ worker' = worker /\ event' = event /\ handled' = handled /\ beats' = beats
      /\ lost' = lost
  BY <1>1 DEF given, workerVars
<1>7. TypeOK'
  BY <1>1, <1>2, <1>3, <1>6 DEF TypeOK
<1>8. WorkerInv'
  BY <1>6 DEF Inv, WorkerInv, Over
<1>9. Done' = Done /\ \A i : Vis(i)' <=> Vis(i)
  BY <1>6 DEF Done, Shown, Vis
<1>10. \/ Queued' = Queued \cup {next} /\ InTimeframe(t) /\ ~channel.closed /\ ~c.closed
       \/ Queued' = Queued /\ ~InTimeframe(t) /\ c.closed = (channel.closed \/ AfterTimeframe(t))
  <2>1. Queued' = {n[k] : k \in DOMAIN n} /\ Queued = {q[k] : k \in DOMAIN q}
    BY <1>1 DEF Queued, q
  <2> HIDE DEF n, q
  <2>2. ASSUME /\ Len(n) = Len(q) + 1 /\ n[Len(q) + 1] = next
               /\ DOMAIN n = 1..Len(q) + 1
               /\ \A k \in 1..Len(q) : n[k] = q[k]
        PROVE  Queued' = Queued \cup {next}
    <3>1. \A j \in Queued' : j \in Queued \cup {next}
      BY <1>4, <2>1, <2>2
    <3>2. next \in Queued'
      <4>1. Len(q) + 1 \in DOMAIN n /\ n[Len(q) + 1] = next
        BY <1>4, <2>2
      <4>2. QED
        BY <2>1, <4>1
    <3>3. ASSUME NEW k \in DOMAIN q PROVE q[k] \in Queued'
      <4>1. k \in DOMAIN n /\ n[k] = q[k]
        BY <1>4, <2>2, <3>3
      <4>2. QED
        BY <2>1, <4>1
    <3>4. QED
      BY <2>1, <3>1, <3>2, <3>3
  <2>3. n = q => Queued' = Queued
    BY <2>1
  <2>4. QED
    BY <1>5, <2>2, <2>3
<1>11. QueueInv'
  <2>1. \A k, m \in 1..Len(q) : k < m => q[k] < q[m]
    BY DEF Inv, QueueInv, q
  <2>2. \A k \in 1..Len(q) : q[k] < next
    BY <1>4 DEF Inv, OrderInv
  <2>3. \A k, m \in 1..Len(n) : k < m => n[k] < n[m]
    <3> HIDE DEF n
    <3>1. QED
      BY <1>4, <1>5, <2>1, <2>2
  <2>4. \/ Len(n) <= Capacity
        \/ Len(n) = Capacity + 1 /\ n[Capacity + 1] = next
    BY <1>4, <1>5, ChannelAssumption
  <2>5. Buffered(c, next) => Len(n) <= Capacity
    BY <2>4, ChannelAssumption DEF Buffered
  <2>6. channel'.queue = n /\ next' - 1 = next
    BY <1>1, <1>2
  <2>7. QED
    BY <1>1, <2>3, <2>4, <2>5, <2>6 DEF QueueInv
<1>12. ~channel.closed => \A j \in 1..next - 1 : ~AfterTimeframe(times[j])
  BY DEF Inv, ProgressInv
<1>13. ~channel.closed /\ InTimeframe(t) => Vis(next)
  BY <1>2, <1>12, TimeframeFacts DEF Vis
<1>14. OrderInv'
  <2>1. \A i \in Done : i < next /\ (event # Heartbeat => i < event) /\ i \in Nat
    <3>1. \A i \in Done : i < next /\ (event # Heartbeat => i < event)
      BY DEF Inv, OrderInv
    <3>2. Done \subseteq Nat
      BY <1>2, SMTT(20) DEF Inv, Done, Shown, TypeOK
    <3>3. QED
      BY <3>1, <3>2
  <2>2. \A j \in Queued : j \in 1..Len(times) /\ j < next /\ Vis(j)
    BY <1>2 DEF Inv, OrderInv
  <2>3. \A j \in Queued' : j \in DOMAIN times' /\ j < next' /\ Vis(j)'
    BY <1>1, <1>2, <1>6, <1>9, <1>10, <1>13, <2>2
  <2>4. \A j \in Queued' : (\A i \in Done : i < j) /\ (event # Heartbeat => event < j)
    BY <1>2, <1>10, <2>1 DEF Inv, OrderInv
  <2>5. \A i \in Done : i < next'
    BY <1>1, <1>2, <2>1
  <2>6. event # Heartbeat => event \in DOMAIN times /\ Vis(event) /\ event < next'
    <3>1. event # Heartbeat => event < next /\ event \in Nat
      BY <1>2, TimesFacts DEF Inv, OrderInv
    <3>2. QED
      BY <1>1, <1>2, <3>1 DEF Inv, OrderInv
  <2>7. QED
    BY <1>6, <1>9, <2>1, <2>3, <2>4, <2>5, <2>6 DEF OrderInv, Heartbeat
<1>15. ProgressInv'
  <2>1. ~c.closed => \A j \in 1..next : ~AfterTimeframe(times[j])
    <3>1. ~c.closed => ~channel.closed /\ ~AfterTimeframe(t)
      BY <1>2, <1>10, TimeframeFacts
    <3>2. QED
      BY <1>2, <1>12, <3>1
  <2>2. ASSUME ~Over, NEW i \in 1..next, Vis(i)
        PROVE  i \in Done \/ i = event \/ i \in Queued'
    <3>1. CASE i = next
      <4>1. InTimeframe(t)
        BY <1>2, <2>2, <3>1, TimeframeFacts DEF Vis
      <4>2. QED
        BY <1>10, <3>1, <4>1
    <3>2. CASE i \in 1..next - 1
      BY <1>10, <2>2, <3>2 DEF Inv, ProgressInv
    <3>3. QED
      BY <1>2, <3>1, <3>2
  <2>3. ASSUME ~Over, c.closed, NEW i \in next + 1..Len(times)
        PROVE  ~Vis(i)
    <3>1. channel.closed \/ AfterTimeframe(t)
      BY <1>10, <2>3
    <3>2. CASE channel.closed
      BY <1>2, <2>3, <3>2 DEF Inv, ProgressInv
    <3>3. CASE AfterTimeframe(t)
      BY <1>2, <2>3, <3>3 DEF Vis
    <3>4. QED
      BY <3>1, <3>2, <3>3
  <2>4. channel'.closed = c.closed /\ next' - 1 = next /\ feed' # "closing"
    BY <1>1, <1>2
  <2>5. Over' = Over
    BY <1>6 DEF Over
  <2>6. QED
    BY <1>1, <1>6, <1>9, <2>1, <2>2, <2>3, <2>4, <2>5 DEF ProgressInv
<1>16. LossInv'
  BY <1>6, LossKept DEF Inv, Over
<1>17. QED
  BY <1>7, <1>8, <1>11, <1>14, <1>15, <1>16 DEF Inv

(* The feed goes on without a change of the channel.                       *)
LEMMA FeedMoves ==
    ASSUME Inv, UNCHANGED <<given, channel, next, cancelled, workerVars, clock>>,
           feed' \in {"new", "send", "suspended", "closing", "stopped"},
           feed = "suspended" => Len(channel.queue) <= Capacity,
           feed' = "closing" => channel.closed \/ next > Len(times)
    PROVE  Inv'
<1>1. /\ times' = times /\ timeOut' = timeOut /\ channel' = channel /\ next' = next
      /\ cancelled' = cancelled /\ clock' = clock
      /\ worker' = worker /\ event' = event /\ handled' = handled /\ beats' = beats
      /\ lost' = lost /\ Over' = Over
  BY DEF given, workerVars, Over
<1>2. TypeOK'
  BY <1>1 DEF Inv, TypeOK
<1>3. WorkerInv' /\ QueueInv'
  BY <1>1 DEF Inv, WorkerInv, QueueInv
<1>4. OrderInv' /\ ProgressInv' /\ LossInv'
  BY <1>1, OrderKept, ProgressKept, LossKept DEF Inv
<1>5. QED
  BY <1>2, <1>3, <1>4 DEF Inv

LEMMA StartFeedInv ==
    ASSUME Inv, StartFeed \/ NeverStarted
    PROVE  Inv'
BY FeedMoves DEF StartFeed, NeverStarted

LEMMA EndPlayInv ==
    ASSUME Inv, EndPlay
    PROVE  Inv'
<1>1. channel.closed \/ next > Len(times)
  BY TimesFacts DEF EndPlay, SendFails, Inv
<1>2. QED
  BY <1>1, FeedMoves DEF EndPlay

(* An event that is in the buffer is not the one after the buffer.         *)
LEMMA BufferedFacts ==
    ASSUME Inv, feed = "suspended", Buffered(channel, next - 1)
    PROVE  Len(channel.queue) <= Capacity
<1>1. Len(channel.queue) = Capacity + 1 => channel.queue[Capacity + 1] # next - 1
  BY ChannelAssumption DEF Buffered
<1>2. QED
  BY <1>1 DEF Inv, QueueInv

LEMMA ResumeSendInv ==
    ASSUME Inv, ResumeSend
    PROVE  Inv'
BY BufferedFacts, FeedMoves DEF ResumeSend

(* The run is over, so it does not matter that the last event goes.        *)
LEMMA CancelSendInv ==
    ASSUME Inv, CancelSend
    PROVE  Inv'
<1> DEFINE q == channel.queue
           c == IF Buffered(channel, next - 1) THEN channel ELSE Withdraw(channel, next - 1)
           n == c.queue
<1>1. /\ UNCHANGED <<given, next, cancelled, workerVars, clock>>
      /\ feed = "suspended" /\ feed' = "closing" /\ cancelled /\ channel' = c
  BY DEF CancelSend
<1>2. /\ times' = times /\ timeOut' = timeOut /\ next' = next
      /\ cancelled' = cancelled /\ clock' = clock
      /\ worker' = worker /\ event' = event /\ handled' = handled /\ beats' = beats
      /\ lost' = lost /\ Over' /\ Over
  BY <1>1 DEF given, workerVars, Over, Inv, WorkerInv
<1>3. /\ TypeOK /\ Len(q) \in Nat /\ DOMAIN q = 1..Len(q) /\ channel \in Channels(DOMAIN times)
      /\ Capacity \in Nat
      /\ \A k, m \in 1..Len(q) : k < m => q[k] < q[m]
      /\ \A k \in 1..Len(q) : q[k] \in Nat
  BY TimesFacts, ChannelAssumption DEF Inv, QueueInv
<1>4. /\ c \in Channels(DOMAIN times) /\ c.closed = channel.closed
      /\ Len(n) <= Capacity /\ Len(n) <= Len(q) /\ DOMAIN n = 1..Len(n) /\ Len(n) \in Nat
      /\ \A k \in 1..Len(n) : n[k] = q[k]
  <2>1. CASE Buffered(channel, next - 1)
    BY <1>1, <1>3, <2>1, BufferedFacts
  <2>2. CASE ~Buffered(channel, next - 1)
    <3>1. /\ Len(q) = Capacity + 1 /\ q[Capacity + 1] = next - 1
      <4>1. ~(Len(q) <= Capacity)
        BY <1>3, <2>2 DEF Buffered
      <4>2. QED
        BY <4>1 DEF Inv, QueueInv
    <3>2. c = Withdraw(channel, q[Capacity + 1])
      BY <2>2, <3>1
    <3>3. \A k \in 1..Capacity : q[k] # q[Capacity + 1]
      BY <1>3, <3>1
    <3> HIDE DEF c
    <3>4. /\ c \in Channels(DOMAIN times) /\ c.closed = channel.closed
          /\ Len(n) = Capacity /\ DOMAIN n = 1..Capacity
          /\ \A k \in 1..Capacity : n[k] = q[k]
      <4> DEFINE D == DOMAIN times
      <4>1. PICK ch, l : ch = channel /\ l = Capacity
        OBVIOUS
      <4>2. ch \in Channels(D) /\ l \in Nat
        BY <1>3, <4>1
      <4> HIDE DEF D
      <4>3. LastIsNew(ch, l)
        BY <3>1, <3>3, <4>1 DEF LastIsNew
      <4>4. PICK w : w = Withdraw(ch, ch.queue[l + 1])
        OBVIOUS
      <4>5. WithoutLast(w, ch, l, D)
        BY <4>2, <4>3, <4>4, WithdrawFacts
      <4>6. QED
        BY <3>2, <4>1, <4>4, <4>5 DEF D, WithoutLast
    <3>5. QED
      BY <1>3, <3>1, <3>4
  <2>3. QED
    BY <2>1, <2>2
<1> HIDE DEF c
<1>5. TypeOK'
  BY <1>1, <1>2, <1>3, <1>4 DEF TypeOK
<1>6. WorkerInv'
  BY <1>2 DEF Inv, WorkerInv, Over
<1>7. QueueInv'
  <2>1. channel'.queue = n
    BY <1>1
  <2>2. \A k, m \in 1..Len(n) : k < m => n[k] < n[m]
    <3> HIDE DEF n, q
    <3>1. QED
      BY <1>3, <1>4
  <2>3. QED
    BY <1>4, <2>1, <2>2 DEF QueueInv
<1>8. Done' = Done /\ (\A i : Vis(i)' <=> Vis(i)) /\ Queued' \subseteq Queued
  <2>1. Queued' = {n[k] : k \in DOMAIN n} /\ Queued = {q[k] : k \in DOMAIN q}
    BY <1>1 DEF Queued
  <2>2. Queued' \subseteq Queued
    <3> HIDE DEF n, q
    <3>1. QED
      BY <1>3, <1>4, <2>1
  <2>3. QED
    BY <1>2, <2>2 DEF Done, Shown, Vis
<1>9. OrderInv'
  BY <1>2, <1>8 DEF Inv, OrderInv, Heartbeat
<1>10. ProgressInv'
  BY <1>1, <1>2, <1>4 DEF Inv, ProgressInv
<1>11. LossInv'
  BY <1>2, LossKept DEF Inv
<1>12. QED
  BY <1>5, <1>6, <1>7, <1>9, <1>10, <1>11 DEF Inv

LEMMA CloseChannelInv ==
    ASSUME Inv, CloseChannel
    PROVE  Inv'
<1> DEFINE c == Close(channel)
<1>1. /\ UNCHANGED <<given, next, cancelled, workerVars, clock>>
      /\ feed = "closing" /\ feed' = "stopped" /\ channel' = c
  BY DEF CloseChannel
<1>2. c \in Channels(DOMAIN times) /\ c.queue = channel.queue /\ c.closed
  BY CloseFacts DEF Inv, TypeOK
<1> HIDE DEF c
<1>3. /\ times' = times /\ timeOut' = timeOut /\ next' = next
      /\ cancelled' = cancelled /\ clock' = clock
      /\ worker' = worker /\ event' = event /\ handled' = handled /\ beats' = beats
      /\ lost' = lost /\ Over' = Over
  BY <1>1 DEF given, workerVars, Over
<1>4. TypeOK'
  BY <1>1, <1>2, <1>3 DEF Inv, TypeOK
<1>5. WorkerInv' /\ QueueInv'
  BY <1>1, <1>2, <1>3 DEF Inv, WorkerInv, QueueInv
<1>6. OrderInv' /\ ProgressInv' /\ LossInv'
  BY <1>1, <1>2, <1>3, OrderKept, ProgressKept, LossKept DEF Inv
<1>7. QED
  BY <1>4, <1>5, <1>6 DEF Inv

-----------------------------------------------------------------------------
(* The worker                                                              *)
LEMMA TakeEventInv ==
    ASSUME Inv, TakeEvent
    PROVE  Inv'
<1> DEFINE D == DOMAIN times
           q == channel.queue
           c == Receive(channel)
           n == c.queue
<1>1. /\ worker = "receive" /\ worker' = "taken" /\ CanReceive(channel)
      /\ event' = Head(q) /\ channel' = c
      /\ UNCHANGED <<given, feedVars, cancelled, handled, beats, lost, clock>>
  BY DEF TakeEvent
<1>2. channel \in Channels(D)
  BY DEF Inv, TypeOK
<1>3. /\ c \in Channels(D) /\ c.closed = channel.closed
      /\ Len(q) \in Nat /\ Len(q) >= 1 /\ DOMAIN q = 1..Len(q) /\ DOMAIN n = 1..Len(n)
      /\ event' = q[1] /\ Len(n) = Len(q) - 1 /\ Len(n) \in Nat /\ channel'.queue = n
      /\ \A k \in 1..Len(n) : n[k] = q[k + 1]
  <2> HIDE DEF D
  <2>1. QED
    BY <1>1, <1>2, ReceiveFacts
<1> HIDE DEF c, q
<1>4. /\ times' = times /\ timeOut' = timeOut /\ next' = next /\ feed' = feed
      /\ cancelled' = cancelled /\ clock' = clock /\ handled' = handled /\ beats' = beats
      /\ lost' = lost /\ ~Over /\ ~Over' /\ event = Heartbeat /\ ~cancelled
  BY <1>1 DEF given, feedVars, Over, Inv, WorkerInv
<1>5. /\ Queued = {q[k] : k \in DOMAIN q} /\ Queued' = {n[k] : k \in DOMAIN n}
      /\ \A k, m \in 1..Len(q) : k < m => q[k] < q[m]
      /\ \A k \in 1..Len(q) : q[k] \in 1..Len(times) /\ q[k] \in Queued
      /\ TypeOK /\ Len(times) \in Nat /\ DOMAIN times = 1..Len(times)
  BY <1>1, TimesFacts DEF Queued, Inv, QueueInv, q
<1> HIDE DEF n
<1>6. event' \in Queued /\ event' \in 1..Len(times)
  BY <1>3, <1>5
<1>7. \A j \in Queued' : j \in Queued /\ event' < j
  <2>1. ASSUME NEW k \in 1..Len(n) PROVE n[k] \in Queued /\ event' < n[k]
    <3>1. k + 1 \in 1..Len(q) /\ 1 \in 1..Len(q) /\ 1 < k + 1 /\ n[k] = q[k + 1]
      BY <1>3, <2>1
    <3>2. QED
      BY <1>3, <1>5, <3>1
  <2>2. QED
    BY <1>3, <1>5, <2>1
<1>8. \A j \in Queued : j = event' \/ j \in Queued'
  <2>1. ASSUME NEW k \in 1..Len(q) PROVE q[k] = event' \/ q[k] \in Queued'
    <3>1. CASE k = 1
      BY <1>3, <3>1
    <3>2. CASE k # 1
      <4>1. k - 1 \in 1..Len(n) /\ n[k - 1] = q[k]
        BY <1>3, <2>1, <3>2
      <4>2. QED
        BY <1>3, <1>5, <4>1
    <3>3. QED
      BY <3>1, <3>2
  <2>2. QED
    BY <1>3, <1>5, <2>1
<1>9. TypeOK'
  <2>1. channel' \in Channels(DOMAIN times')
    BY <1>1, <1>3, <1>4
  <2>2. event' \in 0..Len(times') /\ worker' = "taken"
    BY <1>1, <1>4, <1>5, <1>6
  <2>3. QED
    BY <1>4, <1>5, <2>1, <2>2 DEF TypeOK
<1>10. WorkerInv'
  BY <1>1, <1>4, <1>6 DEF WorkerInv, Over, Heartbeat
<1>11. QueueInv'
  <2>1. \A k, m \in 1..Len(n) : k < m => n[k] < n[m]
    <3>1. SUFFICES ASSUME NEW k \in 1..Len(n), NEW m \in 1..Len(n), k < m PROVE n[k] < n[m]
      OBVIOUS
    <3>2. k + 1 \in 1..Len(q) /\ m + 1 \in 1..Len(q) /\ k + 1 < m + 1
      BY <1>3, <3>1
    <3>3. QED
      BY <1>3, <1>5, <3>2
  <2>2. Len(n) <= Capacity
    BY <1>3, ChannelAssumption DEF Inv, QueueInv, q
  <2>3. QED
    BY <1>3, <2>1, <2>2 DEF QueueInv
<1>12. Done' = Done /\ \A i : Vis(i)' <=> Vis(i)
  BY <1>4 DEF Done, Shown, Vis
<1>13. OrderInv'
  BY <1>4, <1>6, <1>7, <1>12 DEF Inv, OrderInv
<1>14. ProgressInv'
  <2>1. channel'.closed = channel.closed
    BY <1>1, <1>3
  <2>2. \A i \in 1..next - 1 : Vis(i) => i \in Done \/ i = event' \/ i \in Queued'
    <3>1. SUFFICES ASSUME NEW i \in 1..next - 1, Vis(i)
                   PROVE  i \in Done \/ i = event' \/ i \in Queued'
      OBVIOUS
    <3>2. i \in Done \/ i = event \/ i \in Queued
      BY <1>4, <3>1 DEF Inv, ProgressInv
    <3>3. i # event
      BY <1>4, <3>1 DEF Heartbeat
    <3>4. QED
      BY <1>8, <3>2, <3>3
  <2>3. QED
    BY <1>4, <1>12, <2>1, <2>2 DEF Inv, ProgressInv
<1>15. LossInv'
  BY <1>1, <1>4, LossKept DEF Inv
<1>16. QED
  BY <1>9, <1>10, <1>11, <1>13, <1>14, <1>15 DEF Inv

LEMMA ReturnEventInv ==
    ASSUME Inv, ReturnEvent
    PROVE  Inv'
<1>1. /\ worker = "taken" /\ worker' = "step" /\ event # Heartbeat
      /\ UNCHANGED <<given, channel, feedVars, cancelled, event, handled, beats, lost, clock>>
  BY DEF ReturnEvent, Inv, WorkerInv
<1>2. /\ times' = times /\ timeOut' = timeOut /\ next' = next /\ feed' = feed
      /\ channel' = channel /\ event' = event /\ cancelled' = cancelled /\ clock' = clock
      /\ handled' = handled /\ beats' = beats /\ lost' = lost /\ ~Over /\ ~Over'
  BY <1>1 DEF given, feedVars, Over
<1>3. TypeOK' /\ WorkerInv' /\ QueueInv'
  BY <1>1, <1>2 DEF Inv, TypeOK, WorkerInv, QueueInv, Heartbeat
<1>4. OrderInv' /\ ProgressInv' /\ LossInv'
  BY <1>1, <1>2, OrderKept, ProgressKept, LossKept DEF Inv
<1>5. QED
  BY <1>3, <1>4 DEF Inv

(* The queue and the feed are not concerned by what the worker does next.  *)
LEMMA ReturnHeartbeatInv ==
    ASSUME Inv, ReturnHeartbeat
    PROVE  Inv'
<1>1. /\ worker \in {"receive", "taken"} /\ worker' = "step" /\ event' = Heartbeat
      /\ beats < MaxHeartbeats
      /\ lost' = IF worker = "taken" THEN lost \cup {event} ELSE lost
      /\ UNCHANGED <<given, channel, feedVars, cancelled, handled, beats, clock>>
  BY DEF ReturnHeartbeat
<1>2. /\ times' = times /\ timeOut' = timeOut /\ next' = next /\ feed' = feed
      /\ channel' = channel /\ cancelled' = cancelled /\ clock' = clock
      /\ handled' = handled /\ beats' = beats /\ ~Over /\ ~Over'
  BY <1>1 DEF given, feedVars, Over
<1>3. /\ worker = "taken" => event # Heartbeat /\ event \in DOMAIN times /\ event < next
      /\ worker = "receive" => event = Heartbeat
  BY DEF Inv, WorkerInv, OrderInv
<1>4. /\ \/ worker = "taken" /\ Done' = Done \cup {event} /\ lost' = lost \cup {event}
         \/ worker = "receive" /\ Done' = Done /\ lost' = lost
      /\ (\A i : Vis(i)' <=> Vis(i)) /\ Queued' = Queued
  BY <1>1, <1>2 DEF Done, Shown, Vis, Queued
<1>5. TypeOK'
  BY <1>1, <1>2, <1>3 DEF Inv, TypeOK, Heartbeat
<1>6. WorkerInv' /\ QueueInv'
  BY <1>1, <1>2 DEF Inv, WorkerInv, QueueInv, Heartbeat
<1>7. OrderInv'
  BY <1>1, <1>2, <1>3, <1>4 DEF Inv, OrderInv, Heartbeat
<1>8. ProgressInv'
  <2>1. \A i \in 1..next - 1 : Vis(i) => i \in Done' \/ i \in Queued
    <3>1. SUFFICES ASSUME NEW i \in 1..next - 1, Vis(i)
                   PROVE  i \in Done' \/ i \in Queued
      OBVIOUS
    <3>2. i \in Done \/ i = event \/ i \in Queued
      BY <1>2, <3>1 DEF Inv, ProgressInv
    <3>3. i # Heartbeat
      BY <3>1 DEF Heartbeat
    <3>4. QED
      BY <1>1, <1>3, <1>4, <3>2, <3>3
  <2>2. QED
    BY <1>2, <1>4, <2>1 DEF Inv, ProgressInv
<1>9. LossInv'
  <2>1. Missed' = Missed /\ Missed \subseteq lost' /\ LossesShow'
    BY <1>2, <1>4, MissedKept DEF Inv, LossInv, LossesShow
  <2>2. Cardinality(lost) <= beats /\ Cardinality(lost) \in Nat /\ beats \in Nat
    BY <1>1, <1>2, <1>3, LostFacts DEF Inv, LossInv
  <2>3. Cardinality(lost \cup {event}) \in {Cardinality(lost), Cardinality(lost) + 1}
    BY LostFacts, FS_AddElement DEF Inv
  <2>4. Cardinality(lost') <= beats + 1
    BY <1>4, <2>2, <2>3
  <2>5. QED
    BY <1>1, <1>2, <2>1, <2>4 DEF LossInv, Heartbeat
<1>10. QED
  BY <1>5, <1>6, <1>7, <1>8, <1>9 DEF Inv

LEMMA VisibleFacts ==
    ASSUME TypeOK
    PROVE  \A i : i \in Stream!Visible(1) <=> i \in DOMAIN times /\ Vis(i)
BY DEF Stream!Visible, Stream!Past, Vis, AfterTimeframe

LEMMA HandleInv ==
    ASSUME Inv, Handle
    PROVE  Inv'
<1>1. /\ worker = "step" /\ worker' = "receive" /\ event' = Heartbeat
      /\ IF event = Heartbeat
         THEN beats' = beats + 1 /\ handled' = handled
         ELSE handled' = Append(handled, event) /\ beats' = beats
      /\ UNCHANGED <<given, channel, feedVars, cancelled, lost, clock>>
  BY DEF Handle
<1>2. /\ times' = times /\ timeOut' = timeOut /\ next' = next /\ feed' = feed
      /\ channel' = channel /\ cancelled' = cancelled /\ clock' = clock
      /\ lost' = lost /\ ~Over /\ ~Over'
  BY <1>1 DEF given, feedVars, Over
<1>3. /\ event # Heartbeat => event \in DOMAIN times /\ event < next
      /\ event = Heartbeat => beats < MaxHeartbeats
      /\ handled \in Seq(DOMAIN times)
      /\ beats \in Nat /\ MaxHeartbeats \in Nat /\ beats <= MaxHeartbeats /\ TypeOK
  BY <1>1, RunAssumption DEF Inv, WorkerInv, OrderInv, TypeOK
<1>4. /\ event # Heartbeat => Shown' = Shown \cup {event} /\ handled' \in Seq(DOMAIN times)
      /\ event = Heartbeat => Shown' = Shown
  <2> DEFINE D == DOMAIN times
  <2>1. event = Heartbeat => Shown' = Shown
    BY <1>1 DEF Shown
  <2>2. ASSUME event # Heartbeat
        PROVE  Shown' = Shown \cup {event} /\ handled' \in Seq(D)
    <3>1. event \in D /\ handled \in Seq(D) /\ handled' = Append(handled, event)
      BY <1>1, <1>3, <2>2
    <3> HIDE DEF D
    <3>2. /\ Len(handled) \in Nat /\ handled' \in Seq(D)
          /\ DOMAIN handled = 1..Len(handled) /\ DOMAIN handled' = 1..Len(handled) + 1
          /\ \A k \in 1..Len(handled) : handled'[k] = handled[k]
          /\ handled'[Len(handled) + 1] = event
      BY <3>1, AppendFacts
    <3>3. \A j \in Shown' : j \in Shown \cup {event}
      BY <3>2 DEF Shown
    <3>4. event \in Shown'
      <4>1. Len(handled) + 1 \in DOMAIN handled'
        BY <3>2
      <4>2. QED
        BY <3>2, <4>1 DEF Shown
    <3>5. ASSUME NEW k \in DOMAIN handled PROVE handled[k] \in Shown'
      <4>1. k \in DOMAIN handled' /\ handled'[k] = handled[k]
        BY <3>2, <3>5
      <4>2. QED
        BY <4>1 DEF Shown
    <3>6. QED
      BY <3>2, <3>3, <3>4, <3>5 DEF Shown
  <2>3. QED
    BY <2>1, <2>2
<1>5. /\ event # Heartbeat => Done' = Done \cup {event}
      /\ event = Heartbeat => Done' = Done
      /\ (\A i : Vis(i)' <=> Vis(i)) /\ Queued' = Queued
  BY <1>2, <1>4 DEF Done, Vis, Queued
<1>6. TypeOK'
  <2>1. handled' \in Seq(DOMAIN times) /\ beats' \in 0..MaxHeartbeats
    BY <1>1, <1>3, <1>4
  <2>2. QED
    BY <1>1, <1>2, <2>1 DEF Inv, TypeOK, Heartbeat
<1>7. WorkerInv' /\ QueueInv'
  BY <1>1, <1>2 DEF Inv, WorkerInv, QueueInv, Heartbeat
<1>8. OrderInv'
  BY <1>1, <1>2, <1>3, <1>5 DEF Inv, OrderInv, Heartbeat
<1>9. ProgressInv'
  <2>1. \A i \in 1..next - 1 : Vis(i) => i \in Done' \/ i \in Queued
    <3>1. SUFFICES ASSUME NEW i \in 1..next - 1, Vis(i)
                   PROVE  i \in Done' \/ i \in Queued
      OBVIOUS
    <3>2. i \in Done \/ i = event \/ i \in Queued
      BY <1>2, <3>1 DEF Inv, ProgressInv
    <3>3. i # Heartbeat
      BY <3>1 DEF Heartbeat
    <3>4. QED
      BY <1>5, <3>2, <3>3
  <2>2. QED
    BY <1>2, <1>5, <2>1 DEF Inv, ProgressInv
<1>10. LossInv'
  <2>1. Cardinality(lost) <= beats'
    BY <1>1, <1>2, LostFacts DEF Inv, LossInv
  <2>2. Missed' \subseteq lost
    <3>1. CASE event = Heartbeat
      BY <1>1, <1>2, <3>1, MissedKept DEF Inv, LossInv
    <3>2. CASE event # Heartbeat
      <4>1. SUFFICES ASSUME NEW i \in Missed' PROVE i \in lost
        OBVIOUS
      <4>2. Stream!Visible(1)' = Stream!Visible(1)
        BY <1>2 DEF Stream!Visible, Stream!Past
      <4>3. PICK e \in Shown' : i \in Stream!Visible(1) /\ i \notin Shown' /\ i < e
        BY <4>1, <4>2 DEF Missed
      <4>4. i \in 1..Len(times) /\ Vis(i) /\ Len(times) \in Nat /\ next \in Nat
            /\ event \in Nat
        BY <1>3, <4>3, VisibleFacts, TimesFacts
      <4>5. e \in Nat /\ e <= event
        <5>1. e \in Shown \/ e = event
          BY <1>4, <3>2
        <5>2. e \in Shown => e \in DOMAIN times
          BY <1>3 DEF Shown
        <5>3. e \in Shown => e < event
          BY <3>2 DEF Inv, OrderInv, Done
        <5>4. QED
          BY <1>3, <4>4, <5>1, <5>2, <5>3, TimesFacts
      <4>6. i \in 1..next - 1 /\ i < event
        BY <1>3, <3>2, <4>3, <4>4, <4>5
      <4>7. i \in Done \/ i = event \/ i \in Queued
        BY <1>2, <4>4, <4>6 DEF Inv, ProgressInv
      <4>8. i \notin Queued
        BY <3>2, <4>4, <4>6 DEF Inv, OrderInv
      <4>9. QED
        BY <1>4, <3>2, <4>3, <4>4, <4>6, <4>7, <4>8 DEF Done
    <3>3. QED
      BY <3>1, <3>2
  <2>3. Cardinality(Missed') <= beats'
    <3>1. Cardinality(Missed') \in Nat /\ Cardinality(Missed') <= Cardinality(lost)
      BY <1>3, <2>2, LostFacts
    <3>2. Cardinality(lost) \in Nat /\ beats' \in Nat
      BY <1>1, <1>3, LostFacts
    <3>3. QED
      BY <2>1, <3>1, <3>2
  <2>4. QED
    BY <1>1, <1>2, <2>1, <2>2, <2>3 DEF LossInv, LossesShow
<1>11. QED
  BY <1>6, <1>7, <1>8, <1>9, <1>10 DEF Inv

(* However the run ends, what it has shown stays as it is.                 *)
LEMMA WorkerEnds ==
    ASSUME Inv, NEW outcome \in {"finished", "aborted"}, EndRun(outcome),
           channel' = channel \/ channel' = Close(channel)
    PROVE  Inv'
<1>1. /\ worker' = outcome /\ event' = Heartbeat /\ cancelled'
      /\ times' = times /\ timeOut' = timeOut /\ next' = next /\ feed' = feed
      /\ handled' = handled /\ beats' = beats /\ lost' = lost /\ clock' = clock /\ Over'
      /\ cancelled' \in BOOLEAN
  BY DEF EndRun, given, feedVars, Over
<1>2. /\ channel' \in Channels(DOMAIN times) /\ channel'.queue = channel.queue
      /\ channel.closed => channel'.closed
  BY CloseFacts DEF Inv, TypeOK
<1>3. TypeOK'
  BY <1>1, <1>2 DEF Inv, TypeOK, Heartbeat
<1>4. WorkerInv' /\ QueueInv'
  BY <1>1, <1>2 DEF Inv, WorkerInv, QueueInv, Heartbeat
<1>5. Done' = Done /\ (\A i : Vis(i)' <=> Vis(i)) /\ Queued' = Queued
  BY <1>1, <1>2 DEF Done, Shown, Vis, Queued
<1>6. OrderInv' /\ ProgressInv'
  BY <1>1, <1>2, <1>5 DEF Inv, OrderInv, ProgressInv, Heartbeat
<1>7. LossInv'
  BY <1>1, LossKept DEF Inv
<1>8. QED
  BY <1>3, <1>4, <1>6, <1>7 DEF Inv

LEMMA EndRunInv ==
    ASSUME Inv, ChannelIsDone \/ TimeIsUp \/ Abort
    PROVE  Inv'
BY WorkerEnds DEF ChannelIsDone, TimeIsUp, Abort

LEMMA TickInv ==
    ASSUME Inv, Tick \/ UNCHANGED vars
    PROVE  Inv'
<1>1. /\ times' = times /\ timeOut' = timeOut /\ next' = next /\ feed' = feed
      /\ channel' = channel /\ event' = event /\ cancelled' = cancelled /\ worker' = worker
      /\ handled' = handled /\ beats' = beats /\ lost' = lost /\ Over' = Over
      /\ clock' \in 0..MaxClock
  BY RunAssumption DEF Tick, vars, given, feedVars, workerVars, Over, Inv, TypeOK
<1>2. TypeOK' /\ WorkerInv' /\ QueueInv'
  BY <1>1 DEF Inv, TypeOK, WorkerInv, QueueInv, Heartbeat
<1>3. OrderInv' /\ ProgressInv' /\ LossInv'
  BY <1>1, OrderKept, ProgressKept, LossKept DEF Inv
<1>4. QED
  BY <1>2, <1>3 DEF Inv

-----------------------------------------------------------------------------
LEMMA InitInv == Init => Inv
<1> SUFFICES ASSUME Init PROVE Inv
  OBVIOUS
<1>1. /\ times \in Seq(Nat) /\ timeOut \in BOOLEAN
      /\ channel = NewChannel /\ feed = "new" /\ next = 1 /\ cancelled = FALSE
      /\ worker = "receive" /\ event = Heartbeat /\ handled = <<>>
      /\ beats = 0 /\ lost = {} /\ clock = 0
  <2>1. PICK f \in Feeds : times = f[1] /\ timeOut = f[2]
    BY DEF Init
  <2>2. f \in Seq(Nat) \X BOOLEAN
    BY RunAssumption
  <2>3. QED
    BY <2>1, <2>2 DEF Init
<1>2. /\ channel \in Channels(DOMAIN times) /\ channel.queue = <<>> /\ ~channel.closed
      /\ Len(times) \in Nat /\ Capacity \in Nat
  BY <1>1, ChannelAssumption DEF NewChannel, Channels
<1>3. Shown = {} /\ Done = {} /\ Queued = {} /\ Missed = {} /\ ~Over
  BY <1>1, <1>2 DEF Shown, Done, Queued, Missed, Over
<1>4. TypeOK
  <2>1. <<>> \in Seq(DOMAIN times)
    OBVIOUS
  <2>2. 0 \in 0..MaxHeartbeats /\ 0 \in 0..MaxClock /\ 0 \in 0..Len(times) /\ 1 \in 1..Len(times) + 1
    BY <1>2, RunAssumption
  <2>3. QED
    BY <1>1, <1>2, <2>1, <2>2 DEF TypeOK, Heartbeat
<1>5. WorkerInv /\ QueueInv /\ OrderInv
  BY <1>1, <1>2, <1>3 DEF WorkerInv, QueueInv, OrderInv, Heartbeat
<1>6. ProgressInv
  BY <1>1, <1>2 DEF ProgressInv
<1>7. LossInv
  BY <1>1, <1>3, FS_EmptySet DEF LossInv, LossesShow
<1>8. QED
  BY <1>4, <1>5, <1>6, <1>7 DEF Inv

LEMMA NextInv == Inv /\ [Next]_vars => Inv'
<1> SUFFICES ASSUME Inv, [Next]_vars PROVE Inv'
  OBVIOUS
<1>1. CASE FeedStep
  BY <1>1, StartFeedInv, SendEventInv, EndPlayInv, ResumeSendInv, CancelSendInv,
     CloseChannelInv DEF FeedStep
<1>2. CASE WorkerStep \/ ReturnHeartbeat
  BY <1>2, TakeEventInv, ReturnEventInv, HandleInv, EndRunInv, ReturnHeartbeatInv
     DEF WorkerStep
<1>3. CASE TimeIsUp \/ Abort \/ Tick \/ UNCHANGED vars
  BY <1>3, EndRunInv, TickInv
<1>4. QED
  BY <1>1, <1>2, <1>3 DEF Next

-----------------------------------------------------------------------------
(* Every step of the feed's coroutine, of the worker, of a timeout and of  *)
(* an abort preserves the invariant.                                       *)
THEOREM Invariance == Spec => []Inv
<1>1. Init => Inv
  BY InitInv
<1>2. Inv /\ [Next]_vars => Inv'
  BY NextInv
<1>3. QED
  BY <1>1, <1>2, PTL DEF Spec

(* The shape of the state, for any feed and any timeouts.                  *)
THEOREM TypeCorrect == Spec => []TypeOK
<1>1. Inv => TypeOK
  BY DEF Inv
<1>2. QED
  BY <1>1, Invariance, PTL

(* Never more than one event waits outside of the buffer, and only while   *)
(* the feed's coroutine is suspended.                                      *)
THEOREM QueueIsBounded == Spec => []BoundedQueue
<1>1. ASSUME Inv PROVE BoundedQueue
  <2>1. Len(channel.queue) \in Nat /\ Capacity \in Nat
    BY <1>1, TimesFacts, ChannelAssumption DEF Inv
  <2>2. QED
    BY <1>1, <2>1 DEF Inv, QueueInv, BoundedQueue
<1>2. QED
  BY <1>1, Invariance, PTL

(* The strategy has seen a heartbeat for every event it missed.            *)
THEOREM LossesAreShown == Spec => []LossesShow
<1>1. Inv => LossesShow
  BY DEF Inv, LossInv
<1>2. QED
  BY <1>1, Invariance, PTL

-----------------------------------------------------------------------------
(* A run implements its stream: what the stream has seen are the events    *)
(* the run is done with, and the event in the hands of the worker is the   *)
(* next one of the stream.                                                 *)
LEMMA SeenFacts ==
    ASSUME TypeOK
    PROVE  \A i : Stream!Event(1, i) \in Stream!Seen <=> i \in Done
<1> DEFINE d == [k \in DOMAIN handled |-> [feed |-> 1, pos |-> handled[k]]]
           l == {[feed |-> 1, pos |-> e] : e \in lost}
<1>1. Stream!Seen = {d[k] : k \in DOMAIN d} \cup l
  BY DEF Stream!Seen
<1>2. ASSUME NEW i PROVE [feed |-> 1, pos |-> i] \in l <=> i \in lost
  OBVIOUS
<1>3. ASSUME NEW i PROVE [feed |-> 1, pos |-> i] \in {d[k] : k \in DOMAIN d} <=> i \in Shown
  BY DEF Shown
<1>4. QED
  BY <1>1, <1>2, <1>3 DEF Stream!Event, Done

LEMMA LeftFacts ==
    ASSUME TypeOK
    PROVE  \A i : i \in Stream!Left(1) <=> i \in DOMAIN times /\ Vis(i) /\ i \notin Done
BY SeenFacts, VisibleFacts DEF Stream!Left

LEMMA EventIsNext ==
    ASSUME Inv, ~Over, event # Heartbeat
    PROVE  event \in Stream!Left(1) /\ Stream!IsNext(1, event)
<1>1. /\ event \in DOMAIN times /\ Vis(event) /\ event < next /\ event \in Nat /\ next \in Nat
      /\ Len(times) \in Nat /\ DOMAIN times = 1..Len(times) /\ times[event] \in Nat
  BY TimesFacts DEF Inv, OrderInv
<1>2. event \notin Done
  <2>1. event \in Done => event < event
    BY DEF Inv, OrderInv
  <2>2. QED
    BY <1>1, <2>1
<1>3. event \in Stream!Left(1)
  BY <1>1, <1>2, LeftFacts DEF Inv
<1>4. ASSUME NEW j \in Stream!Left(1) PROVE event <= j /\ j \in Nat
  <2>1. j \in 1..Len(times) /\ Vis(j) /\ j \notin Done
    BY <1>1, <1>4, LeftFacts DEF Inv
  <2>2. CASE j < next
    <3>1. j \in Done \/ j = event \/ j \in Queued
      BY <1>1, <2>1, <2>2 DEF Inv, ProgressInv
    <3>2. QED
      BY <1>1, <2>1, <3>1 DEF Inv, OrderInv
  <2>3. QED
    BY <1>1, <2>1, <2>2
<1>5. Stream!IsFirst(1, event)
  BY <1>3, <1>4 DEF Stream!IsFirst
<1>6. ASSUME NEW j \in Stream!Left(1), Stream!IsFirst(1, j) PROVE j = event
  <2>1. j <= event
    BY <1>3, <1>6 DEF Stream!IsFirst
  <2>2. QED
    BY <1>1, <1>4, <2>1
<1>7. \A g \in DOMAIN <<times>> : g = 1
  OBVIOUS
<1>8. Stream!IsNext(1, event)
  BY <1>1, <1>5, <1>6, <1>7 DEF Stream!IsNext
<1>9. QED
  BY <1>3, <1>8

LEMMA InitStreams == Init => Stream!Init
<1> SUFFICES ASSUME Init PROVE Stream!Init
  OBVIOUS
<1>1. <<<<times>>, timeOut>> \in {<<<<f[1]>>, f[2]>> : f \in Feeds}
  BY DEF Init
<1> DEFINE d == [k \in DOMAIN handled |-> [feed |-> 1, pos |-> handled[k]]]
<1>2. d = <<>>
  BY DEF Init
<1>3. {[feed |-> 1, pos |-> e] : e \in lost} = {} /\ ~Over
  BY DEF Init, Over
<1>4. QED
  BY <1>1, <1>2, <1>3 DEF Stream!Init

(* The steps the stream does not see.                                      *)
LEMMA StreamStutters ==
    ASSUME UNCHANGED <<times, timeOut, handled, lost>>, Over' <=> Over, Over => worker' = worker
    PROVE  UNCHANGED Stream!vars
BY DEF Stream!vars

LEMMA HandleStreams ==
    ASSUME Inv, Handle
    PROVE  [Stream!Next]_(Stream!vars)
<1>1. /\ worker = "step" /\ worker' = "receive"
      /\ times' = times /\ timeOut' = timeOut /\ lost' = lost /\ ~Over /\ ~Over'
      /\ IF event = Heartbeat
         THEN handled' = handled
         ELSE handled' = Append(handled, event)
  BY DEF Handle, given, Over
<1>2. CASE event = Heartbeat
  BY <1>1, <1>2, StreamStutters
<1>3. CASE event # Heartbeat
  <2> DEFINE r(e) == [feed |-> 1, pos |-> e]
             d == [k \in DOMAIN handled |-> r(handled[k])]
             R == [feed : {1}, pos : DOMAIN times]
  <2>1. event \in Stream!Left(1) /\ Stream!IsNext(1, event)
    BY <1>1, <1>3, EventIsNext
  <2>2. d' = Append(d, Stream!Event(1, event))
    <3> DEFINE D == DOMAIN times
    <3>1. event \in D /\ handled \in Seq(D) /\ handled' = Append(handled, event)
      BY <1>1, <1>3 DEF Inv, OrderInv, TypeOK
    <3> HIDE DEF D
    <3>2. /\ Len(handled) \in Nat
          /\ DOMAIN handled = 1..Len(handled) /\ DOMAIN handled' = 1..Len(handled) + 1
          /\ \A k \in 1..Len(handled) : handled'[k] = handled[k]
          /\ handled'[Len(handled) + 1] = event
      BY <3>1, AppendFacts
    <3>3. d \in Seq(R) /\ Len(d) = Len(handled)
      BY <3>1, <3>2 DEF D
    <3>4. r(event) \in R
      BY <3>1 DEF D
    <3> DEFINE a == Append(d, r(event))
    <3>5. /\ DOMAIN a = 1..Len(handled) + 1
          /\ \A k \in 1..Len(handled) : a[k] = d[k]
          /\ a[Len(handled) + 1] = r(event) /\ a \in Seq(R)
      <4> HIDE DEF d, R, r
      <4>1. QED
        BY <3>2, <3>3, <3>4, AppendFacts
    <3>6. d' = [k \in 1..Len(handled) + 1 |-> r(handled'[k])]
      BY <3>2
    <3>7. \A k \in 1..Len(handled) + 1 : a[k] = d'[k]
      <4>1. SUFFICES ASSUME NEW k \in 1..Len(handled) + 1 PROVE a[k] = d'[k]
        OBVIOUS
      <4>2. CASE k = Len(handled) + 1
        BY <3>2, <3>5, <3>6, <4>2
      <4>3. CASE k \in 1..Len(handled)
        <5>1. a[k] = r(handled[k])
          BY <3>2, <3>5, <4>3
        <5>2. QED
          BY <3>2, <3>6, <4>1, <4>3, <5>1
      <4>4. QED
        BY <3>2, <4>1, <4>2, <4>3
    <3>8. a = [k \in 1..Len(handled) + 1 |-> a[k]]
      <4> HIDE DEF a
      <4>1. QED
        BY <3>5
    <3>9. QED
      BY <3>6, <3>7, <3>8 DEF Stream!Event
  <2>3. 1 \in DOMAIN <<times>>
    OBVIOUS
  <2>4. Stream!Deliver
    BY <1>1, <2>1, <2>2, <2>3 DEF Stream!Deliver
  <2>5. QED
    BY <2>4 DEF Stream!Next
<1>4. QED
  BY <1>2, <1>3

LEMMA ReturnHeartbeatStreams ==
    ASSUME Inv, ReturnHeartbeat
    PROVE  [Stream!Next]_(Stream!vars)
<1>1. /\ times' = times /\ timeOut' = timeOut /\ handled' = handled /\ timeOut
      /\ ~Over /\ ~Over' /\ worker \in {"receive", "taken"}
      /\ lost' = IF worker = "taken" THEN lost \cup {event} ELSE lost
  BY DEF ReturnHeartbeat, given, Over
<1>2. CASE worker = "receive"
  BY <1>1, <1>2, StreamStutters
<1>3. CASE worker = "taken"
  <2>1. event \in Stream!Left(1) /\ Stream!IsNext(1, event)
    BY <1>1, <1>3, EventIsNext DEF Inv, WorkerInv
  <2>2. {[feed |-> 1, pos |-> e] : e \in lost'}
          = {[feed |-> 1, pos |-> e] : e \in lost} \cup {Stream!Event(1, event)}
    BY <1>1, <1>3 DEF Stream!Event
  <2>3. 1 \in DOMAIN <<times>>
    OBVIOUS
  <2>4. Stream!Lose
    BY <1>1, <2>1, <2>2, <2>3 DEF Stream!Lose
  <2>5. QED
    BY <2>4 DEF Stream!Next
<1>4. QED
  BY <1>1, <1>2, <1>3

(* Without timeouts, a channel that is done has been emptied after the     *)
(* last event the run may see.                                             *)
LEMMA EndRunStreams ==
    ASSUME Inv, ChannelIsDone \/ TimeIsUp \/ Abort
    PROVE  [Stream!Next]_(Stream!vars)
<1>1. /\ times' = times /\ timeOut' = timeOut /\ handled' = handled /\ lost' = lost
      /\ ~Over /\ Over'
  BY DEF ChannelIsDone, TimeIsUp, Abort, EndRun, given, Over
<1>2. CASE Abort
  <2>1. Stream!Abort
    BY <1>1, <1>2 DEF Stream!Abort, Abort, EndRun
  <2>2. QED
    BY <2>1 DEF Stream!Next
<1>3. CASE TimeIsUp
  <2>1. Stream!Finish
    BY <1>1, <1>3 DEF Stream!Finish, TimeIsUp, EndRun
  <2>2. QED
    BY <2>1 DEF Stream!Next
<1>4. CASE ChannelIsDone
  <2>1. event = Heartbeat /\ channel.queue = <<>> /\ channel.closed /\ worker' = "finished"
    BY <1>4 DEF ChannelIsDone, ReceiveFails, EndRun, Inv, WorkerInv
  <2>2. Queued = {}
    BY <2>1 DEF Queued
  <2>3. ASSUME NEW i \in DOMAIN times, Vis(i) PROVE i \in Done
    <3>1. i \in 1..Len(times) /\ next \in Nat /\ Len(times) \in Nat
      BY <2>3, TimesFacts DEF Inv
    <3>2. i < next
      BY <1>1, <2>1, <2>3, <3>1 DEF Inv, ProgressInv
    <3>3. QED
      BY <1>1, <2>1, <2>2, <2>3, <3>1, <3>2 DEF Inv, ProgressInv, Heartbeat
  <2>4. Stream!Left(1) = {}
    BY <2>3, LeftFacts DEF Inv
  <2>5. \A g \in DOMAIN <<times>> : g = 1
    OBVIOUS
  <2>6. Stream!Finish
    BY <1>1, <2>1, <2>4, <2>5 DEF Stream!Finish
  <2>7. QED
    BY <2>6 DEF Stream!Next
<1>5. QED
  BY <1>2, <1>3, <1>4

LEMMA NextStreams == Inv /\ [Next]_vars => [Stream!Next]_(Stream!vars)
<1> SUFFICES ASSUME Inv, [Next]_vars PROVE [Stream!Next]_(Stream!vars)
  OBVIOUS
<1>1. CASE FeedStep \/ Tick \/ UNCHANGED vars
  <2>1. UNCHANGED <<times, timeOut, handled, lost, worker>>
    BY <1>1 DEF FeedStep, StartFeed, NeverStarted, SendEvent, EndPlay, ResumeSend, CancelSend,
                CloseChannel, Tick, vars, given, workerVars
  <2>2. QED
    BY <2>1, StreamStutters DEF Over
<1>2. CASE TakeEvent \/ ReturnEvent
  <2>1. UNCHANGED <<times, timeOut, handled, lost>> /\ ~Over /\ ~Over'
    BY <1>2 DEF TakeEvent, ReturnEvent, given, Over
  <2>2. QED
    BY <2>1, StreamStutters
<1>3. CASE Handle \/ ReturnHeartbeat \/ ChannelIsDone \/ TimeIsUp \/ Abort
  BY <1>3, HandleStreams, ReturnHeartbeatStreams, EndRunStreams
<1>4. QED
  BY <1>1, <1>2, <1>3 DEF Next, WorkerStep

(* Nothing between the feed and the strategy loses, repeats or reorders an *)
(* event: every step of a run is a step of its stream or changes nothing   *)
(* of it. (That the stream ends is checked by TLC only.)                   *)
THEOREM StreamsInOrder == Spec => Stream!Init /\ [][Stream!Next]_(Stream!vars)
<1>1. Init => Stream!Init
  BY InitStreams
<1>2. Inv /\ [Next]_vars => [Stream!Next]_(Stream!vars)
  BY NextStreams
<1>3. QED
  BY <1>1, <1>2, Invariance, PTL DEF Spec
=============================================================================
