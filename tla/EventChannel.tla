---------------------------- MODULE EventChannel ----------------------------
(***************************************************************************)
(* The channel between a feed and its consumers (feeds/EventChannel.kt): a *)
(* coroutine channel of a fixed capacity, a timeframe no event may be      *)
(* outside of, and the mutex waitOnClose() waits on.                       *)
(*                                                                         *)
(* A channel is a value; the modules that compose feeds and runs keep it   *)
(* in a variable. A coroutine whose send() is suspended because the buffer *)
(* is full already has its place in line: queue holds the buffer followed  *)
(* by the events of the suspended senders, and a sender goes on when its   *)
(* event is among the first Capacity. Closing leaves both where they are.  *)
(*                                                                         *)
(* close() is synchronized, and nobody acts on one of its three            *)
(* assignments without the others: it is a single step.                    *)
(***************************************************************************)
EXTENDS Integers, Sequences

CONSTANTS
    Capacity,      \* events the buffer holds before a sender is suspended
    Start, End,    \* the timeframe
    Inclusive      \* whether End is part of it

ASSUME ChannelAssumption ==
    Capacity \in Nat /\ Start \in Nat /\ End \in Nat /\ Inclusive \in BOOLEAN

(* Timeframe.contains and the comparison of a time with a timeframe are    *)
(* written independently of each other.                                    *)
InTimeframe(time)    == Start <= time /\ (time < End \/ (Inclusive /\ time = End))
AfterTimeframe(time) == IF Inclusive THEN time > End ELSE time >= End

Channels(Event) == [queue : Seq(Event), closed : BOOLEAN, locked : BOOLEAN]

(* The mutex is created locked.                                            *)
NewChannel == [queue |-> <<>>, closed |-> FALSE, locked |-> TRUE]

(* Mutant: closing throws away what is in the buffer, as cancel() would.   *)
CloseDiscards(ch) == [queue |-> <<>>, closed |-> TRUE, locked |-> FALSE]

Close(ch) == IF ch.closed THEN ch ELSE [ch EXCEPT !.closed = TRUE, !.locked = FALSE]

(* What send(event) does to the channel. It fails if the channel refuses   *)
(* an event that is in the timeframe; events before it are dropped.        *)
SendFails(ch, time) == InTimeframe(time) /\ ch.closed

Send(ch, event, time) ==
    CASE InTimeframe(time) /\ ~ch.closed -> [ch EXCEPT !.queue = Append(ch.queue, event)]
      [] AfterTimeframe(time)            -> Close(ch)
      [] OTHER                           -> ch

Buffered(ch, event) == \A i \in Capacity + 1..Len(ch.queue) : ch.queue[i] # event

(* A suspended sender that is cancelled takes its event back.              *)
Withdraw(ch, event) ==
    LET place == CHOOSE i \in DOMAIN ch.queue : ch.queue[i] = event
    IN  [ch EXCEPT !.queue = SubSeq(ch.queue, 1, place - 1)
                             \o SubSeq(ch.queue, place + 1, Len(ch.queue))]

(* receive() takes the oldest event, also from a closed channel, and fails *)
(* once a closed channel is empty.                                         *)
CanReceive(ch)   == ch.queue # <<>>
ReceiveFails(ch) == ch.queue = <<>> /\ ch.closed
Receive(ch)      == [ch EXCEPT !.queue = Tail(ch.queue)]
=============================================================================
