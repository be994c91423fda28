-------------------------------- MODULE Run ---------------------------------
(***************************************************************************)
(* One run (run.kt): the coroutine that plays a feed (Feed.playBackground) *)
(* and the worker that takes the events from the channel and shows each to *)
(* broker, strategy, trader and journal.                                   *)
(*                                                                         *)
(* The feed is any feed that sends its events one after the other, as      *)
(* HistoricPriceFeed does; an event is its position in the feed, and 0 is  *)
(* the heartbeat that receive() makes up when it times out. What the       *)
(* worker does with an event is private to the run, so it is one step.     *)
(***************************************************************************)
EXTENDS EventChannel, FiniteSets

CONSTANTS
    Feeds,         \* the feeds to try: the event times, and whether receive()
                   \* has a timeout
    MaxClock,      \* bound: the wall clock, which heartbeats carry
    MaxHeartbeats  \* bound: heartbeats in a run

ASSUME RunAssumption ==
    /\ \A f \in Feeds : f \in Seq(Nat) \X BOOLEAN
    /\ MaxClock \in Nat /\ MaxHeartbeats \in Nat

VARIABLES
    times,         \* the feed: the times of its events
    timeOut,       \* whether receive() has a timeout
    channel,       \* channel
    feed,          \* where the feed's coroutine is
    next,          \* the event it sends next
    cancelled,     \* the worker cancelled the feed's job
    worker,        \* where the worker is
    event,         \* the event it works on
    handled,       \* history: the events of the feed it worked on
    beats,         \* history: how many heartbeats it worked on
    lost,          \* history: the events a timeout dropped
    clock          \* Instant.now()

feedVars   == <<feed, next>>
given      == <<times, timeOut>>
workerVars == <<worker, event, handled, beats, lost>>
vars       == <<given, channel, feedVars, cancelled, workerVars, clock>>

Heartbeat == 0
Over      == worker \in {"finished", "aborted"}

Init ==
    /\ \E f \in Feeds : times = f[1] /\ timeOut = f[2]
    /\ channel = NewChannel
    /\ feed = "new" /\ next = 1 /\ cancelled = FALSE
    /\ worker = "receive" /\ event = Heartbeat /\ handled = <<>>
    /\ beats = 0 /\ lost = {} /\ clock = 0

-----------------------------------------------------------------------------
(* The feed's coroutine. Cancellation is noticed where the coroutine is    *)
(* suspended, and before it starts, but not by a send() that has room.     *)
StartFeed ==
    /\ feed = "new" /\ ~cancelled
    /\ feed' = "send"
    /\ UNCHANGED <<given, channel, next, cancelled, workerVars, clock>>

NeverStarted ==
    /\ feed = "new" /\ cancelled
    /\ feed' = "stopped"
    /\ UNCHANGED <<given, channel, next, cancelled, workerVars, clock>>

(* Mutants: the sender is never suspended; a full buffer drops the event.  *)
SendUnbounded ==
    /\ feed = "send" /\ next <= Len(times)
    /\ ~SendFails(channel, times[next])
    /\ channel' = Send(channel, next, times[next])
    /\ next' = next + 1
    /\ UNCHANGED <<given, feed, cancelled, workerVars, clock>>

SendOrDrop ==
    /\ feed = "send" /\ next <= Len(times)
    /\ ~SendFails(channel, times[next])
    /\ channel' = IF Len(channel.queue) < Capacity THEN Send(channel, next, times[next])
                  ELSE channel
    /\ next' = next + 1
    /\ UNCHANGED <<given, feed, cancelled, workerVars, clock>>

SendEvent ==
    /\ feed = "send" /\ next <= Len(times)
    /\ ~SendFails(channel, times[next])
    /\ channel' = Send(channel, next, times[next])
    /\ feed' = IF Buffered(channel', next) THEN "send" ELSE "suspended"
    /\ next' = next + 1
    /\ UNCHANGED <<given, cancelled, workerVars, clock>>

(* ClosedSendChannelException, or play() has returned.                     *)
EndPlay ==
    /\ feed = "send"
    /\ next <= Len(times) => SendFails(channel, times[next])
    /\ feed' = "closing"
    /\ UNCHANGED <<given, channel, next, cancelled, workerVars, clock>>

(* Mutant: an event is skipped when the sender goes on.                    *)
ResumeSkips ==
    /\ feed = "suspended" /\ Buffered(channel, next - 1)
    /\ feed' = "send" /\ next' = next + 1
    /\ UNCHANGED <<given, channel, cancelled, workerVars, clock>>

ResumeSend ==
    /\ feed = "suspended" /\ Buffered(channel, next - 1)
    /\ feed' = "send"
    /\ UNCHANGED <<given, channel, next, cancelled, workerVars, clock>>

(* A sender that is cancelled when its event already has a place in the    *)
(* buffer is still cancelled, and the event stays.                         *)
CancelSend ==
    /\ feed = "suspended" /\ cancelled
    /\ channel' = IF Buffered(channel, next - 1) THEN channel
                  ELSE Withdraw(channel, next - 1)
    /\ feed' = "closing"
    /\ UNCHANGED <<given, next, cancelled, workerVars, clock>>

(* channel.use closes the channel, whatever way play() ended.              *)
CloseChannel ==
    /\ feed = "closing"
    /\ channel' = Close(channel)
    /\ feed' = "stopped"
    /\ UNCHANGED <<given, next, cancelled, workerVars, clock>>

FeedStep == \/ StartFeed \/ NeverStarted \/ SendEvent \/ EndPlay
            \/ ResumeSend \/ CancelSend \/ CloseChannel

-----------------------------------------------------------------------------
(* The worker. receive() takes an event from the channel before it returns *)
(* it, and a timeout may come in between.                                  *)
TakeEvent ==
    /\ worker = "receive" /\ CanReceive(channel)
    /\ event' = Head(channel.queue)
    /\ channel' = Receive(channel)
    /\ worker' = "taken"
    /\ UNCHANGED <<given, feedVars, cancelled, handled, beats, lost, clock>>

ReturnEvent ==
    /\ worker = "taken"
    /\ worker' = "step"
    /\ UNCHANGED <<given, channel, feedVars, cancelled, event, handled, beats, lost, clock>>

(* The timeout makes up a heartbeat, and drops the event that was taken.   *)
ReturnHeartbeat ==
    /\ timeOut /\ beats < MaxHeartbeats
    /\ worker \in {"receive", "taken"}
    /\ ~AfterTimeframe(clock)
    /\ lost' = IF worker = "taken" THEN lost \cup {event} ELSE lost
    /\ event' = Heartbeat
    /\ worker' = "step"
    /\ UNCHANGED <<given, channel, feedVars, cancelled, handled, beats, clock>>

(* sync, createSignals, createOrders, placeOrders, track                   *)
Handle ==
    /\ worker = "step"
    /\ IF event = Heartbeat
       THEN beats' = beats + 1 /\ UNCHANGED handled
       ELSE handled' = Append(handled, event) /\ UNCHANGED beats
    /\ event' = Heartbeat
    /\ worker' = "receive"
    /\ UNCHANGED <<given, channel, feedVars, cancelled, lost, clock>>

(* Mutant: the feed's job is left alone.                                   *)
EndRunOnly(outcome) ==
    /\ worker' = outcome /\ event' = Heartbeat
    /\ UNCHANGED <<given, feedVars, cancelled, handled, beats, lost, clock>>

(* However the loop ends, the feed's job is cancelled.                     *)
EndRun(outcome) ==
    /\ worker' = outcome /\ event' = Heartbeat
    /\ cancelled' = TRUE
    /\ UNCHANGED <<given, feedVars, handled, beats, lost, clock>>

(* ClosedReceiveChannelException, from the channel ...                     *)
ChannelIsDone ==
    /\ worker = "receive" /\ ReceiveFails(channel)
    /\ EndRun("finished")
    /\ UNCHANGED channel

(* ... or from a timeout after the end of the timeframe.                   *)
TimeIsUp ==
    /\ timeOut
    /\ worker \in {"receive", "taken"}
    /\ AfterTimeframe(clock)
    /\ channel' = Close(channel)
    /\ EndRun("finished")

(* An exception of a component, an interrupt, or the worker is cancelled.  *)
Abort ==
    /\ ~Over
    /\ EndRun("aborted")
    /\ UNCHANGED channel

WorkerStep == TakeEvent \/ ReturnEvent \/ Handle \/ ChannelIsDone

Tick ==
    /\ timeOut /\ clock < MaxClock
    /\ clock' = clock + 1
    /\ UNCHANGED <<given, channel, feedVars, cancelled, workerVars>>

Next == FeedStep \/ WorkerStep \/ ReturnHeartbeat \/ TimeIsUp \/ Abort \/ Tick

(* Both coroutines run on a pool of threads that serves every coroutine    *)
(* that can go on. Nobody has to abort the run, and no timeout has to      *)
(* fire.                                                                   *)
Fairness == WF_vars(FeedStep) /\ WF_vars(WorkerStep)

Spec == Init /\ [][Next]_vars /\ Fairness

-----------------------------------------------------------------------------
(* Properties                                                              *)

(* The shape of the state of a run.                                        *)
TypeOK ==
    /\ times \in Seq(Nat) /\ timeOut \in BOOLEAN
    /\ channel \in Channels(DOMAIN times)
    /\ feed \in {"new", "send", "suspended", "closing", "stopped"}
    /\ next \in 1..Len(times) + 1
    /\ cancelled \in BOOLEAN
    /\ worker \in {"receive", "taken", "step", "finished", "aborted"}
    /\ event \in 0..Len(times)
    /\ handled \in Seq(DOMAIN times) /\ beats \in 0..MaxHeartbeats
    /\ lost \subseteq DOMAIN times
    /\ clock \in 0..MaxClock

(* The run implements the stream it promises: nothing between the feed and *)
(* the strategy loses, repeats or reorders an event, a full channel and a  *)
(* channel that closes early included, and the run comes to an end. With   *)
(* timeouts the only events that get lost are those a timeout drops, and   *)
(* no event is lost that the strategy has seen or will see.                *)
Stream == INSTANCE EventStream
          WITH Feeds <- {<<<<f[1]>>, f[2]>> : f \in Feeds},
               times <- <<times>>,
               lossy <- timeOut,
               delivered <- [i \in DOMAIN handled |-> [feed |-> 1, pos |-> handled[i]]],
               lost <- {[feed |-> 1, pos |-> e] : e \in lost},
               outcome <- IF Over THEN worker ELSE "running"

StreamsEvents == Stream!Spec

(* An EventChannel has limited capacity to prevent memory problems: with   *)
(* one feed, at most one event is waiting outside of the buffer.           *)
BoundedQueue ==
    /\ Len(channel.queue) <= Capacity + 1
    /\ feed # "suspended" => Len(channel.queue) <= Capacity

(* However the run ends, the feed stops: no coroutine is left suspended on *)
(* a channel nobody reads.                                                 *)
FeedStops == Over ~> feed = "stopped"

(* With timeouts events can get lost (see ReturnHeartbeat), but whenever   *)
(* the strategy sees an event it has seen at least one heartbeat for every *)
(* event of the stream it missed before that one.                          *)
Shown  == {handled[k] : k \in DOMAIN handled}
Missed == {i \in Stream!Visible(1) \ Shown : \E e \in Shown : i < e}

LossesShow == Cardinality(Missed) <= beats
=============================================================================
