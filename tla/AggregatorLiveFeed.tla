------------------------- MODULE AggregatorLiveFeed -------------------------
(***************************************************************************)
(* A run over an AggregatorLiveFeed (feeds/AggregatorLiveFeed.kt), which   *)
(* turns the prices of a live feed into a price bar per asset and period.  *)
(* Next to play(), which adds prices to the history, a timer takes what    *)
(* the history holds and sends it. The history is under a lock, the        *)
(* expiration time is not: play() may read an older value of it, though    *)
(* none older than what the timer's last turn with the lock, before the    *)
(* last one of play(), has made visible.                                   *)
(*                                                                         *)
(* A price is the position of its event. A bar is the price it continues,  *)
(* 0 for none, and the prices merged into it (AggregatorFeed.tla has open, *)
(* high, low, close and volume). There is no clock: a period lasts as long *)
(* as it lasts, and the live feed sends what it wants when it wants to. It *)
(* and the worker are in detail in LiveFeed.tla and Run.tla.               *)
(***************************************************************************)
EXTENDS EventChannel, SequencesExt

CONSTANTS
    Assets,
    Feeds,     \* the feeds to try: sequences of events
    Period,    \* aggregationPeriod
    FirstEnd,  \* the end of the period the run starts in
    LastEnd    \* bound: the end of a period past the timeframe, as are all later ones

ASSUME AggregatorLiveAssumption ==
    /\ Capacity > 0 /\ Period \in Nat \ {0} /\ FirstEnd \in Nat /\ LastEnd \in Nat
    /\ AfterTimeframe(LastEnd) /\ LastEnd >= FirstEnd /\ (LastEnd - FirstEnd) % Period = 0
    /\ \A f \in Feeds : f \in Seq([time : Nat, items : SUBSET Assets])

VARIABLES
    events,        \* what the live feed sends
    remaining,     \* remaining
    continuation,  \* continuation
    next,          \* the event the live feed sends next
    c,             \* inputChannel
    play,          \* where play() is
    rest,          \* the event it sends: a heartbeat, or what remains
    failed,        \* it ends with an exception
    took,          \* history variable: the prices it took, by position
    expiration,    \* expiration
    history,       \* history, by asset
    published,     \* the expiration that the timer's last turn made visible
    seen,          \* the oldest expiration that play() may still read
    timer,         \* where the timer, job2, is
    bars,          \* the event it sends
    dropped,       \* history variable: the event it had to give up
    channel,       \* channel, of the run
    cancelled,     \* the worker cancelled the job that runs play()
    worker,        \* where the worker is
    handled        \* history variable: the events the worker got

given      == <<events, remaining, continuation>>
feedVars   == <<next, c>>
playVars   == <<play, rest, failed, took, seen>>
timerVars  == <<timer, bars, dropped>>
workerVars == <<cancelled, worker, handled>>
vars       == <<given, feedVars, playVars, expiration, history, published, timerVars, channel,
                workerVars>>

(* An event has the bars it carries and the one who sends it: the timer,   *)
(* play() at its end, or the live feed, for the n-th event, a heartbeat.   *)
ByTimer   == 0
ByPlay    == -1
NoHistory == <<>>
NoBars    == [time |-> 0, bars |-> NoHistory, by |-> ByTimer]

Heartbeat(n) == [time |-> events[n].time, bars |-> NoHistory, by |-> n]

(* plus of two price bars, the second of which is a single price.          *)
AddPrice(bs, n) ==
    [a \in DOMAIN bs \cup events[n].items |->
        IF a \notin DOMAIN bs THEN [from |-> 0, prices |-> <<n>>]
        ELSE IF a \in events[n].items THEN [bs[a] EXCEPT !.prices = Append(@, n)]
        ELSE bs[a]]

LastPrice(bar) == IF bar.prices = <<>> THEN bar.from ELSE Last(bar.prices)

(* Mutant: bars go on with their prices, and not with their close alone.   *)
ContinuedWhole == IF continuation THEN history ELSE NoHistory

(* What send() leaves in the history.                                      *)
Continued ==
    IF continuation
    THEN [a \in DOMAIN history |-> [from |-> LastPrice(history[a]), prices |-> <<>>]]
    ELSE NoHistory

(* sendNotEmpty, and what is left of it when it is cancelled.              *)
Fails(e)         == e.bars # NoHistory /\ SendFails(channel, e.time)
SendNotEmpty(e)  == IF e.bars = NoHistory THEN channel ELSE Send(channel, e, e.time)
TakenBack(e)     == IF Buffered(channel, e) THEN channel ELSE Withdraw(channel, e)

Init ==
    /\ events \in Feeds /\ remaining \in BOOLEAN /\ continuation \in BOOLEAN
    /\ next = 1 /\ c = NewChannel
    /\ play = "new" /\ rest = NoBars /\ failed = FALSE /\ took = <<>>
    /\ expiration = FirstEnd /\ history = NoHistory /\ published = FirstEnd /\ seen = FirstEnd
    /\ timer = "idle" /\ bars = NoBars /\ dropped = NoBars
    /\ channel = NewChannel
    /\ cancelled = FALSE /\ worker = "running" /\ handled = <<>>

-----------------------------------------------------------------------------
(* The live feed sends an event as soon as the input channel has room.     *)
SendEvent ==
    /\ timer # "idle" /\ next <= Len(events)
    /\ Len(c.queue) < Capacity /\ ~SendFails(c, events[next].time)
    /\ c' = Send(c, next, events[next].time)
    /\ next' = next + 1
    /\ UNCHANGED <<given, playVars, expiration, history, published, timerVars, channel,
                   workerVars>>

-----------------------------------------------------------------------------
(* The timer takes the bars, with the lock ...                             *)
TakeBars ==
    /\ timer = "take"
    /\ bars' = [time |-> expiration, bars |-> history, by |-> ByTimer]
    /\ history' = Continued
    /\ published' = expiration
    /\ timer' = "send"
    /\ UNCHANGED <<given, feedVars, playVars, expiration, dropped, channel, workerVars>>

(* Mutant: the history is cleared when the bars are sent, not before.      *)
SendBarsClears ==
    /\ timer = "send" /\ ~Fails(bars)
    /\ channel' = SendNotEmpty(bars)
    /\ history' = Continued
    /\ timer' = "suspended"
    /\ UNCHANGED <<given, feedVars, playVars, expiration, published, bars, dropped, workerVars>>

(* ... and then sends them, without it. A closed channel ends the timer.   *)
SendBars ==
    /\ timer = "send" /\ ~Fails(bars)
    /\ channel' = SendNotEmpty(bars)
    /\ timer' = "suspended"
    /\ UNCHANGED <<given, feedVars, playVars, expiration, history, published, bars, dropped,
                   workerVars>>

SendBarsFails ==
    /\ timer = "send" /\ Fails(bars)
    /\ timer' = "stopped" /\ bars' = NoBars /\ dropped' = bars
    /\ UNCHANGED <<given, feedVars, playVars, expiration, history, published, channel,
                   workerVars>>

(* Mutant: the period is added twice.                                      *)
NextPeriodTwice ==
    /\ timer = "suspended" /\ Buffered(channel, bars)
    /\ expiration' = Min({expiration + 2 * Period, LastEnd})
    /\ timer' = "delay" /\ bars' = NoBars
    /\ UNCHANGED <<given, feedVars, playVars, history, published, dropped, channel, workerVars>>

NextPeriod ==
    /\ timer = "suspended" /\ Buffered(channel, bars)
    /\ expiration' = Min({expiration + Period, LastEnd})
    /\ timer' = "delay" /\ bars' = NoBars
    /\ UNCHANGED <<given, feedVars, playVars, history, published, dropped, channel, workerVars>>

(* Mutant: the timer does not wake up.                                     *)
WakeUpNever ==
    /\ timer = "delay"
    /\ timer' = "stopped"
    /\ UNCHANGED <<given, feedVars, playVars, expiration, history, published, bars, dropped,
                   channel, workerVars>>

WakeUp ==
    /\ timer = "delay"
    /\ timer' = "take"
    /\ UNCHANGED <<given, feedVars, playVars, expiration, history, published, bars, dropped,
                   channel, workerVars>>

(* play() cancels the timer when it ends without an exception, which the   *)
(* timer notices where it is suspended.                                    *)
StopTimer ==
    /\ play = "stopped" /\ ~failed /\ timer \in {"suspended", "delay"}
    /\ channel' = TakenBack(bars)
    /\ dropped' = IF Buffered(channel, bars) THEN dropped ELSE bars
    /\ timer' = "stopped" /\ bars' = NoBars
    /\ UNCHANGED <<given, feedVars, playVars, expiration, history, published, workerVars>>

TimerStep == TakeBars \/ SendBars \/ SendBarsFails \/ NextPeriod \/ WakeUp \/ StopTimer

-----------------------------------------------------------------------------
(* play(), in the coroutine of playBackground. The timer is launched; it   *)
(* waits for its first turn as it waits for a period to end.               *)
StartPlay ==
    /\ play = "new" /\ ~cancelled
    /\ play' = "receive"
    /\ timer' = "delay"
    /\ UNCHANGED <<given, feedVars, rest, failed, took, seen, expiration, history, published,
                   bars, dropped, channel, workerVars>>

(* A coroutine that is cancelled before it starts runs none of its body,   *)
(* and does not close the channel either.                                  *)
NeverStarted ==
    /\ play = "new" /\ cancelled
    /\ play' = "stopped"
    /\ UNCHANGED <<given, feedVars, rest, failed, took, seen, expiration, history, published,
                   timerVars, channel, workerVars>>

NextEvent == Head(c.queue)

(* Prices go into the history, with the lock.                              *)
AddPrices ==
    /\ play = "receive" /\ CanReceive(c) /\ events[NextEvent].items # {}
    /\ history' = AddPrice(history, NextEvent)
    /\ seen' = published
    /\ took' = Append(took, NextEvent)
    /\ c' = Receive(c)
    /\ UNCHANGED <<given, next, play, rest, failed, expiration, published, timerVars, channel,
                   workerVars>>

(* Heartbeats are passed on.                                               *)
PassHeartbeat ==
    /\ play = "receive" /\ CanReceive(c) /\ events[NextEvent].items = {}
    /\ ~SendFails(channel, events[NextEvent].time)
    /\ rest' = Heartbeat(NextEvent)
    /\ channel' = Send(channel, rest', rest'.time)
    /\ play' = "heartbeat"
    /\ c' = Receive(c)
    /\ UNCHANGED <<given, next, failed, took, seen, expiration, history, published, timerVars,
                   workerVars>>

ResumePlay ==
    /\ play = "heartbeat" /\ Buffered(channel, rest)
    /\ play' = "receive" /\ rest' = NoBars
    /\ UNCHANGED <<given, feedVars, failed, took, seen, expiration, history, published,
                   timerVars, channel, workerVars>>

(* The finally block takes what remains, with an expiration time that may  *)
(* be out of date.                                                         *)
Readable == {t \in seen..expiration : (t - seen) % Period = 0}

TakeRemaining(exception) ==
    /\ failed' = exception
    /\ IF remaining
       THEN /\ \E t \in Readable : rest' = [time |-> t, bars |-> history, by |-> ByPlay]
            /\ history' = Continued
            /\ play' = "send"
       ELSE rest' = NoBars /\ play' = "end" /\ UNCHANGED history
    /\ UNCHANGED <<given, feedVars, took, seen, expiration, published, timerVars, workerVars>>

(* A ClosedReceiveChannelException is the regular end; to be cancelled, or *)
(* a heartbeat that meets a closed channel, is not.                        *)
InputEnds ==
    /\ play = "receive" /\ ReceiveFails(c)
    /\ TakeRemaining(FALSE)
    /\ UNCHANGED channel

HeartbeatFails ==
    /\ play = "receive" /\ CanReceive(c) /\ events[NextEvent].items = {}
    /\ SendFails(channel, events[NextEvent].time)
    /\ TakeRemaining(TRUE)
    /\ UNCHANGED channel

CancelPlay ==
    /\ cancelled /\ play \in {"receive", "heartbeat"}
    /\ TakeRemaining(TRUE)
    /\ channel' = TakenBack(rest)

(* What remains is sent; a cancelled play() only sends what the channel    *)
(* has room for.                                                           *)
SendRest ==
    /\ play = "send"
    /\ LET room  == cancelled => Len(SendNotEmpty(rest).queue) <= Capacity
           fails == Fails(rest) \/ ~room
       IN  /\ channel' = IF fails THEN channel ELSE SendNotEmpty(rest)
           /\ failed' = (failed \/ fails)
           /\ play' = IF fails THEN "end" ELSE "final"
    /\ UNCHANGED <<given, feedVars, rest, took, seen, expiration, history, published, timerVars,
                   workerVars>>

CancelRest ==
    /\ cancelled /\ play = "final"
    /\ channel' = TakenBack(rest)
    /\ play' = "end" /\ failed' = TRUE
    /\ UNCHANGED <<given, feedVars, rest, took, seen, expiration, history, published, timerVars,
                   workerVars>>

(* Mutant: the channel of the run stays open.                              *)
EndPlayOpen ==
    /\ play = "end" \/ (play = "final" /\ Buffered(channel, rest))
    /\ play' = "stopped" /\ rest' = NoBars
    /\ UNCHANGED <<given, feedVars, failed, took, seen, expiration, history, published,
                   timerVars, channel, workerVars>>

EndPlay ==
    /\ play = "end" \/ (play = "final" /\ Buffered(channel, rest))
    /\ channel' = Close(channel)
    /\ play' = "stopped" /\ rest' = NoBars
    /\ UNCHANGED <<given, feedVars, failed, took, seen, expiration, history, published,
                   timerVars, workerVars>>

PlayStep == \/ StartPlay \/ NeverStarted \/ AddPrices \/ PassHeartbeat \/ ResumePlay \/ InputEnds
            \/ HeartbeatFails \/ CancelPlay \/ SendRest \/ CancelRest \/ EndPlay

-----------------------------------------------------------------------------
(* The worker of the run. Its timeout comes when the wall clock is past    *)
(* the timeframe.                                                          *)
TakeEvent ==
    /\ worker = "running" /\ CanReceive(channel)
    /\ handled' = Append(handled, Head(channel.queue))
    /\ channel' = Receive(channel)
    /\ UNCHANGED <<given, feedVars, playVars, expiration, history, published, timerVars,
                   cancelled, worker>>

EndRun(outcome) ==
    /\ worker = "running"
    /\ worker' = outcome /\ cancelled' = TRUE
    /\ UNCHANGED <<given, feedVars, playVars, expiration, history, published, timerVars, handled>>

Finish   == ReceiveFails(channel) /\ EndRun("finished") /\ UNCHANGED channel
TimeIsUp == EndRun("timeout") /\ channel' = Close(channel)
Abort    == EndRun("aborted") /\ UNCHANGED channel

WorkerStep == TakeEvent \/ Finish

Next == SendEvent \/ TimerStep \/ PlayStep \/ WorkerStep \/ TimeIsUp \/ Abort

(* Every coroutine that can go on does, and periods end. The live feed     *)
(* need not send anything, and nobody has to end the run.                  *)
Fairness == WF_vars(TimerStep) /\ WF_vars(PlayStep) /\ WF_vars(WorkerStep)

Spec == Init /\ [][Next]_vars /\ Fairness

-----------------------------------------------------------------------------
(* Properties                                                              *)

Positions == DOMAIN events
BarSpecs  == [from : Positions \cup {0}, prices : Seq(Positions)]

IsHistory(h) == DOMAIN h \subseteq Assets /\ h \in [DOMAIN h -> BarSpecs]
IsEvent(e)   == e.time \in Nat /\ IsHistory(e.bars) /\ e.by \in Positions \cup {ByTimer, ByPlay}

(* The shape of the state. What the lock has made visible is one period    *)
(* behind the expiration time at most.                                     *)
TypeOK ==
    /\ c \in Channels(Positions) /\ next \in 1..Len(events) + 1
    /\ play \in {"new", "receive", "heartbeat", "send", "final", "end", "stopped"}
    /\ timer \in {"idle", "take", "send", "suspended", "delay", "stopped"}
    /\ IsEvent(rest) /\ IsEvent(bars) /\ IsEvent(dropped) /\ IsHistory(history)
    /\ seen \in FirstEnd..published /\ published \in Nat
    /\ expiration \in published..published + Period
    /\ failed \in BOOLEAN /\ cancelled \in BOOLEAN
    /\ worker \in {"running", "finished", "timeout", "aborted"}
    /\ took \in Seq(Positions)
    /\ \A k \in DOMAIN channel.queue : IsEvent(channel.queue[k])
    /\ \A k \in DOMAIN handled : IsEvent(handled[k])

In(a, n, bs) == a \in DOMAIN bs /\ n \in ToSet(bs[a].prices)
PricesOf(a)  == {n \in ToSet(took) : a \in events[n].items}

(* A bar of an asset: all of its prices after one event and up to one of   *)
(* them, in their order, which continue the last price before, or none if  *)
(* that is not asked for.                                                  *)
IsAggregate(a, bar) ==
    \E low \in 0..Len(events), high \in PricesOf(a) :
        /\ \A i, j \in DOMAIN bar.prices : i < j => bar.prices[i] < bar.prices[j]
        /\ ToSet(bar.prices) = {n \in PricesOf(a) : low < n /\ n <= high}
        /\ continuation => low \in PricesOf(a) \cup {0}
        /\ bar.from = IF continuation THEN low ELSE 0
        /\ bar.prices = <<>> => bar.from # 0

(* Although the timer and play() race, bars are made of consecutive prices *)
(* and no price is in two of them. The bars of the timer come in the order *)
(* of their times.                                                         *)
NoPriceTwice ==
    /\ \A k \in DOMAIN handled : \A a \in DOMAIN handled[k].bars :
        IsAggregate(a, handled[k].bars[a])
    /\ \A i, j \in DOMAIN handled : i < j =>
        /\ \A a \in Assets, n \in Positions :
            ~(In(a, n, handled[i].bars) /\ In(a, n, handled[j].bars))
        /\ handled[i].by = ByTimer /\ handled[j].by = ByTimer => handled[i].time < handled[j].time

(* A run that finishes within its timeframe has seen every price play()    *)
(* took, but for those the timer had already taken, and not sent yet, when *)
(* play() closed the channel, and those of the last period when what       *)
(* remains is not sent. The timeframe must have begun by the end of the    *)
(* first period: a channel drops what comes before.                        *)
Shown(a, n) == \E k \in DOMAIN handled : In(a, n, handled[k].bars)

NothingMissing ==
    worker = "finished" /\ Start <= FirstEnd /\ ~AfterTimeframe(expiration) =>
        \A a \in Assets : \A n \in PricesOf(a) :
            \/ Shown(a, n)
            \/ In(a, n, bars.bars) \/ In(a, n, dropped.bars)
            \/ ~remaining /\ In(a, n, history)

(* A price that play() took gets to the strategy, unless the run ends.     *)
AllShown == \A a \in Assets : \A n \in PricesOf(a) : Shown(a, n)

PricesArrive == took # <<>> ~> worker # "running" \/ AllShown

(* However the run ends, play() stops and has closed the channel, unless   *)
(* the run was over before play() and the timer began. So no event is sent *)
(* to a channel that nobody reads.                                         *)
PlayStops ==
    worker # "running" ~> play = "stopped" /\ (channel.closed \/ timer = "idle")
=============================================================================
