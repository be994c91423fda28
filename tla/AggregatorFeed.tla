--------------------------- MODULE AggregatorFeed ---------------------------
(***************************************************************************)
(* A run over an AggregatorFeed (feeds/AggregatorFeed.kt), which turns the *)
(* prices of another feed into one price bar per asset and period. The     *)
(* other feed plays in a coroutine of its own on a channel of its own;     *)
(* play() reads that channel and sends a bar event when an event arrives   *)
(* that is past the current window.                                        *)
(*                                                                         *)
(* An event has a time and items, each the bar of an asset: a trade, quote *)
(* or order book is a flat bar, and items getPriceBar does not recognize   *)
(* are left out. The worker of the run has no timeout and takes one step   *)
(* per event; Run.tla has it in detail.                                    *)
(***************************************************************************)
EXTENDS EventChannel, SequencesExt

CONSTANTS
    Assets,
    Feeds,     \* the feeds to try: sequences of events in the order of time
    Period     \* aggregationPeriod

Bars == [open : Nat, high : Nat, low : Nat, close : Nat, volume : Nat]

ASSUME AggregatorAssumption ==
    /\ Capacity > 0 /\ Period \in Nat \ {0}
    /\ \A f \in Feeds :
        /\ f \in Seq([time : Nat, items : Seq([asset : Assets, bar : Bars])])
        /\ \A i, j \in DOMAIN f : i <= j => f[i].time <= f[j].time

VARIABLES
    events,        \* feed: what it sends
    remaining,     \* remaining
    c,             \* c, the channel of the feed
    feed,          \* where the feed's coroutine is
    next,          \* the event it sends next
    feedCancelled, \* play() cancelled its job
    play,          \* where play() is
    event,         \* the event it took, by position
    expiration,    \* expiration, 0 for null
    history,       \* history: the bars of the window so far, by asset
    upTo,          \* history variable: the last event that is in them
    channel,       \* channel, of the run
    cancelled,     \* the worker cancelled the job that runs play()
    worker,        \* where the worker is
    handled        \* history variable: the bar events it worked on

given      == <<events, remaining>>
feedVars   == <<feed, next>>
window     == <<expiration, history, upTo>>
playVars   == <<play, event, window, feedCancelled>>
workerVars == <<cancelled, worker, handled>>
vars       == <<given, c, feedVars, playVars, channel, workerVars>>

Time(n)   == events[n].time
NoHistory == <<>>

Highest(a, b) == IF a > b THEN a ELSE b
Lowest(a, b)  == IF a < b THEN a ELSE b

(* expirationTime: the end of the period a time is in.                     *)
ExpirationTime(time) == (time \div Period) * Period + Period

(* Mutant: a window that is one period on, whatever the time.              *)
NextExpirationOne(time) == expiration + Period

(* The do-while loop that follows a window: at least one period on, and    *)
(* more until the time is not past the end of the new one.                 *)
NextExpiration(time) ==
    expiration + Period * Highest(1, (time - expiration + Period - 1) \div Period)

Merge(bar, other) ==
    [bar EXCEPT !.high = Highest(@, other.high), !.low = Lowest(@, other.low),
                !.close = other.close, !.volume = @ + other.volume]

AddItem(bars, item) ==
    [a \in DOMAIN bars \cup {item.asset} |->
        IF a # item.asset THEN bars[a]
        ELSE IF a \in DOMAIN bars THEN Merge(bars[a], item.bar) ELSE item.bar]

AddItems(bars, n) ==
    LET items == events[n].items
        added[j \in 0..Len(items)] == IF j = 0 THEN bars ELSE AddItem(added[j - 1], items[j])
    IN  added[Len(items)]

(* sendNotEmpty of the bars of the window.                                 *)
BarEvent == [time |-> expiration, bars |-> history, upTo |-> upTo]
SendBars(ch) ==
    IF history = NoHistory THEN ch ELSE Send(ch, BarEvent, expiration)

SendRemaining(ch) == IF remaining /\ expiration # 0 THEN SendBars(ch) ELSE ch

Init ==
    /\ events \in Feeds /\ remaining \in BOOLEAN
    /\ c = NewChannel /\ channel = NewChannel
    /\ feed = "idle" /\ next = 1 /\ feedCancelled = FALSE
    /\ play = "new" /\ event = 0
    /\ expiration = 0 /\ history = NoHistory /\ upTo = 0
    /\ cancelled = FALSE /\ worker = "running" /\ handled = <<>>

-----------------------------------------------------------------------------
(* The coroutine of the feed, as in Run.                                   *)
StartFeed ==
    /\ feed = "new"
    /\ feed' = IF feedCancelled THEN "stopped" ELSE "send"
    /\ UNCHANGED <<given, c, next, playVars, channel, workerVars>>

SendEvent ==
    /\ feed = "send" /\ next <= Len(events)
    /\ ~SendFails(c, Time(next))
    /\ c' = Send(c, next, Time(next))
    /\ feed' = IF Buffered(c', next) THEN "send" ELSE "suspended"
    /\ next' = next + 1
    /\ UNCHANGED <<given, playVars, channel, workerVars>>

EndFeed ==
    /\ feed = "send"
    /\ next <= Len(events) => SendFails(c, Time(next))
    /\ feed' = "closing"
    /\ UNCHANGED <<given, c, next, playVars, channel, workerVars>>

(* Mutant: an event is skipped when the sender goes on.                    *)
ResumeSkips ==
    /\ feed = "suspended" /\ Buffered(c, next - 1)
    /\ feed' = "send" /\ next' = next + 1
    /\ UNCHANGED <<given, c, playVars, channel, workerVars>>

ResumeSend ==
    /\ feed = "suspended" /\ Buffered(c, next - 1)
    /\ feed' = "send"
    /\ UNCHANGED <<given, c, next, playVars, channel, workerVars>>

CancelSend ==
    /\ feed = "suspended" /\ feedCancelled
    /\ c' = IF Buffered(c, next - 1) THEN c ELSE Withdraw(c, next - 1)
    /\ feed' = "closing"
    /\ UNCHANGED <<given, next, playVars, channel, workerVars>>

(* Mutant: the channel stays open.                                         *)
CloseFeedNot ==
    /\ feed = "closing"
    /\ feed' = "stopped"
    /\ UNCHANGED <<given, c, next, playVars, channel, workerVars>>

CloseFeed ==
    /\ feed = "closing"
    /\ c' = Close(c)
    /\ feed' = "stopped"
    /\ UNCHANGED <<given, next, playVars, channel, workerVars>>

FeedStep == StartFeed \/ SendEvent \/ EndFeed \/ ResumeSend \/ CancelSend \/ CloseFeed

-----------------------------------------------------------------------------
(* play()                                                                  *)
StartPlay ==
    /\ play = "new"
    /\ IF cancelled THEN play' = "stopped" /\ UNCHANGED feed
       ELSE play' = "receive" /\ feed' = "new"
    /\ UNCHANGED <<given, c, next, event, window, feedCancelled, channel, workerVars>>

NextEvent == Head(c.queue)

(* The event is in the current window, or it is the first one.             *)
AddToWindow ==
    /\ play = "receive" /\ CanReceive(c)
    /\ expiration = 0 \/ Time(NextEvent) < expiration
    /\ expiration' = IF expiration = 0 THEN ExpirationTime(Time(NextEvent)) ELSE expiration
    /\ history' = AddItems(history, NextEvent)
    /\ upTo' = NextEvent
    /\ c' = Receive(c)
    /\ UNCHANGED <<given, feedVars, play, event, feedCancelled, channel, workerVars>>

(* The event is past the window: the bars are sent, which may take a while *)
CloseWindow ==
    /\ play = "receive" /\ CanReceive(c)
    /\ expiration # 0 /\ Time(NextEvent) >= expiration
    /\ ~SendFails(channel, expiration)
    /\ channel' = SendBars(channel)
    /\ event' = NextEvent
    /\ c' = Receive(c)
    /\ play' = "send"
    /\ UNCHANGED <<given, feedVars, window, feedCancelled, workerVars>>

(* ... and then the event opens the next window.                           *)
OpenWindow ==
    /\ play = "send" /\ Buffered(channel, BarEvent)
    /\ expiration' = NextExpiration(Time(event))
    /\ history' = AddItems(NoHistory, event)
    /\ upTo' = event
    /\ play' = "receive" /\ event' = 0
    /\ UNCHANGED <<given, c, feedVars, feedCancelled, channel, workerVars>>

(* Mutant: nothing is sent at the end.                                     *)
EndWindowsDrop ==
    /\ play = "receive" /\ ReceiveFails(c)
    /\ play' = "final"
    /\ UNCHANGED <<given, c, feedVars, event, window, feedCancelled, channel, workerVars>>

(* ClosedReceiveChannelException: the rest is sent.                        *)
EndWindows ==
    /\ play = "receive" /\ ReceiveFails(c)
    /\ channel' = SendRemaining(channel)
    /\ play' = "final"
    /\ UNCHANGED <<given, c, feedVars, event, window, feedCancelled, workerVars>>

EndPlay ==
    /\ play = "final" /\ Buffered(channel, BarEvent)
    /\ feedCancelled' = TRUE
    /\ play' = "closing"
    /\ UNCHANGED <<given, c, feedVars, event, window, channel, workerVars>>

(* A cancelled play() still runs its finally block. There the rest is sent *)
(* only if the channel has room; if it has not, send() throws, and the     *)
(* feed's job is not cancelled.                                            *)
TakenBack(ch) == IF Buffered(ch, BarEvent) THEN ch ELSE Withdraw(ch, BarEvent)

CancelPlay ==
    /\ cancelled /\ play \in {"receive", "send"}
    /\ LET rest == SendRemaining(TakenBack(channel))
           room == Len(rest.queue) <= Capacity
       IN  /\ channel' = IF room THEN rest ELSE TakenBack(channel)
           /\ feedCancelled' = room
    /\ play' = "closing" /\ event' = 0
    /\ UNCHANGED <<given, c, feedVars, window, workerVars>>

CancelRest ==
    /\ cancelled /\ play = "final"
    /\ channel' = TakenBack(channel)
    /\ play' = "closing"
    /\ UNCHANGED <<given, c, feedVars, event, window, feedCancelled, workerVars>>

(* channel.use                                                             *)
ClosePlay ==
    /\ play = "closing"
    /\ channel' = Close(channel)
    /\ play' = "stopped"
    /\ UNCHANGED <<given, c, feedVars, event, window, feedCancelled, workerVars>>

PlayStep == \/ StartPlay \/ AddToWindow \/ CloseWindow \/ OpenWindow \/ EndWindows
            \/ EndPlay \/ CancelPlay \/ CancelRest \/ ClosePlay

-----------------------------------------------------------------------------
(* The worker of the run.                                                  *)
TakeEvent ==
    /\ worker = "running" /\ CanReceive(channel)
    /\ handled' = Append(handled, Head(channel.queue))
    /\ channel' = Receive(channel)
    /\ UNCHANGED <<given, c, feedVars, playVars, cancelled, worker>>

(* Mutant: the job that runs play() is left alone.                         *)
EndRunOnly(outcome) ==
    /\ worker = "running"
    /\ worker' = outcome
    /\ UNCHANGED <<given, c, feedVars, playVars, channel, cancelled, handled>>

EndRun(outcome) ==
    /\ worker = "running"
    /\ worker' = outcome /\ cancelled' = TRUE
    /\ UNCHANGED <<given, c, feedVars, playVars, channel, handled>>

Finish     == ReceiveFails(channel) /\ EndRun("finished")
Abort      == EndRun("aborted")
WorkerStep == TakeEvent \/ Finish

Next == FeedStep \/ PlayStep \/ WorkerStep \/ Abort

(* All coroutines run on a pool of threads that serves every one that can  *)
(* go on; nobody has to abort the run.                                     *)
Fairness == WF_vars(FeedStep) /\ WF_vars(PlayStep) /\ WF_vars(WorkerStep)

Spec == Init /\ [][Next]_vars /\ Fairness

-----------------------------------------------------------------------------
(* Properties                                                              *)

IsBarEvent(b) ==
    /\ DOMAIN b = {"time", "bars", "upTo"}
    /\ b.time \in Nat /\ b.upTo \in 0..Len(events)
    /\ DOMAIN b.bars \subseteq Assets
    /\ \A a \in DOMAIN b.bars : b.bars[a] \in Bars

(* The shape of the state of an aggregating feed.                          *)
TypeOK ==
    /\ events \in Seq([time : Nat, items : Seq([asset : Assets, bar : Bars])])
    /\ remaining \in BOOLEAN
    /\ c \in Channels(DOMAIN events)
    /\ feed \in {"idle", "new", "send", "suspended", "closing", "stopped"}
    /\ next \in 1..Len(events) + 1
    /\ play \in {"new", "receive", "send", "final", "closing", "stopped"}
    /\ event \in 0..Len(events) /\ (event # 0 <=> play = "send")
    /\ IsBarEvent(BarEvent)
    /\ feedCancelled \in BOOLEAN /\ cancelled \in BOOLEAN
    /\ worker \in {"running", "finished", "aborted"}
    /\ \A k \in DOMAIN channel.queue : IsBarEvent(channel.queue[k])
    /\ \A k \in DOMAIN handled : IsBarEvent(handled[k])

(* The items of asset a in a set of events, as event and place in it.      *)
Visible      == {n \in DOMAIN events : InTimeframe(Time(n))}
Parts(ns, a) == UNION {{<<n, j>> : j \in {i \in DOMAIN events[n].items :
                                            events[n].items[i].asset = a}} : n \in ns}
Part(p)      == events[p[1]].items[p[2]].bar
Before(p, q) == p[1] < q[1] \/ (p[1] = q[1] /\ p[2] <= q[2])

IsAggregate(bar, ps) ==
    /\ \E p \in ps : bar.open = Part(p).open /\ \A q \in ps : Before(p, q)
    /\ \E p \in ps : bar.close = Part(p).close /\ \A q \in ps : Before(q, p)
    /\ \E p \in ps : bar.high = Part(p).high /\ \A q \in ps : Part(q).high <= bar.high
    /\ \E p \in ps : bar.low = Part(p).low /\ \A q \in ps : bar.low <= Part(q).low

(* The volume of an asset in an event, and in all events up to one.        *)
Total(s) ==
    LET sum[n \in 0..Len(s)] == IF n = 0 THEN 0 ELSE sum[n - 1] + s[n]
    IN  sum[Len(s)]

ItemVolume(item, a) == IF item.asset = a THEN item.bar.volume ELSE 0
VolumeIn(n, a) ==
    Total([j \in DOMAIN events[n].items |-> ItemVolume(events[n].items[j], a)])
VolumeUpTo(to, a) == Total([n \in 1..to |-> IF n \in Visible THEN VolumeIn(n, a) ELSE 0])

(* The events whose prices a bar event is made of: those up to upTo, after *)
(* those of the one before it.                                             *)
Segment(from, to) == {n \in Visible : from < n /\ n <= to}
From(s, k)        == IF k = 1 THEN 0 ELSE s[k - 1].upTo

HasBars(e, from) ==
    \A a \in Assets : LET ps == Parts(Segment(from, e.upTo), a) IN
        IF a \in DOMAIN e.bars
        THEN /\ IsAggregate(e.bars[a], ps)
             /\ e.bars[a].volume = VolumeUpTo(e.upTo, a) - VolumeUpTo(from, a)
        ELSE ps = {}

InWindow(e, from) ==
    \A n \in Segment(from, e.upTo) : events[n].items # <<>> =>
        e.time - Period <= Time(n) /\ Time(n) <= e.time

(* The bars cut the feed into pieces: every price the strategy sees is in  *)
(* exactly one bar, the bar of its window, which has the first price, the  *)
(* last, the extremes and the whole volume. No bar shows a price from      *)
(* after its own time, and the bars come in the order of their times.      *)
EveryPriceInOneBar ==
    \A k \in DOMAIN handled :
        /\ k > 1 => handled[k - 1].time < handled[k].time
        /\ HasBars(handled[k], From(handled, k))
        /\ InWindow(handled[k], From(handled, k))

(* A run that finishes has seen the price of every event in the timeframe, *)
(* but for those whose window ends after it, and, when nothing remaining   *)
(* is sent, those of the last window.                                      *)
WindowEnd(time) == time + Period - (time % Period)

NothingMissing ==
    worker = "finished" =>
        \A n \in Visible : events[n].items # <<>> =>
            \/ handled # <<>> /\ n <= Last(handled).upTo
            \/ AfterTimeframe(WindowEnd(Time(n)))
            \/ ~remaining /\ \A m \in Visible : Time(m) <= WindowEnd(Time(n))

(* The run comes to an end, whatever is in the feed.                       *)
RunEnds == <>(worker # "running")

(* Once it has, play() stops. When the run was not aborted the feed below  *)
(* stops too; an aborted one may leave it behind (see CancelPlay).         *)
JobsStop ==
    /\ worker # "running" ~> play = "stopped"
    /\ worker = "finished" ~> feed = "stopped"
=============================================================================
