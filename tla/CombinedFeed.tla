---------------------------- MODULE CombinedFeed ----------------------------
(***************************************************************************)
(* A run over a CombinedFeed (feeds/CombinedFeed.kt). Every feed plays in  *)
(* a coroutine of its own, on a channel of its own. The merge, another     *)
(* coroutine, holds at most one event of each of them, sends the earliest  *)
(* to the channel of the run, and then waits for the successor of that     *)
(* event. play() waits for all of them.                                    *)
(*                                                                         *)
(* The feeds send what they have one event after the other. The worker of  *)
(* the run has no timeout and takes one step per event; Run.tla has it in  *)
(* detail.                                                                 *)
(***************************************************************************)
EXTENDS Integers, Sequences, FiniteSets

CONSTANTS
    Combinations,      \* the combinations to try: tuples of sequences of times
    MaxFeeds,          \* bound: feeds in a combination
    ChannelCapacity,   \* channelCapacity, of the channel of a feed
    MainCapacity,      \* capacity of the channel of the run
    Start, End, Inclusive

ASSUME CombinedFeedAssumption ==
    /\ ChannelCapacity \in Nat \ {0} /\ MainCapacity \in Nat \ {0}
    /\ MaxFeeds \in Nat
    /\ Start \in Nat /\ End \in Nat /\ Inclusive \in BOOLEAN
    /\ \A c \in Combinations : c \in Seq(Seq(Nat)) /\ Len(c) <= MaxFeeds

VARIABLES
    times,       \* the feeds: the times of their events
    channels,    \* channels, one per feed
    feeds,       \* where the coroutine of a feed is
    next,        \* the event a feed sends next
    merge,       \* where the merge is, in process()
    source,      \* the feed whose channel it reads
    queue,       \* queue, its QueueEntries
    mainChannel, \* the channel of the run
    play,        \* where play() is
    cancelled,   \* the worker cancelled the job that runs play()
    worker,      \* where the worker is
    handled      \* history: the events it worked on

feedVars   == <<channels, feeds, next>>
mergeVars  == <<merge, source, queue>>
workerVars == <<cancelled, worker, handled>>
vars       == <<times, feedVars, mergeVars, mainChannel, play, workerVars>>

Main == INSTANCE EventChannel WITH Capacity <- MainCapacity
Sub  == INSTANCE EventChannel WITH Capacity <- ChannelCapacity

Feeds    == DOMAIN times
Events   == UNION {{[feed |-> f, pos |-> i] : i \in DOMAIN times[f]} : f \in Feeds}
Time(e)  == times[e.feed][e.pos]

Init ==
    /\ times \in Combinations
    /\ channels = [f \in Feeds |-> Sub!NewChannel]
    /\ feeds = [f \in Feeds |-> "new"] /\ next = [f \in Feeds |-> 1]
    /\ merge = "new" /\ source = 1 /\ queue = {}
    /\ mainChannel = Main!NewChannel
    /\ play = "new" /\ cancelled = FALSE
    /\ worker = "running" /\ handled = <<>>

-----------------------------------------------------------------------------
(* Mutant: the coroutine of a feed is never suspended.                     *)
SendUnbounded(f) ==
    /\ feeds[f] = "send" /\ next[f] <= Len(times[f])
    /\ ~Sub!SendFails(channels[f], times[f][next[f]])
    /\ channels' = [channels EXCEPT ![f] = Sub!Send(@, next[f], times[f][next[f]])]
    /\ next' = [next EXCEPT ![f] = @ + 1]
    /\ UNCHANGED <<times, feeds, mergeVars, mainChannel, play, workerVars>>

(* The coroutine of a feed. Nobody ever cancels it.                        *)
SendEvent(f) ==
    /\ feeds[f] = "send" /\ next[f] <= Len(times[f])
    /\ ~Sub!SendFails(channels[f], times[f][next[f]])
    /\ channels' = [channels EXCEPT ![f] = Sub!Send(@, next[f], times[f][next[f]])]
    /\ feeds' = [feeds EXCEPT ![f] = IF Sub!Buffered(channels'[f], next[f]) THEN @
                                     ELSE "suspended"]
    /\ next' = [next EXCEPT ![f] = @ + 1]
    /\ UNCHANGED <<times, mergeVars, mainChannel, play, workerVars>>

ResumeSend(f) ==
    /\ feeds[f] = "suspended" /\ Sub!Buffered(channels[f], next[f] - 1)
    /\ feeds' = [feeds EXCEPT ![f] = "send"]
    /\ UNCHANGED <<times, channels, next, mergeVars, mainChannel, play, workerVars>>

(* It is played in the background too: its channel is closed after it.     *)
EndFeed(f) ==
    /\ feeds[f] = "send"
    /\ next[f] <= Len(times[f]) => Sub!SendFails(channels[f], times[f][next[f]])
    /\ channels' = [channels EXCEPT ![f] = Sub!Close(@)]
    /\ feeds' = [feeds EXCEPT ![f] = "stopped"]
    /\ UNCHANGED <<times, next, mergeVars, mainChannel, play, workerVars>>

FeedStep(f) == SendEvent(f) \/ ResumeSend(f) \/ EndFeed(f)

-----------------------------------------------------------------------------
(* Mutant: the merge reads one channel too many.                           *)
NextSourceTooFar ==
    LET more == merge = "prefill" /\ source <= Len(times)
    IN  /\ source' = IF more THEN source + 1 ELSE source
        /\ merge' = IF more THEN "prefill" ELSE "send"

(* The merge. It reads every channel once, and from then on only the       *)
(* channel it has just sent an event of.                                   *)
NextSource ==
    LET more == merge = "prefill" /\ source < Len(times)
    IN  /\ source' = IF more THEN source + 1 ELSE source
        /\ merge' = IF more THEN "prefill" ELSE "send"

FetchEvent ==
    /\ merge \in {"prefill", "refill"} /\ Sub!CanReceive(channels[source])
    /\ queue' = queue \cup {[feed |-> source, pos |-> Head(channels[source].queue)]}
    /\ channels' = [channels EXCEPT ![source] = Sub!Receive(@)]
    /\ NextSource
    /\ UNCHANGED <<times, feeds, next, mainChannel, play, workerVars>>

(* Mutant: it goes on without a successor when none is there yet.          *)
FetchNothingYet ==
    /\ merge \in {"prefill", "refill"} /\ ~Sub!CanReceive(channels[source])
    /\ NextSource
    /\ UNCHANGED <<times, feedVars, queue, mainChannel, play, workerVars>>

(* ClosedReceiveChannelException: the feed has no more events.             *)
FetchNothing ==
    /\ merge \in {"prefill", "refill"} /\ Sub!ReceiveFails(channels[source])
    /\ NextSource
    /\ UNCHANGED <<times, feedVars, queue, mainChannel, play, workerVars>>

(* Mutant: it reads the next channel instead of the one it sent from.      *)
SendRefillsNext ==
    /\ merge = "send"
    /\ \E e \in queue :
        /\ \A q \in queue : Time(e) <= Time(q)
        /\ ~Main!SendFails(mainChannel, Time(e))
        /\ mainChannel' = Main!Send(mainChannel, e, Time(e))
        /\ merge' = IF Main!Buffered(mainChannel', e) THEN "refill" ELSE "suspended"
        /\ queue' = queue \ {e} /\ source' = (e.feed % Len(times)) + 1
    /\ UNCHANGED <<times, feedVars, play, workerVars>>

(* PriorityQueue.remove() returns any of the entries of the earliest time. *)
SendEarliest ==
    /\ merge = "send"
    /\ \E e \in queue :
        /\ \A q \in queue : Time(e) <= Time(q)
        /\ ~Main!SendFails(mainChannel, Time(e))
        /\ mainChannel' = Main!Send(mainChannel, e, Time(e))
        /\ merge' = IF Main!Buffered(mainChannel', e) THEN "refill" ELSE "suspended"
        /\ queue' = queue \ {e} /\ source' = e.feed
    /\ UNCHANGED <<times, feedVars, play, workerVars>>

(* The merge is the only sender on the channel of the run.                 *)
ResumeMerge ==
    /\ merge = "suspended" /\ Len(mainChannel.queue) <= MainCapacity
    /\ merge' = "refill"
    /\ UNCHANGED <<times, feedVars, source, queue, mainChannel, play, workerVars>>

(* ClosedSendChannelException: an entry is taken from the queue, and the   *)
(* coroutine fails.                                                        *)
MergeFails ==
    /\ merge = "send"
    /\ \E e \in queue :
        /\ \A q \in queue : Time(e) <= Time(q)
        /\ Main!SendFails(mainChannel, Time(e))
        /\ queue' = queue \ {e}
    /\ merge' = "stopped"
    /\ UNCHANGED <<times, feedVars, source, mainChannel, play, workerVars>>

EndMerge ==
    /\ merge = "send" /\ queue = {}
    /\ merge' = "stopped"
    /\ UNCHANGED <<times, feedVars, source, queue, mainChannel, play, workerVars>>

MergeStep == \/ FetchEvent \/ FetchNothing \/ SendEarliest
             \/ ResumeMerge \/ MergeFails \/ EndMerge

-----------------------------------------------------------------------------
(* play(), run in the background for the run. It starts every coroutine    *)
(* before it is suspended for the first time. The merge of no feeds fails  *)
(* at once: PriorityQueue refuses a capacity of 0.                         *)
StartPlay ==
    /\ play = "new" /\ ~cancelled
    /\ play' = "joining"
    /\ feeds' = [f \in Feeds |-> "send"]
    /\ merge' = IF Feeds = {} THEN "stopped" ELSE "prefill"
    /\ UNCHANGED <<times, channels, next, source, queue, mainChannel, workerVars>>

NeverStarted ==
    /\ play = "new" /\ cancelled
    /\ play' = "stopped"
    /\ UNCHANGED <<times, feedVars, mergeVars, mainChannel, workerVars>>

AllStopped == merge = "stopped" /\ \A f \in Feeds : feeds[f] = "stopped"

(* Mutant: play() waits for the feeds only.                                *)
JoinFeedsOnly ==
    /\ play = "joining" /\ ((\A f \in Feeds : feeds[f] = "stopped") \/ cancelled)
    /\ play' = "stopped"
    /\ mainChannel' = Main!Close(mainChannel)
    /\ UNCHANGED <<times, feedVars, mergeVars, workerVars>>

(* joinAll() returns when every job has ended, or is cancelled, in which   *)
(* case the jobs go on; then the channel of the run is closed.             *)
EndPlay ==
    /\ play = "joining" /\ (AllStopped \/ cancelled)
    /\ play' = "stopped"
    /\ mainChannel' = Main!Close(mainChannel)
    /\ UNCHANGED <<times, feedVars, mergeVars, workerVars>>

PlayStep == StartPlay \/ NeverStarted \/ EndPlay

-----------------------------------------------------------------------------
(* The worker of the run.                                                  *)
HandleEvent ==
    /\ worker = "running" /\ Main!CanReceive(mainChannel)
    /\ handled' = Append(handled, Head(mainChannel.queue))
    /\ mainChannel' = Main!Receive(mainChannel)
    /\ UNCHANGED <<times, feedVars, mergeVars, play, cancelled, worker>>

ChannelIsDone ==
    /\ worker = "running" /\ Main!ReceiveFails(mainChannel)
    /\ worker' = "finished" /\ cancelled' = TRUE
    /\ UNCHANGED <<times, feedVars, mergeVars, mainChannel, play, handled>>

Abort ==
    /\ worker = "running"
    /\ worker' = "aborted" /\ cancelled' = TRUE
    /\ UNCHANGED <<times, feedVars, mergeVars, mainChannel, play, handled>>

WorkerStep == HandleEvent \/ ChannelIsDone

Next == (\E f \in Feeds : FeedStep(f)) \/ MergeStep \/ PlayStep \/ WorkerStep \/ Abort

(* Every coroutine that can go on gets a thread of the pool at some time.  *)
Fairness ==
    /\ \A f \in 1..MaxFeeds : WF_vars(f \in Feeds /\ FeedStep(f))
    /\ WF_vars(MergeStep) /\ WF_vars(PlayStep) /\ WF_vars(WorkerStep)

Spec == Init /\ [][Next]_vars /\ Fairness

-----------------------------------------------------------------------------
(* Properties                                                              *)

(* The shape of the state of a combined feed.                              *)
TypeOK ==
    /\ times \in Seq(Seq(Nat)) /\ Len(times) <= MaxFeeds
    /\ \A f \in Feeds :
        /\ channels[f] \in Sub!Channels(DOMAIN times[f])
        /\ feeds[f] \in {"new", "send", "suspended", "stopped"}
        /\ next[f] \in 1..Len(times[f]) + 1
    /\ merge \in {"new", "prefill", "send", "suspended", "refill", "stopped"}
    /\ source \in Feeds \cup {1}
    /\ queue \subseteq Events
    /\ mainChannel \in Main!Channels(Events)
    /\ play \in {"new", "joining", "stopped"}
    /\ cancelled \in BOOLEAN
    /\ worker \in {"running", "finished", "aborted"}
    /\ handled \in Seq(Events)

(* A run over a combination gets every event of every feed that is in the  *)
(* timeframe, each feed's in its order and always the earliest of what is  *)
(* left, whatever the pace of the feeds and however full the channels are, *)
(* and the run comes to an end.                                            *)
Stream == INSTANCE EventStream
          WITH Feeds <- Combinations \X {FALSE}, lossy <- FALSE, lost <- {},
               delivered <- handled, outcome <- worker

MergesStreams == Stream!Spec

(* The merge picks the earliest event of all feeds because, whenever it    *)
(* picks one, it holds an event of every feed that is not exhausted, and   *)
(* never two of the same feed.                                             *)
HoldsOnePerFeed ==
    /\ \A d, e \in queue : d.feed = e.feed => d = e
    /\ merge = "send" => \A f \in Feeds :
        (\E e \in queue : e.feed = f) \/ Sub!ReceiveFails(channels[f])

(* A run that was not aborted is not over before the feeds and the merge   *)
(* are: play() does not let the channel be closed while somebody still has *)
(* something to send.                                                      *)
NothingLeftBehind == worker = "finished" => AllStopped /\ queue = {}

(* What becomes of an aborted run: the feeds and the merge have scopes of  *)
(* their own and go on without it, but none gets further ahead than its    *)
(* channel allows, so that what an abandoned combination keeps in memory   *)
(* is bounded.                                                             *)
BoundedLead ==
    /\ Len(mainChannel.queue) <= MainCapacity + 1
    /\ \A f \in Feeds : Len(channels[f].queue) <= ChannelCapacity + 1
=============================================================================
