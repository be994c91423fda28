------------------------------ MODULE LiveFeed ------------------------------
(***************************************************************************)
(* Live feeds (feeds/LiveFeed.kt, feeds/CombinedLiveFeed.kt) and the runs  *)
(* that use them. A feed keeps a list of the channels that play it, and    *)
(* one thread, the one that gets the market data, sends every event to     *)
(* each of them. A run starts and ends when it wants to.                   *)
(*                                                                         *)
(* A run plays a single feed directly, or several over the one channel it  *)
(* has with a CombinedLiveFeed; then every feed is played by a coroutine   *)
(* of its own. An event is the feed it comes from and its time.            *)
(***************************************************************************)
EXTENDS EventChannel, FiniteSets

CONSTANTS
    LiveFeeds,     \* the live feeds
    Runs,          \* the runs
    Plays,         \* the feeds of each run
    CombinedRuns,  \* the runs that play a CombinedLiveFeed
    LastTime       \* bound: the time of each feed's last event

ASSUME LiveFeedAssumption ==
    /\ Plays \in [Runs -> SUBSET LiveFeeds] /\ LastTime \in [LiveFeeds -> Nat]
    /\ \A r \in Runs \ CombinedRuns : Cardinality(Plays[r]) = 1

VARIABLES
    channels,      \* the list of each live feed
    sender,        \* where the thread of each live feed is in sendAsync
    time,          \* the time of the event it sends, or sent last
    cursor,        \* how many channels of the list it has visited
    expected,      \* the length of the list when it started
    channel,       \* the event channel of each run
    got,           \* history: the events each run received, until it is over
    worker,        \* where each run is
    job,           \* where the coroutine of playBackground is, per run
    play           \* where LiveFeed.play is, per run and feed

senderVars == <<sender, time, cursor, expected>>
runVars    == <<got, worker>>
vars       == <<channels, senderVars, channel, runVars, job, play>>

Event(f) == [feed |-> f, time |-> time[f]]
Events   == [feed : LiveFeeds, time : Nat]
Over(r)  == worker[r] = "over"

Init ==
    /\ channels = [f \in LiveFeeds |-> <<>>]
    /\ sender = [f \in LiveFeeds |-> "idle"]
    /\ time = [f \in LiveFeeds |-> 0]
    /\ cursor = [f \in LiveFeeds |-> 0]
    /\ expected = [f \in LiveFeeds |-> 0]
    /\ channel = [r \in Runs |-> NewChannel]
    /\ got = [r \in Runs |-> <<>>]
    /\ worker = [r \in Runs |-> "new"]
    /\ job = [r \in Runs |-> "new"]
    /\ play = [r \in Runs |-> [f \in Plays[r] |-> "new"]]

-----------------------------------------------------------------------------
(* sendAsync. The loop over the list takes no lock: it sees channels that  *)
(* were added since it started, or not.                                    *)
StartSend(f) ==
    /\ sender[f] = "idle" /\ time[f] < LastTime[f]
    /\ sender' = [sender EXCEPT ![f] = "loop"]
    /\ time' = [time EXCEPT ![f] = @ + 1]
    /\ expected' = [expected EXCEPT ![f] = Len(channels[f])]
    /\ UNCHANGED <<channels, cursor, channel, runVars, job, play>>

(* Mutant: a channel that refuses the event ends the loop.                 *)
SendToStops(f) ==
    /\ sender[f] = "loop" /\ cursor[f] < Len(channels[f])
    /\ LET r == channels[f][cursor[f] + 1]
       IN  /\ channel' = [channel EXCEPT ![r] = Send(@, Event(f), time[f])]
           /\ sender' = [sender EXCEPT ![f] =
                            IF SendFails(channel[r], time[f]) THEN "purge"
                            ELSE IF Buffered(channel'[r], Event(f)) THEN "loop"
                            ELSE "suspended"]
    /\ cursor' = [cursor EXCEPT ![f] = @ + 1]
    /\ UNCHANGED <<channels, time, expected, runVars, job, play>>

(* A channel that refuses the event is left alone.                         *)
SendTo(f) ==
    /\ sender[f] = "loop" /\ cursor[f] < Len(channels[f])
    /\ LET r == channels[f][cursor[f] + 1]
       IN  /\ channel' = [channel EXCEPT ![r] = Send(@, Event(f), time[f])]
           /\ sender' = [sender EXCEPT ![f] = IF Buffered(channel'[r], Event(f))
                                              THEN "loop" ELSE "suspended"]
    /\ cursor' = [cursor EXCEPT ![f] = @ + 1]
    /\ UNCHANGED <<channels, time, expected, runVars, job, play>>

ResumeSend(f) ==
    /\ sender[f] = "suspended"
    /\ Buffered(channel[channels[f][cursor[f]]], Event(f))
    /\ sender' = [sender EXCEPT ![f] = "loop"]
    /\ UNCHANGED <<channels, time, cursor, expected, channel, runVars, job, play>>

(* Mutant: the next event is not sent to the channels this one was sent to.*)
ReturnKeepsCursor(f) ==
    /\ sender' = [sender EXCEPT ![f] = "idle"]
    /\ UNCHANGED <<time, cursor, expected>>

Return(f) ==
    /\ sender' = [sender EXCEPT ![f] = "idle"]
    /\ cursor' = [cursor EXCEPT ![f] = 0]
    /\ expected' = [expected EXCEPT ![f] = 0]
    /\ UNCHANGED time

(* Mutant: the loop starts again when the list has grown.                  *)
SendRestarts(f) ==
    /\ sender[f] = "loop"
    /\ expected[f] # Len(channels[f]) /\ cursor[f] < Len(channels[f])
    /\ cursor' = [cursor EXCEPT ![f] = 0]
    /\ expected' = [expected EXCEPT ![f] = Len(channels[f])]
    /\ UNCHANGED <<channels, sender, time, channel, runVars, job, play>>

(* ConcurrentModificationException: the list has grown.                    *)
SendCrashes(f) ==
    /\ sender[f] = "loop"
    /\ expected[f] # Len(channels[f]) /\ cursor[f] < Len(channels[f])
    /\ Return(f)
    /\ UNCHANGED <<channels, channel, runVars, job, play>>

EndLoop(f) ==
    /\ sender[f] = "loop" /\ cursor[f] \in {expected[f], Len(channels[f])}
    /\ sender' = [sender EXCEPT ![f] = "purge"]
    /\ UNCHANGED <<channels, time, cursor, expected, channel, runVars, job, play>>

(* The channels of a list that are open, in the order of the list.         *)
StillOpen(list) ==
    LET kept[n \in 0..Len(list)] ==
            IF n = 0 THEN <<>>
            ELSE IF channel[list[n]].closed THEN kept[n - 1]
            ELSE Append(kept[n - 1], list[n])
    IN  kept[Len(list)]

(* Mutant: play() keeps the lock on the list while it waits.               *)
PurgeNeedsPlay(f) ==
    /\ sender[f] = "purge"
    /\ \A r \in Runs : f \in Plays[r] => play[r][f] \notin {"added", "waiting"}
    /\ channels' = [channels EXCEPT ![f] = StillOpen(@)]
    /\ Return(f)
    /\ UNCHANGED <<channel, runVars, job, play>>

PurgeChannels(f) ==
    /\ sender[f] = "purge"
    /\ channels' = [channels EXCEPT ![f] = StillOpen(@)]
    /\ Return(f)
    /\ UNCHANGED <<channel, runVars, job, play>>

SenderStep(f) == SendTo(f) \/ ResumeSend(f) \/ SendCrashes(f) \/ EndLoop(f)
                 \/ PurgeChannels(f)

-----------------------------------------------------------------------------
(* A run (see Run for its worker in detail) launches its job, which starts *)
(* when the pool of threads gets to it.                                    *)
StartRun(r) ==
    /\ worker[r] = "new"
    /\ worker' = [worker EXCEPT ![r] = "running"]
    /\ job' = [job EXCEPT ![r] = "launched"]
    /\ UNCHANGED <<channels, senderVars, channel, got, play>>

ReceiveEvent(r) ==
    /\ worker[r] = "running" /\ CanReceive(channel[r])
    /\ got' = [got EXCEPT ![r] = Append(@, Head(channel[r].queue))]
    /\ channel' = [channel EXCEPT ![r] = Receive(@)]
    /\ UNCHANGED <<channels, senderVars, worker, job, play>>

EndRun(r) ==
    /\ worker[r] = "running"
    /\ worker' = [worker EXCEPT ![r] = "over"]
    /\ got' = [got EXCEPT ![r] = <<>>]
    /\ UNCHANGED <<channels, senderVars, job, play>>

ChannelIsDone(r) == ReceiveFails(channel[r]) /\ EndRun(r) /\ UNCHANGED channel

(* A timeout after the end of the timeframe; an exception or an interrupt  *)
(* ends the run in the same way, but leaves the channel to the job.        *)
TimeIsUp(r) == EndRun(r) /\ channel' = [channel EXCEPT ![r] = Close(@)]

Abort(r) == EndRun(r) /\ UNCHANGED channel

(* The coroutine of playBackground. The play of a single feed is part of   *)
(* it; for a CombinedLiveFeed it launches one coroutine per feed.          *)
StartJob(r) ==
    /\ job[r] = "launched" /\ ~Over(r)
    /\ job' = [job EXCEPT ![r] = "playing"]
    /\ play' = [play EXCEPT ![r] = [f \in Plays[r] |-> "launched"]]
    /\ UNCHANGED <<channels, senderVars, channel, runVars>>

(* A job that is cancelled before it starts runs none of its body: it does *)
(* not play, and it does not close the channel either.                     *)
NeverStarted(r) ==
    /\ job[r] = "launched" /\ Over(r)
    /\ job' = [job EXCEPT ![r] = "stopped"]
    /\ UNCHANGED <<channels, senderVars, channel, runVars, play>>

(* Mutant: nobody closes the channel of a run that is aborted.             *)
EndJobOpen(r) ==
    /\ job[r] = "playing"
    /\ \/ \A f \in Plays[r] : play[r][f] = "returned"
       \/ r \in CombinedRuns /\ Over(r)
    /\ job' = [job EXCEPT ![r] = "stopped"]
    /\ UNCHANGED <<channels, senderVars, channel, runVars, play>>

(* The end of the job, which a run that is over has cancelled: play has    *)
(* returned for every feed, or joinAll of a CombinedLiveFeed was cancelled,*)
(* which does not cancel the coroutines it waits for.                      *)
EndJob(r) ==
    /\ job[r] = "playing"
    /\ \/ \A f \in Plays[r] : play[r][f] = "returned"
       \/ r \in CombinedRuns /\ Over(r)
    /\ channel' = [channel EXCEPT ![r] = Close(@)]
    /\ job' = [job EXCEPT ![r] = "stopped"]
    /\ UNCHANGED <<channels, senderVars, runVars, play>>

(* LiveFeed.play(channel) of one feed                                      *)
AddChannel(r, f) ==
    /\ play[r][f] = "launched"
    /\ channels' = [channels EXCEPT ![f] = Append(@, r)]
    /\ play' = [play EXCEPT ![r][f] = "added"]
    /\ UNCHANGED <<senderVars, channel, runVars, job>>

WaitOnClose(r, f) ==
    /\ play[r][f] = "added"
    /\ play' = [play EXCEPT ![r][f] = IF channel[r].closed THEN "returned" ELSE "waiting"]
    /\ UNCHANGED <<channels, senderVars, channel, runVars, job>>

(* mutex.lock(); nobody unlocks it again.                                  *)
LockMutex(r, f) ==
    /\ play[r][f] = "waiting" /\ ~channel[r].locked
    /\ channel' = [channel EXCEPT ![r].locked = TRUE]
    /\ play' = [play EXCEPT ![r][f] = "returned"]
    /\ UNCHANGED <<channels, senderVars, runVars, job>>

CancelWait(r, f) ==
    /\ play[r][f] = "waiting" /\ Over(r) /\ r \notin CombinedRuns
    /\ play' = [play EXCEPT ![r][f] = "returned"]
    /\ UNCHANGED <<channels, senderVars, channel, runVars, job>>

JobStep(r)     == StartJob(r) \/ NeverStarted(r) \/ EndJob(r)
PlayStep(r, f) == AddChannel(r, f) \/ WaitOnClose(r, f) \/ LockMutex(r, f) \/ CancelWait(r, f)
WorkerStep(r)  == ReceiveEvent(r) \/ ChannelIsDone(r)

(* What a thread or coroutine does without being asked: nobody has to send *)
(* an event, to start a run or to end one.                                 *)
Progress ==
    \/ \E f \in LiveFeeds : SenderStep(f)
    \/ \E r \in Runs : WorkerStep(r) \/ JobStep(r)
    \/ \E r \in Runs : \E f \in Plays[r] : PlayStep(r, f)

Next ==
    \/ Progress
    \/ \E f \in LiveFeeds : StartSend(f)
    \/ \E r \in Runs : StartRun(r) \/ TimeIsUp(r) \/ Abort(r)

(* As long as some coroutine can go on, one does. That is all that is      *)
(* asked of the pool of threads: which one is up to the scheduler.         *)
Fairness == WF_vars(Progress)

Spec == Init /\ [][Next]_vars /\ Fairness

-----------------------------------------------------------------------------
(* Properties                                                              *)

(* The shape of the feeds' and the runs' state.                            *)
TypeOK ==
    /\ channels \in [LiveFeeds -> Seq(Runs)]
    /\ sender \in [LiveFeeds -> {"idle", "loop", "suspended", "purge"}]
    /\ time \in [LiveFeeds -> Nat] /\ \A f \in LiveFeeds : time[f] <= LastTime[f]
    /\ cursor \in [LiveFeeds -> Nat] /\ expected \in [LiveFeeds -> Nat]
    /\ \A f \in LiveFeeds : sender[f] # "idle" =>
            cursor[f] <= Len(channels[f]) /\ expected[f] <= Len(channels[f])
    /\ channel \in [Runs -> Channels(Events)] /\ got \in [Runs -> Seq(Events)]
    /\ worker \in [Runs -> {"new", "running", "over"}]
    /\ job \in [Runs -> {"new", "launched", "playing", "stopped"}]
    /\ DOMAIN play = Runs
    /\ \A r \in Runs :
            play[r] \in [Plays[r] -> {"new", "launched", "added", "waiting", "returned"}]

(* A send that comes to its end without an exception loses nothing: each   *)
(* run that was listed when it started and still reads its open channel has*)
(* the event, if it is in the timeframe. Runs that come and go meanwhile   *)
(* make no difference.                                                     *)
Has(r, e) == \E s \in {got[r], channel[r].queue} : \E i \in DOMAIN s : s[i] = e

NoSilentLoss ==
    \A f \in LiveFeeds : sender[f] = "purge" /\ InTimeframe(time[f]) =>
        \A i \in 1..expected[f] :
            LET r == channels[f][i] IN Over(r) \/ channel[r].closed \/ Has(r, Event(f))

(* A run gets the events of a feed in the feed's order, and none twice,    *)
(* whatever sends crashed before.                                          *)
Sees(r) == got[r] \o channel[r].queue

InOrder ==
    \A r \in Runs : \A i, j \in DOMAIN Sees(r) :
        i < j /\ Sees(r)[i].feed = Sees(r)[j].feed => Sees(r)[i].time < Sees(r)[j].time

(* A run that is slow delays a live feed, but does not stop it: a send     *)
(* ends, unless it waits for a run that is over.                           *)
Blocked(f) == sender[f] = "suspended" /\ Over(channels[f][cursor[f]])

SendersGoOn ==
    \A f \in LiveFeeds : sender[f] # "idle" ~> sender[f] = "idle" \/ Blocked(f)

(* However a run ends, the coroutine of playBackground stops, which for a  *)
(* single feed means that play has returned, and no feed is left with the  *)
(* open channel of a run that nobody reads: the channel is closed, or, when*)
(* the job was cancelled before it started, on no feed's list.             *)
Listed(r, f) == \E i \in DOMAIN channels[f] : channels[f][i] = r

JobsStop ==
    \A r \in Runs : Over(r) ~>
        job[r] = "stopped" /\ (channel[r].closed \/ \A f \in LiveFeeds : ~Listed(r, f))

(* Feed: play plays the events of the feed and "Once done, return from     *)
(* this method": once its channel is closed, no play goes on, also not of  *)
(* a feed that is part of a CombinedLiveFeed.                              *)
Returned(r) == \A f \in Plays[r] : play[r][f] \in {"new", "returned"}

PlayReturns == \A r \in Runs : channel[r].closed ~> Returned(r)
=============================================================================
