---------------------------- MODULE EventStream -----------------------------
(***************************************************************************)
(* What a run promises to its strategy, whatever happens between the feeds *)
(* and the strategy: of every feed the events that are in the timeframe,   *)
(* up to the first one past it, each once and in the order of the feed; of *)
(* several feeds always the earliest event first; then the run is over. A  *)
(* run may be aborted at any time, by an exception or an interrupt.        *)
(*                                                                         *)
(* A run that times out may miss events and end early, but what it shows   *)
(* of the stream it shows in order, and once.                              *)
(*                                                                         *)
(* times[f] are the event times of feed f; an event is its feed and its    *)
(* position there.                                                         *)
(***************************************************************************)
EXTENDS Integers, Sequences

CONSTANTS Feeds, Start, End, Inclusive

VARIABLES times, lossy, delivered, lost, outcome

vars == <<times, lossy, delivered, lost, outcome>>

(* The events of feed f a run may see, as positions in it.                 *)
Past(time) == IF Inclusive THEN time > End ELSE time >= End

Visible(f) ==
    {i \in DOMAIN times[f] : Start <= times[f][i] /\ \A j \in 1..i : ~Past(times[f][j])}

Event(f, i) == [feed |-> f, pos |-> i]
Seen        == {delivered[i] : i \in DOMAIN delivered} \cup lost

(* What is still to come of feed f, and the first of it.                   *)
Left(f)       == {i \in Visible(f) : Event(f, i) \notin Seen}
IsFirst(f, i) == i \in Left(f) /\ \A j \in Left(f) : i <= j

IsNext(f, i) ==
    /\ IsFirst(f, i)
    /\ \A g \in DOMAIN times : \A j \in Left(g) :
        IsFirst(g, j) => times[f][i] <= times[g][j]

Init ==
    /\ <<times, lossy>> \in Feeds
    /\ delivered = <<>> /\ lost = {} /\ outcome = "running"

Deliver ==
    /\ outcome = "running"
    /\ \E f \in DOMAIN times : \E i \in Left(f) :
        IsNext(f, i) /\ delivered' = Append(delivered, Event(f, i))
    /\ UNCHANGED <<times, lossy, lost, outcome>>

Lose ==
    /\ outcome = "running" /\ lossy
    /\ \E f \in DOMAIN times : \E i \in Left(f) :
        IsNext(f, i) /\ lost' = lost \cup {Event(f, i)}
    /\ UNCHANGED <<times, lossy, delivered, outcome>>

Finish ==
    /\ outcome = "running"
    /\ lossy \/ \A f \in DOMAIN times : Left(f) = {}
    /\ outcome' = "finished"
    /\ UNCHANGED <<times, lossy, delivered, lost>>

Abort ==
    /\ outcome = "running"
    /\ outcome' = "aborted"
    /\ UNCHANGED <<times, lossy, delivered, lost>>

Next == Deliver \/ Lose \/ Finish \/ Abort

Spec == Init /\ [][Next]_vars /\ WF_vars(Deliver) /\ WF_vars(Finish)
=============================================================================
