-------------------------- MODULE MCAggregatorFeed --------------------------
(***************************************************************************)
(* Feeds of up to four events in the order of time, from before to after   *)
(* the timeframe [3, 8], with a period of two: windows without an event,   *)
(* events at the very end of a window, and items in two patterns.          *)
(***************************************************************************)
EXTENDS AggregatorFeed

Flat(a, p) == [asset |-> a,
               bar |-> [open |-> p, high |-> p, low |-> p, close |-> p, volume |-> 1]]
Bar(a, o, h, l, cl) ==
    [asset |-> a, bar |-> [open |-> o, high |-> h, low |-> l, close |-> cl, volume |-> 2]]

Patterns ==
    {<<<<Flat("A", 2)>>, <<Flat("B", 1), Flat("A", 3)>>, <<>>, <<Flat("A", 1)>>>>,
     <<<<Flat("A", 1), Flat("A", 3)>>, <<Bar("A", 2, 4, 1, 3)>>, <<Flat("B", 2)>>,
       <<Flat("A", 2)>>>>}

Times == {ts \in BoundedSeq(2..9, 4) : \A i \in 2..Len(ts) : ts[i - 1] <= ts[i]}

MCFeeds ==
    {[i \in DOMAIN ts |-> [time |-> ts[i], items |-> p[i]]] : ts \in Times, p \in Patterns}
=============================================================================
