------------------------ MODULE MCAggregatorLiveFeed ------------------------
(***************************************************************************)
(* All feeds of up to two events, prices and heartbeats in the timeframe   *)
(* [1, 4] or past it, some of three and one of two assets. Periods of two: *)
(* two of them are in the timeframe.                                       *)
(***************************************************************************)
EXTENDS AggregatorLiveFeed

Price     == [time |-> 2, items |-> {"A"}]
Beat      == [time |-> 2, items |-> {}]
PastPrice == [time |-> 5, items |-> {"A"}]

MCFeeds == BoundedSeq({Price, Beat, PastPrice}, 2)
           \cup {<<Price, Price, Price>>, <<Price, Beat, Price>>,
                 <<[time |-> 2, items |-> {"A", "B"}], [time |-> 3, items |-> {"B"}]>>}
=============================================================================
