--------------------------- MODULE MCCombinedFeed ---------------------------
(***************************************************************************)
(* Instances of CombinedFeed for TLC: two feeds of up to two events each,  *)
(* with every choice of times before, in and after the timeframe [2, 4),   *)
(* in order or not; longer feeds with equal times; three feeds; a single   *)
(* feed; and no feed at all. All channels have room for one event.         *)
(***************************************************************************)
EXTENDS CombinedFeed, SequencesExt

MCPairs        == {<<f, g>> : f, g \in BoundedSeq(1..4, 2)}
MCLonger       == {<<<<2, 2, 3, 4>>, <<1, 2, 3>>>>, <<<<3, 3, 3, 3>>, <<2, 2, 2>>>>}
MCThree        == {<<<<2>>, <<2, 3>>, <<1, 3>>>>, <<<<3>>, <<>>, <<2, 3>>>>}
MCCombinations == MCPairs \cup MCLonger \cup MCThree \cup {<<<<2, 3, 4>>>>, <<>>}
=============================================================================
