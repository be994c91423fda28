------------------------------- MODULE MCRun --------------------------------
(***************************************************************************)
(* Instances of Run for TLC, with the timeframe [2, 3] and a buffer of two *)
(* events. Without timeouts: every feed of up to four events, in order or  *)
(* not, with times before, in and after the timeframe, and some of five.   *)
(* With timeouts: feeds in order, and a clock that runs past the end.      *)
(***************************************************************************)
EXTENDS Run, SequencesExt

MCTimes == {<<1, 2, 2, 3>>, <<2, 2, 3, 3>>, <<2, 3, 4, 4>>, <<1, 2, 3, 3, 4>>}

MCFeeds == ((BoundedSeq(1..4, 4) \cup MCTimes) \X {FALSE}) \cup (MCTimes \X {TRUE})
=============================================================================
