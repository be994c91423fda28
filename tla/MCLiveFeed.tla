----------------------------- MODULE MCLiveFeed -----------------------------
(***************************************************************************)
(* Two runs that come and go. Either both play the same feed, one of them  *)
(* in a CombinedLiveFeed (MCShared); or the combined one plays a second    *)
(* feed too, which has no events (MCTwoFeeds). The buffer holds one event, *)
(* so that senders are suspended, and the last event is past the timeframe.*)
(***************************************************************************)
EXTENDS LiveFeed

CONSTANTS f1, f2, r1, r2

MCShared   == [r \in {r1, r2} |-> {f1}]
MCTwoFeeds == [r \in {r1, r2} |-> IF r = r1 THEN {f1} ELSE {f1, f2}]
MCLastTime == [f \in LiveFeeds |-> IF f = f1 THEN 3 ELSE 0]
=============================================================================
