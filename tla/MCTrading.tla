------------------------------ MODULE MCTrading ------------------------------
(***************************************************************************)
(* Two assets and two prices. A single strategy may rate both assets; two  *)
(* strategies rate one each, which can be the same.                        *)
(***************************************************************************)
EXTENDS Trading

Rating(a, d, t) == [asset |-> a, direction |-> d, type |-> t]

Ratings(a) == {Rating(a, 1, "BOTH"), Rating(a, -1, "EXIT"), Rating(a, -1, "ENTRY"),
               Rating(a, 0, "EXIT")}
One        == {<<r>> : r \in Ratings("A") \cup Ratings("B")}
Both       == {<<r, s>> : r \in Ratings("A"), s \in Ratings("B")}

MCOutputs == <<{<<>>} \cup One \cup Both, {<<>>} \cup One>>

Config(limits, breaker, strategies, sparse) ==
    [oneOrderOnly |-> TRUE, limits |-> limits, breaker |-> breaker,
     strategies |-> strategies, sparse |-> sparse]

MCConfigs ==
    {Config(FALSE, FALSE, 1, FALSE), Config(TRUE, FALSE, 1, TRUE),
     Config(FALSE, TRUE, 1, FALSE), Config(FALSE, TRUE, 2, FALSE)}
=============================================================================
