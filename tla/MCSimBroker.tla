----------------------------- MODULE MCSimBroker -----------------------------
(***************************************************************************)
(* Single orders of every type under every time-in-force policy, and       *)
(* bracket, OCO and OTO orders whose legs can be filled, can expire on the *)
(* event that fills them, and can expire without a fill. There are those   *)
(* with two alternatives that are reached by the same price, and those     *)
(* where a price in between reaches neither.                               *)
(***************************************************************************)
EXTENDS SimBroker

None == {}

Tif(p, n) == [policy |-> p, arg |-> n]
GTC       == Tif("GTC", 3)

TrailLeg(size, tif, trigger, limit, trail, offset) ==
    [size |-> size, tif |-> tif, trigger |-> trigger, limit |-> limit,
     trail |-> trail, offset |-> offset]

Leg(size, tif, trigger, limit) == TrailLeg(size, tif, trigger, limit, None, None)

Order(kind, legs) == [kind |-> kind, asset |-> "A", legs |-> legs]

Market     == Leg(2, Tif("GTC", 1), None, None)
Limit      == Leg(-2, Tif("DAY", 0), None, {6})
Stop       == Leg(-1, Tif("GTD", 2), {2}, None)
StopLimit  == Leg(1, Tif("IOC", 0), {4}, {4})
Kill       == Leg(1, Tif("FOK", 0), None, {2})
Trail      == TrailLeg(-1, Tif("GTC", 2), None, None, {50}, None)
TrailLimit == TrailLeg(1, Tif("GTC", 1), None, None, {50}, {-1})

Singles == {Order("single", <<l>>) :
                l \in {Market, Limit, Stop, StopLimit, Kill, Trail, TrailLimit}}

Bracket(entry, tif, profit, loss) ==
    Order("bracket", <<entry, Leg(-1, tif, None, {profit}), Leg(-1, GTC, {loss}, None)>>)

OCO(tif, limit, stop) ==
    Order("oco", <<Leg(1, tif, None, {limit}), Leg(1, GTC, {stop}, None)>>)

Entries == {Leg(1, GTC, None, None), Leg(1, Tif("DAY", 0), None, {2})}

Brackets ==
    {Bracket(e, t, 6, 2) : e \in Entries, t \in {GTC, Tif("DAY", 0), Tif("FOK", 0)}} \cup
    {Bracket(e, GTC, 4, 4) : e \in Entries}

OCOs == {OCO(t, 2, 6) : t \in {GTC, Tif("FOK", 0), Tif("IOC", 0)}} \cup {OCO(GTC, 4, 4)}

OTOs == {Order("oto", <<Leg(1, t, None, {4}), Leg(-2, GTC, {2}, None)>>) :
            t \in {GTC, Tif("DAY", 0)}}

MCCatalogue == Singles \cup Brackets \cup OCOs \cup OTOs

MCUpdates == {[asset |-> "A", leg |-> [Limit EXCEPT !.limit = {4}]],
              [asset |-> "A", leg |-> [Trail EXCEPT !.tif = Tif("FOK", 0)]]}
=============================================================================
