------------------------------- MODULE MCCityData -------------------------------
(***************************************************************************)
(* A small city: a property of one lot that grows to two in the second     *)
(* edition, and one of two lots that shrinks to one and whose street loses *)
(* its road.                                                               *)
(***************************************************************************)
EXTENDS CityData, TLC

CONSTANTS a1, a2, b1, b2, p, q, pine, oak, aLot, aSite, bLot, bSite, g1, g2, x1, x2, h1, h2, t1, t2, j1

MCLots == {a1, a2, b1, b2}
MCLotOf == a1 :> [prop |-> p, address |-> aSite, gis |-> g1, outlined |-> TRUE]
        @@ a2 :> [prop |-> p, address |-> aSite, gis |-> g1, outlined |-> TRUE]
        @@ b1 :> [prop |-> q, address |-> bLot, gis |-> g2, outlined |-> TRUE]
        @@ b2 :> [prop |-> q, address |-> bSite, gis |-> g2, outlined |-> TRUE]
MCExtract == << <<a1, b1, b2>>, <<a1, b1, a2>> >>
MCProps == {p, q, NoProp}
MCStreetOf == p :> pine @@ q :> oak @@ NoProp :> oak
MCBaseAddress == p :> aSite @@ q :> bSite @@ NoProp :> bLot
MCStreets == {pine, oak}
MCRoadsIn == <<{pine, oak}, {pine}>>
MCAddresses == {aSite, bLot, bSite, aLot}
MCLike == [x \in MCAddresses |-> IF x = bLot THEN {bLot, bSite} ELSE {x}]
MCGisIds == {g1, g2, NoGisId}
MCHydrantsIn == <<{h1}, {h2}>>
MCTilesIn == <<{x1}, {x1, x2}>>

\* One plan for each thing that may go wrong, so that what does not touch it stays out.
Plan(counts) == [k \in Kinds |-> IF k \in DOMAIN counts THEN counts[k] ELSE 0]
MCPlans == {
    Plan("update" :> 2 @@ "publish" :> 1 @@ "fault" :> 2),
    Plan("update" :> 1 @@ "parcels" :> 2 @@ "fault" :> 1),
    Plan("update" :> 1 @@ "parcels" :> 2 @@ "entrance" :> 1),
    Plan("parcels" :> 2 @@ "card" :> 1 @@ "entrance" :> 1),
    Plan("parcels" :> 2 @@ "entrance" :> 1 @@ "fault" :> 1),
    Plan("parcels" :> 2 @@ "gis" :> 1),
    Plan("parcels" :> 1 @@ "gis" :> 1 @@ "frontage" :> 1),
    Plan("gis" :> 1 @@ "download" :> 1 @@ "fault" :> 1),
    Plan("gis" :> 1 @@ "learn" :> 1 @@ "place" :> 1 @@ "derive" :> 1 @@ "hydrants" :> 1 @@ "publish" :> 1),
    Plan("export" :> 1 @@ "ortho" :> 1 @@ "cadastral" :> 2 @@ "finalize" :> 1 @@ "fault" :> 2),
    Plan("gis" :> 1 @@ "export" :> 2 @@ "ortho" :> 1),
    Plan("gis" :> 1 @@ "export" :> 2 @@ "cadastral" :> 2 @@ "fault" :> 1)}
=============================================================================
