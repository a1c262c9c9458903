---------------------------- MODULE MCCallPlacement ----------------------------
(* A small city for CallPlacement: two streets that sound alike, a divided     *)
(* road, a pair of streets that meets twice.                                   *)
EXTENDS CallPlacement, TLC

W(a, b) == <<a, b>>
GordonAve == W("GORDON", "AVE")
JordanAve == W("JORDAN", "AVE")
PineSt == W("PINE", "ST")
OakSt == W("OAK", "ST")
BarnetHwy == W("BARNET", "HWY")

MCSuffix == [AVENUE |-> "AVE", AVE |-> "AVE", STREET |-> "ST", ST |-> "ST", HWY |-> "HWY"]
MCAlike == (<<W("GORDAN", "AVE"), GordonAve>> :> 88) @@ (<<W("GORDAN", "AVE"), JordanAve>> :> 88)
           @@ (<<W("PIME", "ST"), PineSt>> :> 86) @@ (<<<<"PIME">>, <<"PINE">>>> :> 80)
MCSpaced == (W("GOR", "DON") :> <<"GORDON">>)

Lot(id, house, street, zone, base, entrance, unit) ==
    [id |-> id, house |-> house, street |-> <<street>>, type |-> <<"AVE">>, zone |-> zone,
     base |-> base, front |-> TRUE, entrance |-> entrance, unit |-> unit]
MCParcels == {Lot(1, <<3, 0, 0, 0>>, "GORDON", 1, TRUE, TRUE, FALSE),
              Lot(2, <<3, 0, 0, 0>>, "JORDAN", 2, TRUE, FALSE, FALSE),
              Lot(3, <<3, 0, 6, 0>>, "GORDON", 2, FALSE, FALSE, FALSE),
              Lot(4, <<3, 0, 8, 2>>, "GORDON", 2, FALSE, FALSE, TRUE)}

Piece(id, name, type, left, run, zone, zones) ==
    [id |-> id, name |-> <<name>>, type |-> <<type>>, left |-> left, right |-> NoRange,
     run |-> run, zone |-> zone, zones |-> zones]
MCSegments == {Piece(21, "GORDON", "AVENUE", <<3001, 3049>>, 21, 1, {1, 2}),
               Piece(22, "PINE", "STREET", NoRange, 22, 2, {2}),
               Piece(23, "OAK", "STREET", NoRange, 23, 2, {2}),
               Piece(24, "BARNET", "HWY", <<2500, 2598>>, 24, 1, {1}),
               Piece(25, "BARNET", "HWY", <<2510, 2590>>, 25, 0, {1})}

Crossing(id, a, b, zone, touches) == [id |-> id, pair |-> {a, b}, zone |-> zone, touches |-> touches]
MCJunctions == {Crossing(11, GordonAve, PineSt, 1, {1, 2}), Crossing(12, GordonAve, PineSt, 2, {2}),
                Crossing(13, GordonAve, OakSt, 2, {2})}

MCMetres == (<<1, <<"PINE">>>> :> 50) @@ (<<1, <<"OAK">>>> :> 60) @@ (<<11, OakSt>> :> 20)
            @@ (<<2, <<"PINE">>>> :> 80) @@ (<<3, <<"PINE">>>> :> 90) @@ (<<12, OakSt>> :> 400)

MCCrow == (<<1, 24>> :> 100) @@ (<<1, 25>> :> 200) @@ (<<2, 24>> :> 200) @@ (<<2, 25>> :> 100)
MCMinutes == (<<1, 1>> :> 0) @@ (<<1, 3>> :> 4)
MCSnap == (3 :> 80) @@ (1 :> 5)
MCVerified == {[house |-> <<3, 0, 0, 0>>, street |-> JordanAve, unit |-> NoUnit, grid |-> 1]}

-----------------------------------------------------------------------------
E1 == [kind |-> "E", digits |-> <<1>>]
E2 == [kind |-> "E", digits |-> <<2>>]

At(house, street) == [house |-> house, block |-> FALSE, street |-> street, other |-> NoWords]
Corner(a, b) == [house |-> NoHouse, block |-> FALSE, street |-> a, other |-> b]

Places == {At(<<3, 0, 0, 0>>, GordonAve), At(<<3, 0, 8, 0>>, GordonAve),
              At(<<3, 0, 0, 0>>, W("GORDAN", "AVE")), At(<<3, 0, 0, 0>>, JordanAve),
              At(<<3, 0, 0, 6, 0>>, GordonAve), At(<<9>>, PineSt), At(<<3, 0, 1, 3>>, GordonAve),
              [At(<<2, 5, 0, 0>>, BarnetHwy) EXCEPT !.block = TRUE],
              Corner(GordonAve, PineSt), Corner(GordonAve, W("PIME", "ST")),
              Corner(BarnetHwy, BarnetHwy)}

Candidate(said, grid, xs, units) ==
    [said |-> said, xs |-> xs, grid |-> grid, units |-> units, channel |-> "tg 1",
     response |-> "emergency", unit |-> NoUnit]
NearSaid == {<<NoWords, NoWords>>, <<PineSt, OakSt>>}

Hearing(candidates, incident) == [candidates |-> candidates, contact |-> FALSE, incident |-> incident]

MCHeard1 == {Hearing(<<Candidate(s, 2, x, <<E1>>)>>, "fire") : s \in Places, x \in NearSaid}
            \cup {Hearing(<<Candidate(At(<<3, 0, 8, 0>>, GordonAve), 0, <<NoWords, NoWords>>, <<>>),
                            Candidate(At(<<3, 0, 0, 0>>, GordonAve), 0, <<NoWords, NoWords>>, <<E1>>)>>,
                          "fire"),
                  [Hearing(<<Candidate(At(<<9>>, PineSt), 0, <<NoWords, NoWords>>, <<E1>>)>>, "fire")
                   EXCEPT !.contact = TRUE]}

MCHeard2 == {Hearing(<<Candidate(s, g, <<PineSt, W("TURNING", "LANE")>>, <<E1, E2>>)>>, "fire") :
                s \in Places, g \in {0, 1}}
            \cup {Hearing(<<>>, "Unknown Incident"),
                  Hearing(<<Candidate(At(<<3, 0, 8, 0>>, GordonAve), 0, <<NoWords, OakSt>>, <<>>),
                            Candidate(At(<<3, 0, 0, 0>>, GordonAve), 2, <<W("PIME", "ST"), NoWords>>, <<E1>>)>>,
                          "fire")}

MCGeocoded == [t \in Attempts |-> GetCoordinates(t.said, t.grid, t.xs, t.ways)]
MCDescriptors == {W("TURNING", "LANE")}
MCRouters == <<"osrm">>
MCOutages == {[down |-> {}, unread |-> NoHouse], [down |-> {"exact"}, unread |-> NoHouse],
              [down |-> {"ranking", "zone", "history"}, unread |-> <<3, 0, 6, 0>>]}
=============================================================================
