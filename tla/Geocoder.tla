------------------------------- MODULE Geocoder -------------------------------
(***************************************************************************)
(* gis_service/geocoder.py and spatial_queries.py: the ladder of rungs an  *)
(* announced location falls down, and the questions asked about the point  *)
(* it ends at.                                                             *)
(*                                                                         *)
(* `ways` is how an attempt goes: the rungs whose queries fail, the        *)
(* overlong reading whose query fails, and whether the junctions could be  *)
(* read when the process made its geocoder.                                *)
(***************************************************************************)
EXTENDS JunctionResolution

CONSTANT CityZones     \* zones inside the city boundary

\* Once read, the junctions serve every call; a failed read is an empty index
\* until the process restarts.
Attempt(down, unread, loaded) == [down |-> down, unread |-> unread, loaded |-> loaded]

-----------------------------------------------------------------------------
(* The ladder.                                                             *)

\* "<street> and <street>" with one street in both slots: its stretch inside
\* the announced grid, and every end of it.
StreetSectionIfSelfPaired(said, grid, down) ==
    LET a == NormalizeStreetName(said.street)
        pieces == {s \in Segments : NormalizeStreetName(FullName(s)) = a /\ grid \in s.zones}
    IN  IF \/ a # NormalizeStreetName(said.other)
           \/ a = NoWords \/ grid = NoZone \/ "section" \in down \/ pieces = {}
        THEN NoAnswer
        ELSE [Answer("section", [Place("section", FirstOf(pieces).id, NoPart) EXCEPT !.at = grid],
                     NoHouse, a, 50)
              EXCEPT !.note = Stating("section", NoHouse, a),
                     !.ends = {[Place("end", s.id, NoPart) EXCEPT !.at = grid] : s \in pieces}]

\* A pair never falls through to the streets.
PairAnswer(section, found, said, grid, xs, down) ==
    CASE Found(section) -> section
      [] ~Found(section) /\ found.matches = {} -> NoAnswer
      [] OTHER -> ResolveCandidates(found, said, grid, xs, down)

Junction(said, grid, xs, ways) ==
    PairAnswer(StreetSectionIfSelfPaired(said, grid, ways.down),
               Lookup(said.street, said.other, ways.loaded), said, grid, xs, ways.down)

FirstFound(answers) ==
    IF \E i \in DOMAIN answers : Found(answers[i])
    THEN answers[SelectInSeq(answers, Found)] ELSE NoAnswer

NearRoadsGiven(xs) == \E i \in DOMAIN xs : xs[i] # NoWords

OnlyIf(condition, answer) == IF condition THEN answer ELSE NoAnswer

\* Plausible bug: the near roads are tried before the nearest parcel, so that a
\* call that names them gets a vaguer place.
Bug_CivicRungs(p, grid, xs, ways) ==
    <<OnlyIf(p.house # NoHouse, ResolveExact(p.house, p.raw, p.type, grid, xs, ways.down)),
      OnlyIf(NearRoadsGiven(xs), ResolveXStreetNarrow(p, xs, ways.down)),
      OnlyIf(p.house # NoHouse, ResolveNearestCivic(p, xs, ways.down)),
      Approximate(ResolveStreetCentroid(p, ways.down), p)>>

\* What each rung answers to a parsed civic address, most specific first.
CivicRungs(p, grid, xs, ways) ==
    <<OnlyIf(p.block /\ p.house # NoHouse, ResolveBlockMidpoint(p, ways.down)),
      OnlyIf(p.house # NoHouse, ResolveExact(p.house, p.raw, p.type, grid, xs, ways.down)),
      OnlyIf(Len(p.house) >= 5, ResolveOverlongHouse(p, grid, xs, ways.down, ways.unread)),
      OnlyIf(p.house # NoHouse, ResolveBlock(p, ways.down)),
      OnlyIf(p.house # NoHouse, ResolveNearestCivic(p, xs, ways.down)),
      OnlyIf(NearRoadsGiven(xs), ResolveXStreetNarrow(p, xs, ways.down)),
      Approximate(ResolveStreetCentroid(p, ways.down), p),
      Approximate(ResolveRoadCentroid(p, ways.down), p)>>

\* Without a number there is nothing the parser makes of an address.
GetCoordinates(said, grid, xs, ways) ==
    CASE Paired(said) -> Junction(said, grid, xs, ways)
      [] ~Paired(said) /\ said.house = NoHouse -> NoAnswer
      [] OTHER -> FirstFound(CivicRungs(ParseHouseAndStreet(said), grid, xs, ways))

\* Whether a heard address is one of the city's, for the comparison of wordings.
PairExists(matches) ==
    LET top == IF matches = {} THEN 0 ELSE Max({m.score : m \in matches})
    IN  [score |-> top, matched |-> top >= Threshold]

AddressExists(said, ways) ==
    IF Paired(said) THEN PairExists(Lookup(said.street, said.other, ways.loaded).matches)
    ELSE ValidateAddressExists(ParseHouseAndStreet(said), ways.down)

-----------------------------------------------------------------------------
(* What stands at a place.                                                 *)

\* The text "None", which str() makes of a NULL zone.
NoneAsText == -1

Zone(place) ==
    LET rows == {r.zone : r \in {p \in Parcels : place.kind = "parcel" /\ p.id = place.id}}
                \cup {r.zone : r \in {j \in Junctions : place.kind \in {"junction", "between"}
                                                        /\ j.id = place.id}}
                \cup {r.zone : r \in {s \in Segments : /\ place.kind \notin
                                                           {"parcel", "junction", "between", "street"}
                                                       /\ s.id = place.id}}
    IN  IF place.kind = "section" THEN place.at
        ELSE IF rows = {} THEN NoZone ELSE CHOOSE z \in rows : TRUE

\* The zone of the point; nothing when the query fails, and "None" when no zone
\* has the point.
GetMapGridForPoint(place, down) ==
    IF place = Nowhere \/ "zone" \in down THEN NoZone
    ELSE IF Zone(place) # NoZone THEN Zone(place) ELSE NoneAsText

ValidatePointInGrid(place, grid) == place # Nowhere /\ grid # NoZone /\ Zone(place) = grid

IsWithinCity(place) == IF place = Nowhere THEN "unknown"
                       ELSE IF Zone(place) \in CityZones THEN "inside" ELSE "outside"

RoadsNearPoint(place, radius) ==
    {FullName(s) : s \in {r \in Segments : place # Nowhere /\ Distance(place.id, r.name) <= radius}}

RoadsInZone(zone) == {FullName(s) : s \in {r \in Segments : zone # NoZone /\ zone \in r.zones}}

StreetsInGrid(zone) == {p.street : p \in {q \in Parcels : zone # NoZone /\ q.zone = zone}}
=============================================================================
