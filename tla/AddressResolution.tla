-------------------------- MODULE AddressResolution --------------------------
(***************************************************************************)
(* The rungs of gis_service/address_resolver.py that answer from parcels   *)
(* and road segments.                                                      *)
(*                                                                         *)
(* Every rung opens a connection of its own and takes any error of the     *)
(* database for "not found": `down` is the set of rungs whose queries fail *)
(* in this attempt, and `unread` the one overlong reading whose query      *)
(* fails (NoHouse: none).                                                  *)
(*                                                                         *)
(* An answer says where the pin is (place), what wording is shown, how     *)
(* sure it is, and what its resolution_note states.                        *)
(***************************************************************************)
EXTENDS StreetNames

Rungs == {"block", "exact", "ranking", "interpolate", "nearest", "between", "street", "road",
          "section", "narrowing"}

NoPart == "no part"

Place(kind, id, part) == [kind |-> kind, id |-> id, part |-> part, at |-> 0]
Nowhere == Place("none", 0, NoPart)

\* What a note states about the address: nothing; that no parcel has it; that
\* the pin is where the street meets another; anything else.
Silent == [kind |-> "none", house |-> NoHouse, street |-> NoWords]
Stating(kind, house, street) == [kind |-> kind, house |-> house, street |-> street]

NoAnswer == [place |-> Nowhere, house |-> NoHouse, street |-> NoWords, conf |-> 0,
             note |-> Silent, ambiguous |-> FALSE, candidates |-> {}, zone |-> NoZone,
             rung |-> "none", ends |-> {}]

Found(a) == a.place # Nowhere

\* An answer without a note and without candidates.
Answer(rung, place, house, street, conf) ==
    [NoAnswer EXCEPT !.rung = rung, !.place = place, !.house = house, !.street = street,
                     !.conf = conf]

-----------------------------------------------------------------------------
(* Rung 1: the parcel at the house number.                                 *)

NarrowByMapGrid(rows, grid) ==
    LET inside == {p \in rows : p.zone = grid}
    IN  IF grid = NoZone \/ inside = {} THEN rows ELSE inside

\* The one row nearest to both roads; a tie leaves the rows as they were.
Nearest(rows, names) == {p \in rows : \A q \in rows : FarFrom(p.id, names) <= FarFrom(q.id, names)}

OnlyOne(nearest, rows) == IF Cardinality(nearest) = 1 THEN nearest ELSE rows

NarrowByXStreets(rows, names, down) ==
    IF names = {} \/ "ranking" \in down THEN rows ELSE OnlyOne(Nearest(rows, names), rows)

\* ORDER BY is_base_site DESC, street, streettype, id: the first of the best.
FirstRow(rows) ==
    LET first == IF \E p \in rows : p.base THEN {p \in rows : p.base} ELSE rows
    IN  CHOOSE p \in first : \A q \in first : p.id <= q.id

BestScore(rows, heard) ==
    Max({ScoreStreet(heard, NormalizeStreetName(ParcelStreet(p))) : p \in rows})

Streets(rows) == {<<p.street, p.type>> : p \in rows}

\* Operator-verified entrance, then the frontage point, then the centroid.
ArrivalPoint(p) == IF p.entrance THEN "entrance" ELSE IF p.front THEN "front" ELSE "centroid"

\* A type without a name identifies no street.
Bare(words) == StreetNameTokens(words) = NoWords

\* Plausible bug: the first of several streets that match equally is taken.
Bug_Unresolved(rows) == FALSE

Unresolved(rows) == Cardinality(Streets(rows)) > 1

MostAlike(rows, heard, top) ==
    IF top < Threshold THEN {}
    ELSE {p \in rows : ScoreStreet(heard, NormalizeStreetName(ParcelStreet(p))) = top}

\* The rows at the number whose street is most like the one heard.
BestMatches(rows, heard) ==
    IF Bare(heard) \/ rows = {} THEN {} ELSE MostAlike(rows, heard, BestScore(rows, heard))

\* Narrowed by the announced grid and then by the near roads when they name
\* several streets.
Narrowed(best, inGrid, xs, down) ==
    CASE ~Unresolved(best) -> best
      [] Unresolved(best) /\ ~Unresolved(inGrid) -> inGrid
      [] OTHER -> NarrowByXStreets(inGrid, VerifiedXStreets(xs), down)

NarrowedMatches(best, grid, xs, down) == Narrowed(best, NarrowByMapGrid(best, grid), xs, down)

ExactAnswer(row, heard) ==
    [Answer("exact", Place("parcel", row.id, ArrivalPoint(row)), row.house, ParcelStreet(row),
            BestScore({row}, heard)) EXCEPT !.zone = row.zone]

FromMatches(rows, heard) ==
    IF rows = {} \/ Unresolved(rows) THEN NoAnswer ELSE ExactAnswer(FirstRow(rows), heard)

ExactAmong(rows, heard, grid, xs, down) ==
    FromMatches(NarrowedMatches(BestMatches(rows, heard), grid, xs, down), heard)

ResolveExact(house, raw, type, grid, xs, down) ==
    IF "exact" \in down THEN NoAnswer
    ELSE ExactAmong({p \in Parcels : p.house = house}, QueryStreet(raw, type), grid, xs, down)

-----------------------------------------------------------------------------
(* Rung 1b: five or six digits, which no civic number has.                 *)

\* What one reading resolves to.
ResolveReading(reading, said, grid, xs, down, unread) ==
    IF reading = unread THEN NoAnswer
    ELSE ResolveExact(reading, said.raw, said.type, grid, xs, down)

\* One reading is shown with a note; the first of several only to choose from.
FromReadings(first, places, said) ==
    [first EXCEPT !.rung = "reading", !.note = Stating("reading", said.house, said.raw),
                  !.conf = IF Cardinality(places) = 1 THEN Min({@, 70}) ELSE 50,
                  !.ambiguous = Cardinality(places) > 1,
                  !.candidates = IF Cardinality(places) = 1 THEN {} ELSE places]

\* From what each reading resolves to, and the readings that do.
FromHits(answers, hits, said) ==
    IF hits = {} THEN NoAnswer
    ELSE FromReadings(answers[FirstReading(hits)], {answers[r].place : r \in hits}, said)

FromAnswers(answers, said) ==
    FromHits(answers, {r \in DOMAIN answers : Found(answers[r])}, said)

ResolveOverlongHouse(said, grid, xs, down, unread) ==
    FromAnswers([r \in OverlongReadings(said.house) |->
                    ResolveReading(r, said, grid, xs, down, unread)], said)

-----------------------------------------------------------------------------
(* Rungs 0 and 3: along a road segment, by its address ranges.             *)

NoRange == <<0, 0>>
Low(r) == Min({r[1], r[2]})
High(r) == Max({r[1], r[2]})
Within(n, r) == r # NoRange /\ Low(r) <= n /\ n <= High(r)

\* How far along the segment the number is, in hundredths: on the left when the
\* left side has the number.
Along(n, s) ==
    LET r == IF Within(n, s.left) THEN s.left ELSE s.right
    IN  IF High(r) = Low(r) THEN 50 ELSE (100 * (n - Low(r))) \div (High(r) - Low(r))

\* LIMIT 1 without an order: the instance gives the first row.
FirstOf(rows) == CHOOSE r \in rows : \A q \in rows : r.id <= q.id

ResolveBlock(said, down) ==
    LET n == Value(said.house)
        on == {s \in Segments : /\ OnRoad(s, said.street, said.type)
                                /\ Within(n, s.left) \/ Within(n, s.right)}
        s == FirstOf(on)
    IN  IF "interpolate" \in down \/ on = {} THEN NoAnswer
        ELSE [Answer("interpolate", [Place("segment", s.id, NoPart) EXCEPT !.at = Along(n, s)],
                     said.house, said.street \o said.type, 70)
              EXCEPT !.note = Stating("no parcel", said.house, said.street \o said.type)]

\* The numbers at the two ends of a segment's line: the left side's, or the
\* right side's where the left has none.
Ends(s) == IF s.left # NoRange THEN s.left ELSE s.right

Hundred(n) == (n \div 100) * 100

\* What the cut at the block's boundaries leaves of the segment is a line.
HasPiece(s, lo) ==
    LET r == Ends(s)
    IN  Low(r) = High(r) \/ Max({Low(r), lo}) < Min({High(r), lo + 99})

\* The numbers of both sides together reach into the block.
InBlock(s, lo) ==
    LET r == {x \in {s.left[1], s.left[2], s.right[1], s.right[2]} : x # 0}
    IN  Ends(s) # NoRange /\ Min(r) <= lo + 99 /\ Max(r) >= lo

\* The middle of the hundred-block; on a divided road also the middle of each
\* carriageway, for each unit to be routed to the nearer one.
ResolveBlockMidpoint(said, down) ==
    LET lo == Hundred(Value(said.house))
        pieces == {s \in Segments : /\ OnRoad(s, said.street, said.type)
                                    /\ InBlock(s, lo)
                                    /\ HasPiece(s, lo)}
        middles == {[Place("carriageway", s.run, NoPart) EXCEPT !.at = lo] : s \in pieces}
        street == said.street \o said.type
    IN  IF "block" \in down \/ pieces = {} THEN NoAnswer
        ELSE [Answer("block", [Place("block", FirstOf(pieces).id, NoPart) EXCEPT !.at = lo],
                     said.house, street, 70)
              EXCEPT !.note = Stating("block", said.house, street),
                     !.ends = IF Cardinality(middles) > 1 THEN middles ELSE {}]

-----------------------------------------------------------------------------
(* Rungs 4 to 7: what is left when no parcel and no range has the number.  *)

SameHundred(p, n) == Hundred(Value(p.house)) = Hundred(n)

Delta(p, n) == IF Value(p.house) < n THEN n - Value(p.house) ELSE Value(p.house) - n

\* Whether p comes no later than q: by how far off its number is, then by how far
\* it is from the near roads, then by number.
NoLater(p, q, n, names) ==
    \/ Delta(p, n) < Delta(q, n)
    \/ /\ Delta(p, n) = Delta(q, n)
       /\ \/ FarFrom(p.id, names) < FarFrom(q.id, names)
          \/ /\ FarFrom(p.id, names) = FarFrom(q.id, names)
             /\ Value(p.house) <= Value(q.house)

NearestAnswer(row, delta, said) ==
    [Answer("nearest", Place("parcel", row.id, "centroid"), row.house, ParcelStreet(row),
            IF delta <= 20 THEN 70 ELSE IF delta <= 100 THEN 60 ELSE 55)
     EXCEPT !.note = Stating("no parcel", said.house, said.street \o said.type)]

NearestOf(rows, n, names, said) ==
    LET row == CHOOSE p \in rows : \A q \in rows : NoLater(p, q, n, names)
    IN  NearestAnswer(row, Delta(row, n), said)

\* The nearest number of the same hundred-block that is no unit of a building.
ResolveNearestCivic(said, xs, down) ==
    LET rows == {p \in Parcels : /\ OnParcelStreet(p, said.street, said.type)
                                 /\ ~p.unit
                                 /\ SameHundred(p, Value(said.house))}
    IN  IF "nearest" \in down \/ rows = {} THEN NoAnswer
        ELSE NearestOf(rows, Value(said.house), VerifiedXStreets(xs), said)

\* One junction of the street with a near road; LIMIT 1.
JunctionsWith(street, road) == {j \in Junctions : j.pair = {street, road}}

\* Midpoint of the junctions with both near roads, or the one there is.  The
\* second is only looked at next to a first, and a single point is said to be
\* where the street meets the first.
BetweenAnswer(cross, street, said, first) ==
    LET At(i) == FirstOf(JunctionsWith(street, cross[i])).id
    IN  IF Len(cross) = 1
        THEN [Answer("between", Place("junction", At(1), NoPart), said.house, street, 72)
              EXCEPT !.note = Stating("meets", NoHouse, first)]
        ELSE [Answer("between", [Place("between", At(1), NoPart) EXCEPT !.at = At(2)], said.house,
                     street, 75)
              EXCEPT !.note = Stating("between", NoHouse, first)]

\* The near roads that meet the street.
Meeting(street, xs) ==
    SelectSeq([i \in DOMAIN xs |-> NormalizeStreetName(xs[i])],
              LAMBDA w : w # NoWords /\ JunctionsWith(street, w) # {})

BetweenOn(street, said, xs) ==
    IF Meeting(street, xs) = <<>> THEN NoAnswer
    ELSE BetweenAnswer(Meeting(street, xs), street, said, xs[1])

ResolveXStreetNarrow(said, xs, down) ==
    IF "between" \in down \/ xs[1] = NoWords THEN NoAnswer
    ELSE BetweenOn(NormalizeStreetName(said.street \o said.type), said, xs)

Approximate(a, said) ==
    IF Found(a) THEN [a EXCEPT !.note = Stating("street", said.house, said.raw)] ELSE a

ResolveStreetCentroid(said, down) ==
    LET rows == {p \in Parcels : OnParcelStreet(p, said.street, said.type)}
    IN  IF "street" \in down \/ rows = {} THEN NoAnswer
        ELSE Answer("street", Place("street", FirstOf(rows).id, NoPart), NoHouse,
                    said.street \o said.type, 50)

ResolveRoadCentroid(said, down) ==
    LET rows == {s \in Segments : OnRoad(s, said.street, said.type)}
    IN  IF "road" \in down \/ rows = {} THEN NoAnswer
        ELSE Answer("road", Place("road", FirstOf(rows).id, NoPart), NoHouse,
                    said.street \o said.type, 45)

-----------------------------------------------------------------------------
(* Whether an address exists, for the choice between heard wordings.       *)

\* The score, and whether it names one street: a tie of streets matches none.
Validated(rows, heard, top) ==
    [score |-> top,
     matched |-> /\ top >= Threshold
                 /\ Cardinality({NormalizeStreetName(ParcelStreet(p)) :
                                    p \in MostAlike(rows, heard, top)}) = 1]

ValidatedAmong(rows, heard, down) ==
    IF Bare(heard) \/ "exact" \in down \/ rows = {} THEN [score |-> 0, matched |-> FALSE]
    ELSE Validated(rows, heard, BestScore(rows, heard))

ValidateAddressExists(said, down) ==
    ValidatedAmong({p \in Parcels : p.house = said.house}, QueryStreet(said.raw, said.type), down)
=============================================================================
