----------------------------- MODULE CallPlacement -----------------------------
(***************************************************************************)
(* One call from its first round to its final record: phase 1 publishes a  *)
(* location only when it is sure of it, phase 2 hears the whole recording  *)
(* and confirms, corrects or keeps what phase 1 showed.  Between the two   *)
(* the database and the router may each have gone away or come back.       *)
(***************************************************************************)
EXTENDS CallRecord

CONSTANTS
    Heard1,      \* what phase 1 may hear: [candidates, contact, incident]
    Heard2,      \* what phase 2 may hear
    Geocoded,    \* what the geocoder answers: a function on Attempts
    Outages      \* what may fail in one phase: [down, unread], `down` a set of rungs
                 \* and queries, `unread` one overlong reading (NoHouse: none)

VARIABLES
    loaded,      \* whether the junctions were read when the process started
    stage,       \* "hearing", "shown" or "final"
    path,        \* which rule of phase 2 made the final record
    session,     \* what phase 1 left for phase 2: its candidates, or none
    record,      \* the record of the call, as last published
    attempts     \* the geocoding attempts behind it

vars == <<loaded, stage, path, session, record, attempts>>

-----------------------------------------------------------------------------
(* What several candidates say.                                            *)

Said(candidates, Field(_), none) ==
    IF \E i \in DOMAIN candidates : Field(candidates[i]) # none
    THEN Field(candidates[SelectInSeq(candidates, LAMBDA c : Field(c) # none)])
    ELSE none

Grid(candidates) == Said(candidates, LAMBDA c : c.grid, NoZone)
Channel(candidates) == Said(candidates, LAMBDA c : c.channel, NoChannel)
Response(candidates) == Said(candidates, LAMBDA c : c.response, NoResponse)
Unit(candidates) == Said(candidates, LAMBDA c : c.unit, NoUnit)
Units(candidates) == Said(candidates, LAMBDA c : c.units, <<>>)

\* Each near road from the first candidate that has one in its place.
XStreets(candidates) ==
    [i \in 1..2 |-> Said(candidates, LAMBDA c : c.xs[i], NoWords)]

Attempted(said, grid, xs, ways) == [said |-> said, grid |-> grid, xs |-> xs, ways |-> ways]

Hearings == Heard1 \cup Heard2
Candidates == UNION {Range(h.candidates) : h \in Hearings}

\* What the parser makes of an announcement.
ASSUME HearingsOK ==
    /\ \A h \in Hearings : h.candidates \in Seq(Range(h.candidates))
    /\ \A c \in Candidates :
          /\ c.units \in Seq(Range(c.units))
          /\ c.xs = <<c.xs[1], c.xs[2]>>
          /\ c.said = [house |-> c.said.house, block |-> c.said.block,
                       street |-> c.said.street, other |-> c.said.other]
          /\ c.said.house \in Seq(Digits)
          /\ c.said.block \in BOOLEAN

\* Everything that may be asked of the geocoder: a location that was heard or
\* withheld, with any of the grids and near roads.
Locations == {c.said : c \in Candidates} \cup {Unblocked(c.said) : c \in Candidates}
             \cup {Bracketed}
             \cup {[house |-> p.house, block |-> FALSE, street |-> ParcelStreet(p),
                     other |-> NoWords] : p \in Parcels}
Grids == {c.grid : c \in Candidates} \cup {NoZone}
NearRoads == (UNION {Range(c.xs) : c \in Candidates}) \cup {NoWords}

Attempts ==
    [said : Locations, grid : Grids, xs : NearRoads \X NearRoads,
     ways : {Attempt(o.down, o.unread, index) : o \in Outages, index \in BOOLEAN}]

\* The constant is the ladder, worked out once for every attempt.
ASSUME GeocodedIsTheLadder ==
    Geocoded = [t \in Attempts |-> GetCoordinates(t.said, t.grid, t.xs, t.ways)]

\* Every different location heard, tried with the hints of the whole hearing.
Tries(candidates, grid, ways) ==
    [i \in DOMAIN candidates |->
        Attempted(candidates[i].said, grid, XStreets(candidates), ways)]

Confidence(a) == IF Found(a) THEN a.conf ELSE -1

\* The surest, the first of equals; the first location when none answers.
Surest(confs) ==
    CHOOSE i \in DOMAIN confs : \A j \in DOMAIN confs :
        confs[j] < confs[i] \/ (confs[j] = confs[i] /\ i <= j)

Best(tries) == Surest([i \in DOMAIN tries |-> Confidence(Geocoded[tries[i]])])

-----------------------------------------------------------------------------
(* Phase 1, and phase 2 when phase 1 left nothing.                         *)

IsJunction(a) == a.rung = "junction" \/ a.candidates # {}
ZoneId(a) == IF a.rung \in {"exact", "reading"} THEN a.zone ELSE NoZone

\* Plausible bug: whatever the operator may choose from is shown (DISP-2026-56F11A).
Bug_Solid(a) == ZoneId(a) # NoZone \/ (IsJunction(a) /\ (a.conf >= 100 \/ a.ambiguous))

\* Rule A: a parcel, an exact junction, or exact junctions to choose from.
Solid(a) ==
    \/ ZoneId(a) # NoZone
    \/ IsJunction(a) /\ a.note.kind # "near miss" /\ (a.conf >= 100 \/ a.ambiguous)

\* A location withheld: asked for under the address that was wanted.
Withheld(r, a, said) == [r EXCEPT !.address = Requested(a, said), !.pending = TRUE]

Sourced(grid, source) == IF grid = NoZone THEN <<NoZone, "none">> ELSE <<grid, source>>

\* The grid that was said, or the zone of the point.
SpokenGrid(candidates, place, down) ==
    IF Grid(candidates) # NoZone THEN <<Grid(candidates), "announced">>
    ELSE Sourced(GetMapGridForPoint(place, down), "point-zone")

\* Preliminary: the verified grid of the parcel shown, or its zone; never the
\* grid that was said.
PublishedGrid(heard, zone, r, preliminary, down) ==
    CASE ~preliminary -> SpokenGrid(heard.candidates, r.place, down)
      [] preliminary /\ (r.pending \/ zone = NoZone) -> <<NoZone, "none">>
      [] OTHER -> IF VerifiedGridFor(r.address, Unit(heard.candidates), down) # NoZone
                  THEN <<VerifiedGridFor(r.address, Unit(heard.candidates), down), "verified-history">>
                  ELSE <<zone, "parcel-zone">>

\* What phase 1 tries is not narrowed by the grid of a cut recording.
PayloadTries(heard, ways, preliminary) ==
    IF heard.contact THEN <<>>
    ELSE Tries(heard.candidates, IF preliminary THEN NoZone ELSE Grid(heard.candidates), ways)

\* Phase 1 leaves the mark "check this location" to phase 2.
Flagged(r, near, heard, preliminary) ==
    LET flags == ComputeReviewFlags(r, near, r.response)
    IN  [r EXCEPT !.flags = flags,
                  !.verify = /\ ~preliminary
                             /\ \/ flags \cap {"LOCATION_UNRESOLVED", "LOCATION_SUBSTITUTED"} # {}
                                \/ heard.candidates = <<>> /\ heard.incident = "Unknown Incident"]

Filled(r, near, grid, heard, answering, preliminary) ==
    LET cs == heard.candidates
    IN  Flagged([r EXCEPT
                    !.grid = grid[1], !.source = grid[2], !.channel = Channel(cs),
                    !.response = Response(cs), !.unit = Unit(cs), !.units = Units(cs),
                    !.incident = heard.incident, !.xs = near.shown,
                    !.routes = ComputeRoutingMetrics(Units(cs), r.place, r.ends, answering)],
                near, heard, preliminary)

WithNearRoads(r, zone, heard, ways, answering, preliminary) ==
    Filled(r, ApplyNearRoads(XStreets(heard.candidates), r.place, zone, ways.down),
           PublishedGrid(heard, zone, r, preliminary, ways.down), heard, answering, preliminary)

Payload(a, said, heard, ways, answering, preliminary) ==
    IF preliminary /\ Found(a) /\ ~Solid(a)
    THEN WithNearRoads(Withheld(NoRecord, a, said), NoZone, heard, ways, answering, preliminary)
    ELSE WithNearRoads(Located(NoRecord, a, said), ZoneId(a), heard, ways, answering, preliminary)

PayloadOf(t, heard, ways, answering, preliminary) ==
    Payload(Geocoded[t], t.said, heard, ways, answering, preliminary)

BuildDispatchPayload(heard, ways, answering, preliminary) ==
    LET tries == PayloadTries(heard, ways, preliminary)
    IN  IF tries = <<>> THEN Payload(NoAnswer, UnknownLocation, heard, ways, answering, preliminary)
        ELSE PayloadOf(tries[Best(tries)], heard, ways, answering, preliminary)

-----------------------------------------------------------------------------
(* Phase 2 with what phase 1 left.                                         *)

\* The units of both phases, those of the first before those only heard later,
\* which come in some order.
MergeUnits(first, second) == first \o SetToSeq(Range(second) \ Range(first))

GridAfterPhase2(candidates, place, down) == SpokenGrid(candidates, place, down)

\* Plausible bug: only the parcel's own zone is remembered as what was shown.
Bug_Derived(r) == IF r.source = "parcel-zone" THEN r.grid ELSE NoZone

\* The grid phase 1 worked out by itself, to be compared with the one heard.
Derived(r) == IF r.source \in {"parcel-zone", "verified-history"} THEN r.grid ELSE NoZone

Or(value, none, other) == IF value # none THEN value ELSE other

\* The fields of both rounds, blanks filled from phase 1.
CoalescedXStreets(cs, p1) ==
    [i \in 1..2 |-> Or(XStreets(cs)[i], NoWords, Head(p1).xs[i])]

\* Plausible bug: the flags are those of the routes phase 1 had.
Bug_Reflagged(r, old, near, response) ==
    [r EXCEPT !.flags = ComputeReviewFlags([r EXCEPT !.routes = old.routes], near, response)]

Reflagged(r, old, near, response) == [r EXCEPT !.flags = ComputeReviewFlags(r, near, response)]

\* What both the match and the correction put on the record once its place is
\* settled.  The announced response type reaches the routes and the flags only.
Refilled(r, near, p1, heard, grid, ends, answering) ==
    LET cs == heard.candidates
        units == MergeUnits(Head(p1).units, Head(cs).units)
    IN  Reflagged([r EXCEPT
                      !.grid = grid[1], !.source = grid[2], !.derived = Derived(r),
                      !.channel = Or(Channel(cs), NoChannel, Head(p1).channel),
                      !.unit = Or(Unit(cs), NoUnit, Or(Head(p1).unit, NoUnit, @)),
                      !.units = units, !.incident = heard.incident, !.xs = near.shown,
                      !.pending = FALSE, !.verify = FALSE,
                      !.routes = RefreshRoutingMetrics(@, units, r.place, ends, answering)],
                  r, near, Head(cs).response)

Refreshed(r, p1, heard, grid, ends, ways, answering) ==
    Refilled(r, ApplyNearRoads(CoalescedXStreets(heard.candidates, p1), r.place, grid[1], ways.down),
             p1, heard, grid, ends, answering)

\* The location phase 1 withheld, asked for again under the address it showed.
PendingTry(r, p1, cs, ways) ==
    Attempted(r.address, GridAfterPhase2(cs, r.place, ways.down)[1], CoalescedXStreets(cs, p1), ways)

\* Where the parcel's pin stands is not taken over.
Placed(r, a, said) ==
    IF Found(a) THEN [Located(r, a, said) EXCEPT !.arrival = r.arrival] ELSE r

MatchedAt(r, p1, heard, grid, ways, answering) ==
    Refreshed(r, p1, heard, grid, r.ends, ways, answering)

\* The grid is looked up before the withheld location is placed.
Matched(r, p1, heard, ways, answering) ==
    LET t == PendingTry(r, p1, heard.candidates, ways)
    IN  MatchedAt(IF r.pending THEN Placed(r, Geocoded[t], t.said) ELSE r, p1, heard,
                  GridAfterPhase2(heard.candidates, r.place, ways.down), ways, answering)

\* The other address, asked for without any hint.
CorrectionTry(cs, ways) == Attempted(Head(cs).said, NoZone, <<NoWords, NoWords>>, ways)

\* The address and the point move; the note, the kind, the ends and the arrival
\* point stay those of the place phase 1 showed.
Moved(r, a, said) ==
    [r EXCEPT !.address = ShownAddress(a, said), !.place = a.place, !.rung = a.rung]

CorrectedTo(r, a, p1, heard, ways, answering) ==
    Refreshed(Moved(r, a, Head(heard.candidates).said), p1, heard,
              GridAfterPhase2(heard.candidates, a.place, ways.down), a.ends, ways, answering)

Corrected(r, p1, heard, ways, answering) ==
    CorrectedTo(r, Geocoded[CorrectionTry(heard.candidates, ways)], p1, heard, ways, answering)

-----------------------------------------------------------------------------
(* The two phases of a call.                                               *)

NoSession == <<>>

Ways == {Attempt(o.down, o.unread, loaded) : o \in Outages}

Init ==
    /\ loaded \in BOOLEAN
    /\ stage = "hearing"
    /\ path = "none"
    /\ session = NoSession
    /\ record = NoRecord
    /\ attempts = {}

\* The first round is whole: its record is stored and published.
Phase1(heard, ways, answering) ==
    /\ stage = "hearing"
    /\ heard.candidates # <<>> /\ Units(heard.candidates) # <<>>
    /\ heard.incident # "Unknown Incident"
    /\ stage' = "shown"
    /\ session' = heard.candidates
    /\ record' = BuildDispatchPayload(heard, ways, answering, TRUE)
    /\ attempts' = Range(PayloadTries(heard, ways, TRUE))
    /\ UNCHANGED <<loaded, path>>

Finalize(how, heard, made, tried) ==
    /\ stage' = "final"
    /\ path' = how
    /\ record' = made
    /\ attempts' = tried
    /\ UNCHANGED <<loaded, session>>

\* Phase 1 never found a whole round.
Phase2Single(heard, ways, answering) ==
    /\ stage = "hearing"
    /\ Finalize("single", heard, BuildDispatchPayload(heard, ways, answering, FALSE),
                Range(PayloadTries(heard, ways, FALSE)))

SameLocation(heard) ==
    heard.candidates # <<>> /\ Head(heard.candidates).said = Head(session).said

Phase2Match(heard, ways, answering) ==
    /\ stage = "shown"
    /\ SameLocation(heard)
    /\ Finalize("match", heard, Matched(record, session, heard, ways, answering),
                IF record.pending THEN {PendingTry(record, session, heard.candidates, ways)}
                ELSE attempts)

Phase2Correct(heard, ways, answering) ==
    /\ stage = "shown"
    /\ ~SameLocation(heard) /\ heard.candidates # <<>>
    /\ Found(Geocoded[CorrectionTry(heard.candidates, ways)])
    /\ Finalize("corrected", heard, Corrected(record, session, heard, ways, answering),
                {CorrectionTry(heard.candidates, ways)})

\* Another address that nothing can place, or none at all: phase 1's record
\* stays as it is, marked for a look only when there was another address.
Phase2Keep(heard, ways, answering) ==
    /\ stage = "shown"
    /\ \/ heard.candidates = <<>>
       \/ /\ ~SameLocation(heard) /\ heard.candidates # <<>>
          /\ ~Found(Geocoded[CorrectionTry(heard.candidates, ways)])
    /\ Finalize("kept", heard, [record EXCEPT !.verify = heard.candidates # <<>>], attempts)

Next ==
    \E ways \in Ways, answering \in SUBSET Range(Routers) :
        \/ \E heard \in Heard1 : Phase1(heard, ways, answering)
        \/ \E heard \in Heard2 :
               \/ Phase2Single(heard, ways, answering)
               \/ Phase2Match(heard, ways, answering)
               \/ Phase2Correct(heard, ways, answering)
               \/ Phase2Keep(heard, ways, answering)

Spec == Init /\ [][Next]_vars

-----------------------------------------------------------------------------
(* What must hold.                                                         *)

\* The record is one the kiosk can show, each stage has what it needs, and every
\* location asked for is one the geocoder was asked about.
PlacementTypeOK ==
    /\ stage \in {"hearing", "shown", "final"}
    /\ path \in {"none", "single", "match", "corrected", "kept"}
    /\ (stage = "final") = (path # "none")
    /\ (session = NoSession) = (stage = "hearing" \/ path = "single")
    /\ DOMAIN record = DOMAIN NoRecord
    /\ record.place = Nowhere => record.routes = {}
    /\ record.source = "none" <=> record.grid = NoZone
    /\ attempts \subseteq {t \in Attempts : t.ways.loaded = loaded}

\* geocoder.py:257-267: more said about a call never makes its place worse.  An
\* address that is a parcel without hints is a parcel with any grid and any
\* near roads.
MoreSaidNeverWorse ==
    \A t \in attempts :
        LET plain == Geocoded[[t EXCEPT !.grid = NoZone, !.xs = <<NoWords, NoWords>>]]
        IN  plain.place.kind = "parcel" => Geocoded[t].place.kind = "parcel"

\* The near roads or the grid tell parcel p from parcel q.
ToldApart(p, q, t) ==
    \/ t.grid # NoZone /\ p.zone = t.grid /\ q.zone # t.grid
    \/ /\ VerifiedXStreets(t.xs) # {}
       /\ FarFrom(p.id, VerifiedXStreets(t.xs)) < FarFrom(q.id, VerifiedXStreets(t.xs))

LikeSaid(p, t) ==
    LET said == ParseHouseAndStreet(t.said)
    IN  ScoreStreet(QueryStreet(said.raw, said.type), NormalizeStreetName(ParcelStreet(p)))

\* A location shown without a note is no guess, whatever query failed on the
\* way: it is the parcel of that very number, no other street at the number
\* being as like what was heard unless a hint tells the two apart; or it is a
\* junction of the two streets heard, in the grid heard.
NoQuietGuess ==
    \A t \in attempts :
        LET a == Geocoded[t]
        IN  Found(a) /\ a.note = Silent =>
            \/ \E p \in Parcels :
                  /\ a.place.kind = "parcel" /\ a.place.id = p.id /\ p.house = t.said.house
                  /\ \A q \in Parcels :
                        q.house = p.house /\ ParcelStreet(q) # ParcelStreet(p) =>
                            LikeSaid(q, t) < LikeSaid(p, t) \/ ToldApart(p, q, t)
            \/ \E j \in Junctions :
                  /\ a.place.kind = "junction" /\ a.place.id = j.id
                  /\ {Squash(w) : w \in j.pair} =
                        {Squash(NormalizeStreetName(t.said.street)),
                         Squash(NormalizeStreetName(t.said.other))}
                  /\ t.grid # NoZone => t.grid \in j.touches \cup {j.zone}

\* Rule A (payload_builder.py:269-304): the place phase 1 shows is a parcel at a
\* number it heard, or at a reading of a number no parcel can have, or a
\* junction of two streets it heard.  A near miss is never shown in the first
\* minute.
FirstShownWasHeard ==
    stage = "shown" /\ record.place # Nowhere =>
        \E i \in DOMAIN session :
            LET said == session[i].said
            IN  \/ \E p \in Parcels :
                      /\ record.place.kind = "parcel" /\ record.place.id = p.id
                      /\ p.house \in {said.house} \cup OverlongReadings(said.house)
                \/ \E j \in Junctions :
                      /\ record.place.kind = "junction" /\ record.place.id = j.id
                      /\ {Squash(w) : w \in j.pair} = {Squash(NormalizeStreetName(said.street)),
                                                      Squash(NormalizeStreetName(said.other))}

\* payload_builder.py:103-121: every unit of the record is routed to the place of
\* the record, or, where that is a stretch, to an end of that very stretch; an
\* ETA to somewhere else never stays.  A record left without a unit may keep the
\* routes of the units it had, to the same place.
RoutesFollowPlace ==
    /\ record.place # Nowhere /\ record.units # <<>> =>
          {m.unit : m \in record.routes} = Range(record.units)
    /\ \A m \in record.routes :
          IF m.section
          THEN /\ m.to.kind \in {"end", "carriageway"} /\ m.to.at = record.place.at
               /\ record.place.kind \in {"section", "block"}
          ELSE m.to = record.place

\* phase2.py:350-352: phase 2 recomputes the flags rather than inheriting them.
\* What they say of the place, the grid and the route is what the record has.
FlagsFollowRecord ==
    stage # "hearing" =>
        /\ "LOCATION_UNRESOLVED" \in record.flags <=> record.place = Nowhere
        /\ "LOCATION_SUBSTITUTED" \in record.flags <=>
              record.note # Silent /\ record.kind # "block"
        /\ "NO_MAP_GRID" \in record.flags <=> Blank(record.grid)
        /\ "NO_UNITS" \in record.flags <=> record.units = <<>>
        /\ "ROUTE_SNAP_FAR" \in record.flags <=> \E m \in record.routes : m.snap > SnapLimit

\* phase2.py:68-72: a crew that was shown one grid and is then shown another is
\* told so by a flag.
GridChangeIsFlagged ==
    [][stage = "shown" /\ ~Blank(record.grid) /\ ~Blank(record'.grid)
       /\ record'.grid # record.grid => "GRID_MISMATCH" \in record'.flags]_vars

\* geocoder.py:149-151: an approximation always carries a note, which raises the
\* kiosk's banner APPROXIMATE LOCATION.
ApproximationIsMarked ==
    record.rung \in {"interpolate", "nearest", "between", "street", "road", "section"} =>
        record.note # Silent
=============================================================================
