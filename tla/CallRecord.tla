------------------------------ MODULE CallRecord ------------------------------
(***************************************************************************)
(* The record of a call: what phase 1 builds from the first round          *)
(* (pipeline/payload_builder.py) and what phase 2 makes of it from the     *)
(* full recording (pipeline/phase2.py), with the near roads, the verified  *)
(* grids and the review flags that both use.                               *)
(*                                                                         *)
(* What a phase heard is a record [candidates, contact, incident]: a       *)
(* candidate is one parsed announcement, `said` its address or junction.   *)
(***************************************************************************)
EXTENDS Geocoder, Routing

CONSTANTS
    Descriptors,     \* wordings announced as near roads that are no streets
    NearRadius,      \* NEAR_ROAD_RADIUS_M
    NearFloor,       \* NEARBY_FUZZ_THRESHOLD
    SnapLimit,       \* ROUTE_SNAP_FLAG_METRES
    Verified         \* earlier verified calls: [house, street, unit, grid]

ASSUME CallRecordConstantsOK ==
    /\ NearRadius \in Nat /\ SnapLimit \in Nat /\ NearFloor \in 1..100
    /\ \A v \in Verified : v.grid # NoZone

NoUnit == "no unit"
NoResponse == "not said"
NoChannel == "no channel"

-----------------------------------------------------------------------------
(* Near roads (pipeline/near_roads.py).                                    *)

Base(words) ==
    IF Len(words) >= 2 /\ words[Len(words)] \in SuffixTokens THEN Front(words) ELSE words

SameSpelling(a, b) == Squash(a) = Squash(b)

Match2(resolved, how) == [resolved |-> resolved, how |-> how]

\* The whole name, then the one name of that base, then the one spelled most
\* alike.  Two forms of one base leave the choice to a person.
MatchNormalized(h, candidates) ==
    LET exact == {c \in candidates : SameSpelling(NormalizeStreetName(c), h)}
        base == {c \in candidates : SameSpelling(Base(NormalizeStreetName(c)), Base(h))}
        Score(c) == ScoreStreet(Base(h), Base(NormalizeStreetName(c)))
        Strict(c) == Score(c) >= NearFloor /\ \A d \in candidates \ {c} : Score(d) < Score(c)
    IN  CASE h = NoWords -> Match2(NoWords, "unresolved")
          [] h # NoWords /\ exact # {} -> Match2(CHOOSE c \in exact : TRUE, "exact")
          [] h # NoWords /\ exact = {} /\ Cardinality(base) = 1 ->
                 Match2(CHOOSE c \in base : TRUE, "base")
          [] h # NoWords /\ exact = {} /\ Cardinality(base) > 1 -> Match2(NoWords, "ambiguous")
          [] OTHER -> IF \E c \in candidates : Strict(c)
                      THEN Match2(CHOOSE c \in candidates : Strict(c), "nearby-fuzzy")
                      ELSE Match2(NoWords, "unresolved")

MatchHeardRoad(heard, candidates) == MatchNormalized(NormalizeStreetName(heard), candidates)

\* Only a name that no road accounts for may be a descriptor.
MatchDescriptor(heard, match) ==
    IF match.resolved = NoWords /\ heard \in Descriptors THEN Match2(heard, "descriptor") ELSE match

ResolveAmong(xs, candidates) ==
    [i \in {k \in DOMAIN xs : xs[k] # NoWords} |->
        MatchDescriptor(xs[i], IF candidates = {} THEN Match2(NoWords, "no-candidates")
                               ELSE MatchHeardRoad(xs[i], candidates))]

\* Among the roads near the point, or those crossing the zone when there are none.
ResolveNearRoads(xs, place, zone, down) ==
    ResolveAmong(xs, IF "roads" \in down THEN {}
                     ELSE IF RoadsNearPoint(place, NearRadius) # {}
                          THEN RoadsNearPoint(place, NearRadius) ELSE RoadsInZone(zone))

Near(xs, matches) ==
    [shown |-> [i \in DOMAIN xs |-> IF i \in DOMAIN matches /\ matches[i].resolved # NoWords
                                    THEN matches[i].resolved ELSE xs[i]],
     unresolved |-> Cardinality({i \in DOMAIN matches : matches[i].resolved = NoWords}),
     substituted |-> Cardinality({i \in DOMAIN matches : matches[i].how = "nearby-fuzzy"})]

ApplyNearRoads(xs, place, zone, down) == Near(xs, ResolveNearRoads(xs, place, zone, down))

-----------------------------------------------------------------------------
(* The grid an address was verified to be dispatched as (grid_history.py). *)

\* The unit's own history decides when it has one; disagreement decides nothing.
ChooseGrid(history, unit) ==
    LET own == {v.grid : v \in {w \in history : unit # NoUnit /\ w.unit = unit}}
        all == {v.grid : v \in history}
        told == IF own # {} THEN own ELSE all
    IN  IF Cardinality(told) = 1 THEN CHOOSE g \in told : TRUE ELSE NoZone

VerifiedGridFor(address, unit, down) ==
    LET key == ParseHouseAndStreet(address)
        street == QueryStreet(key.raw, key.type)
    IN  IF address.house = NoHouse \/ "history" \in down THEN NoZone
        ELSE ChooseGrid({v \in Verified : v.house = address.house
                                          /\ NormalizeStreetName(v.street) = street}, unit)

-----------------------------------------------------------------------------
(* Routes (payload_builder.py:33-132).                                     *)

ComputeRoutingMetrics(units, place, ends, answering) ==
    CalculateUnitsRouting(units, place, ends, Nowhere, answering)

RoutingMatchesDestination(routes, place) ==
    routes # {} /\ place # Nowhere /\ \A m \in routes : m.section \/ m.to = place

\* Plausible bug: what phase 1 routed serves the whole call.
Bug_RefreshRoutingMetrics(existing, units, place, ends, answering) ==
    IF existing # {} THEN existing ELSE ComputeRoutingMetrics(units, place, ends, answering)

\* A metric without an ETA is a metric: the ETAs of phase 1 are kept only when
\* nothing at all could be computed.
RefreshRoutingMetrics(existing, units, place, ends, answering) ==
    IF ComputeRoutingMetrics(units, place, ends, answering) # {}
    THEN ComputeRoutingMetrics(units, place, ends, answering)
    ELSE IF RoutingMatchesDestination(existing, place) THEN existing ELSE {}

MaxDestinationSnap(routes) == Max({Unknown} \cup {m.snap : m \in routes})

-----------------------------------------------------------------------------
(* Review flags (pipeline/review_flags.py).                                *)

Blank(grid) == grid \in {NoZone, NoneAsText}

\* A flag for each thing a person has to look at.
ComputeReviewFlags(r, near, response) ==
    LET holds == [LOCATION_UNRESOLVED  |-> r.place = Nowhere,
                  LOCATION_SUBSTITUTED |-> r.note # Silent /\ r.kind # "block",
                  STREET_SECTION_ONLY  |-> r.kind = "street_section",
                  BLOCK_MIDPOINT       |-> r.kind = "block",
                  NO_TALK_GROUP        |-> r.channel = NoChannel,
                  NO_MAP_GRID          |-> Blank(r.grid),
                  GRID_MISMATCH        |-> ~Blank(r.grid) /\ ~Blank(r.derived) /\ r.grid # r.derived,
                  XSTREET_UNRESOLVED   |-> near.unresolved > 0,
                  XSTREET_SUBSTITUTED  |-> near.substituted > 0,
                  NO_UNITS             |-> r.units = <<>>,
                  UNKNOWN_CALL_TYPE    |-> r.incident = "Unknown Incident",
                  RESPONSE_TYPE_UNKNOWN |-> response = NoResponse,
                  ROUTE_SNAP_FAR       |-> MaxDestinationSnap(r.routes) > SnapLimit]
    IN  {f \in DOMAIN holds : holds[f]}

-----------------------------------------------------------------------------
(* What is shown of an answer.                                             *)

\* "<street> (between <road> & <road>)": read back, it names no street.
Bracketed == [house |-> NoHouse, block |-> FALSE, street |-> <<"(BETWEEN)">>, other |-> NoWords]
UnknownLocation == [Bracketed EXCEPT !.street = <<"UNKNOWN">>]

\* The word "Block" stays in the address of a block alone: read back, the rest is a number.
Unblocked(said) == [said EXCEPT !.block = FALSE]

ShownAddress(a, said) ==
    CASE a.rung \in {"between", "section"} -> Bracketed
      [] a.rung \in {"street", "road"} ->
             [Unblocked(said) EXCEPT !.house = NoHouse, !.street = a.street]
      [] a.rung \in {"exact", "reading", "nearest"} ->
             [Unblocked(said) EXCEPT !.house = a.house, !.street = a.street]
      [] a.rung = "interpolate" -> Unblocked(said)
      [] OTHER -> said

\* requested_address, where the rung sets it; the shown address where it does not.
Requested(a, said) ==
    CASE a.rung \in {"exact", "between"} -> ShownAddress(a, said)
      [] a.rung \in {"reading", "interpolate", "nearest", "street", "road"} -> Unblocked(said)
      [] OTHER -> said

LocationType(a) ==
    CASE a.rung = "block" -> "block" [] a.rung = "section" -> "street_section" [] OTHER -> "point"

\* Where the parcel's pin stands, which only an exact parcel says.
Arrival(a) == IF a.rung \in {"exact", "reading"} THEN a.place.part ELSE NoPart

NoRecord ==
    [address |-> UnknownLocation, place |-> Nowhere, note |-> Silent, kind |-> "point",
     ends |-> {}, arrival |-> NoPart, pending |-> FALSE, grid |-> NoZone, source |-> "none",
     derived |-> NoZone, channel |-> NoChannel, response |-> NoResponse, routes |-> {},
     xs |-> <<NoWords, NoWords>>, unit |-> NoUnit, units |-> <<>>, incident |-> "Unknown Incident",
     flags |-> {}, verify |-> FALSE, rung |-> "none"]

\* The record with an answer's location in it, nothing of another's left over.
Located(r, a, said) ==
    IF ~Found(a) THEN [r EXCEPT !.address = said]
    ELSE [r EXCEPT !.address = ShownAddress(a, said), !.place = a.place, !.note = a.note,
                   !.kind = LocationType(a), !.ends = a.ends, !.arrival = Arrival(a),
                   !.rung = a.rung]
=============================================================================
