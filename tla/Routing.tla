-------------------------------- MODULE Routing --------------------------------
(***************************************************************************)
(* gis_service/routing_engine.py: where a unit starts, what the router     *)
(* says of its way, and what is said when no router answers.               *)
(***************************************************************************)
EXTENDS Integers, FiniteSets, Sequences, SequencesExt, FiniteSetsExt

CONSTANTS
    Halls,        \* station numbers; the default is 1
    Crow,         \* [<<hall, place id>> -> metres in a straight line]
    Minutes,      \* [<<hall, place id>> -> minutes the router answers], rounded
    Snap,         \* [place id -> metres the router moves the destination]
    Routers       \* addresses of the router, in the order they are tried

ASSUME RoutingConstantsOK ==
    /\ 1 \in Halls
    /\ \A way \in DOMAIN Crow : Crow[way] \in Nat
    /\ \A way \in DOMAIN Minutes : Minutes[way] \in Nat
    /\ \A p \in DOMAIN Snap : Snap[p] \in Nat

\* A unit is its kind ("E", "SQ") and its number, digit by digit.
Number(unit) == FoldLeft(LAMBDA n, d : 10 * n + d, 0, unit.digits)

\* A kind that a hall's number makes that hall's, whatever digits follow.
HallKinds == [h \in {2, 3, 4} |->
    CASE h = 2 -> {"E", "L", "R", "SQ", "T", "WT"}
      [] h = 3 -> {"E", "H", "HT", "S", "SQ"}
      [] OTHER -> {"E", "T", "WT", "LAV", "SQ"}]

GetUnitStationId(unit) ==
    LET by == {h \in DOMAIN HallKinds :
                 unit.digits # <<>> /\ Head(unit.digits) = h /\ unit.kind \in HallKinds[h]}
        quint == unit.kind = "Q" /\ unit.digits # <<>> /\ Head(unit.digits) = 5
    IN  CASE by # {} -> CHOOSE h \in by : TRUE
          [] by = {} /\ quint -> 3
          [] by = {} /\ ~quint /\ Number(unit) \in Halls -> Number(unit)
          [] OTHER -> 1

GetApparatusProfileClass(unit) ==
    CASE unit.kind \in {"SQ", "LAV", "C", "M", "S"} -> "light"
      [] unit.kind \in {"L", "WT", "T"} -> "heavy"
      [] OTHER -> "general"

GetUnitType(unit) ==
    LET name == [SQ |-> "Squad", LAV |-> "Light Attack Vehicle", L |-> "Ladder",
                 WT |-> "Water Tender", T |-> "Water Tender", E |-> "Engine", R |-> "Rescue",
                 Q |-> "Quint", C |-> "Chief", M |-> "Medic", S |-> "Specialty"]
    IN  IF unit.kind \in DOMAIN name THEN name[unit.kind] ELSE "Apparatus"

GetHallLocation(hall) == IF hall \in Halls THEN hall ELSE 1

CrowDistance(hall, place) ==
    IF <<hall, place.id>> \in DOMAIN Crow THEN Crow[<<hall, place.id>>] ELSE 1000

-----------------------------------------------------------------------------
(* The router.                                                             *)

Unknown == -1

NoRoute == [minutes |-> Unknown, snap |-> Unknown]

\* The first router that answers; each is given up after its own timeout.
FetchOsrmRoute(hall, place, answering) ==
    LET tried == SelectSeq(Routers, LAMBDA r : r \in answering)
        way == <<hall, place.id>>
    IN  IF tried = <<>> THEN NoRoute
        ELSE [minutes |-> IF way \in DOMAIN Minutes THEN Minutes[way] ELSE 5,
              snap |-> IF place.id \in DOMAIN Snap THEN Snap[place.id] ELSE Unknown]

\* An ETA is at least a minute, and unknown rather than estimated.
Eta(route) == IF route.minutes = Unknown THEN Unknown ELSE Max({1, route.minutes})

CalculateUnitMetrics(unit, place, answering) ==
    LET hall == GetHallLocation(GetUnitStationId(unit))
        route == FetchOsrmRoute(hall, place, answering)
    IN  [unit |-> unit, class |-> GetApparatusProfileClass(unit), type |-> GetUnitType(unit),
         hall |-> hall, to |-> place, eta |-> Eta(route), snap |-> route.snap,
         source |-> IF route.minutes = Unknown THEN "degraded_no_router" ELSE "osrm",
         section |-> FALSE]

\* Of the ends of a section the one nearest to the unit's own hall.
NearestDestination(unit, options) ==
    LET hall == GetHallLocation(GetUnitStationId(unit))
    IN  CHOOSE p \in options : \A q \in options : CrowDistance(hall, p) <= CrowDistance(hall, q)

\* Plausible bug: a call without a destination is routed all the same.
Bug_CalculateUnitsRouting(units, place, options, nowhere, answering) ==
    {CalculateUnitMetrics(u, place, answering) : u \in Range(units)}

\* Each unit once; nothing without a destination.
CalculateUnitsRouting(units, place, options, nowhere, answering) ==
    IF place = nowhere THEN {}
    ELSE {IF options = {} THEN CalculateUnitMetrics(u, place, answering)
          ELSE [CalculateUnitMetrics(u, NearestDestination(u, options), answering)
                EXCEPT !.section = TRUE] : u \in Range(units)}

\* What the route of one unit shows, for the map.
CalculateRoute(hall, place, answering) ==
    LET route == FetchOsrmRoute(GetHallLocation(hall), place, answering)
    IN  [eta |-> Eta(route), snap |-> route.snap,
         status |-> IF route.minutes = Unknown THEN "degraded" ELSE "success"]
=============================================================================
