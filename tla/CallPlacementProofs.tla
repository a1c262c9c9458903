-------------------------- MODULE CallPlacementProofs --------------------------
(***************************************************************************)
(* Proofs about CallPlacement, for every city, every announcement and any  *)
(* failures of the database and the router.                                *)
(***************************************************************************)
EXTENDS CallPlacement, FiniteSetTheorems, WellFoundedInduction, TLAPS

(***************************************************************************)
(* The least and the greatest of a set of numbers.                         *)
(***************************************************************************)

Less == {p \in Nat \X Nat : p[1] < p[2]}

\* A set of natural numbers that has one has a least one.
LEMMA Least ==
    ASSUME NEW T \in SUBSET Nat, T # {}
    PROVE  \E m \in T : \A k \in T : m <= k
<1>1. OpToRel(<, Nat) = Less
  BY DEF OpToRel, Less
<1>2. IsWellFoundedOn(Less, Nat)
  BY <1>1, NatLessThanWellFounded
<1>3. PICK m \in T : \A k \in T : ~ (<<k, m>> \in Less)
  BY <1>2, WFMin
<1>4. ASSUME NEW k \in T, k < m PROVE <<k, m>> \in Less
  BY <1>4 DEF Less
<1>5. \A k \in T : ~(k < m)
  BY <1>3, <1>4
<1>6. \A k \in T : m <= k
  BY <1>5
<1> QED
  BY <1>6

\* What FiniteSetsExt calls its minimum.
LEMMA MinIsLeast ==
    ASSUME NEW T \in SUBSET Nat, T # {}
    PROVE  Min(T) \in T /\ \A k \in T : Min(T) <= k
  BY Least DEF Min

\* A finite set of integers that has one has a greatest one.
LEMMA MaxIsGreatest ==
    ASSUME NEW T \in SUBSET Int, T # {}, IsFiniteSet(T)
    PROVE  Max(T) \in T /\ \A k \in T : Max(T) >= k
<1> DEFINE above(x) == {y \in T : y > x}
           counts == {Cardinality(above(x)) : x \in T}
<1>1. ASSUME NEW x \in T
      PROVE  IsFiniteSet(above(x)) /\ Cardinality(above(x)) \in Nat
  BY FS_Subset, FS_CardinalityType
<1>2. PICK n \in counts : \A k \in counts : n <= k
  <2>1. counts \in SUBSET Nat
    BY <1>1
  <2>2. counts # {}
    OBVIOUS
  <2> HIDE DEF counts
  <2> QED
    BY <2>1, <2>2, Least
<1>3. PICK x \in T : n = Cardinality(above(x))
  BY <1>2
<1>4. ASSUME NEW y \in T, y > x PROVE FALSE
  <2>1. above(y) \subseteq above(x) /\ above(y) # above(x)
    <3>1. y \in above(x) /\ y \notin above(y)
      BY <1>4
    <3>2. ASSUME NEW z \in T, z > y PROVE z > x
      BY <1>4, <3>2
    <3> QED
      BY <3>1, <3>2
  <2> HIDE DEF above
  <2>2. Cardinality(above(y)) < Cardinality(above(x))
    BY <1>1, <2>1, FS_Subset
  <2>3. Cardinality(above(y)) \in counts
    OBVIOUS
  <2> QED
    BY <1>1, <1>2, <1>3, <2>2, <2>3
<1>5. \A y \in T : x >= y
  BY <1>4
<1> QED
  BY <1>5 DEF Max

\* What a function on a finite set yields is finite.
LEMMA FiniteYield ==
    ASSUME NEW S, IsFiniteSet(S), NEW T, NEW f \in [S -> T],
           \A y \in T : \E x \in S : f[x] = y
    PROVE  IsFiniteSet(T)
<1>1. f \in Surjection(S, T)
  BY DEF Surjection
<1> QED
  BY <1>1, FS_Surjection

\* A sequence has finitely many elements, and none only when it is empty.
LEMMA FiniteRange ==
    ASSUME NEW s, s \in Seq(Range(s))
    PROVE  IsFiniteSet(Range(s)) /\ (Range(s) = {} <=> s = <<>>)
<1>1. DOMAIN s = 1..Len(s) /\ Len(s) \in Nat
  OBVIOUS
<1>2. IsFiniteSet(1..Len(s))
  BY <1>1, FS_Interval
<1>3. s \in [1..Len(s) -> Range(s)]
  OBVIOUS
<1>4. \A y \in Range(s) : \E x \in 1..Len(s) : s[x] = y
  BY <1>1 DEF Range
<1>5. IsFiniteSet(Range(s))
  BY <1>2, <1>3, <1>4, FiniteYield
<1>6. ASSUME Range(s) = {} PROVE s = <<>>
  <2>1. \A i \in 1..Len(s) : s[i] \in Range(s)
    BY <1>1 DEF Range
  <2>2. Len(s) = 0
    BY <1>1, <1>6, <2>1
  <2> QED
    BY <2>2
<1>7. s = <<>> => Range(s) = {}
  BY DEF Range
<1> QED
  BY <1>5, <1>6, <1>7

-----------------------------------------------------------------------------
(***************************************************************************)
(* The review flags.                                                       *)
(***************************************************************************)

LEMMA FlagsSay ==
    ASSUME NEW r, NEW near, NEW response
    PROVE  LET flags == ComputeReviewFlags(r, near, response)
           IN  /\ "LOCATION_UNRESOLVED" \in flags <=> r.place = Nowhere
               /\ "LOCATION_SUBSTITUTED" \in flags <=> r.note # Silent /\ r.kind # "block"
               /\ "NO_MAP_GRID" \in flags <=> Blank(r.grid)
               /\ "GRID_MISMATCH" \in flags
                     <=> ~Blank(r.grid) /\ ~Blank(r.derived) /\ r.grid # r.derived
               /\ "NO_UNITS" \in flags <=> r.units = <<>>
               /\ "ROUTE_SNAP_FAR" \in flags <=> MaxDestinationSnap(r.routes) > SnapLimit
  BY DEF ComputeReviewFlags

\* Finitely many routes, each with a snap that is a number of metres or unknown.
Measured(routes) == IsFiniteSet(routes) /\ \A m \in routes : m.snap \in Int

LEMMA SnapIsTheLargest ==
    ASSUME NEW routes, Measured(routes)
    PROVE  MaxDestinationSnap(routes) > SnapLimit <=> \E m \in routes : m.snap > SnapLimit
<1> DEFINE snaps == {Unknown} \cup {m.snap : m \in routes}
<1>1. IsFiniteSet(snaps)
  <2> DEFINE f == [m \in routes |-> m.snap]
  <2>1. f \in [routes -> {m.snap : m \in routes}]
    OBVIOUS
  <2>2. \A y \in {m.snap : m \in routes} : \E m \in routes : f[m] = y
    OBVIOUS
  <2>3. IsFiniteSet({m.snap : m \in routes})
    BY <2>1, <2>2, FiniteYield DEF Measured
  <2> QED
    BY <2>3, FS_AddElement
<1>2. snaps \in SUBSET Int /\ snaps # {}
  BY DEF Measured, Unknown
<1>3. Max(snaps) \in snaps /\ \A k \in snaps : Max(snaps) >= k
  BY <1>1, <1>2, MaxIsGreatest
<1>4. SnapLimit \in Nat
  BY CallRecordConstantsOK
<1>5. MaxDestinationSnap(routes) = Max(snaps)
  BY DEF MaxDestinationSnap
<1>6. ASSUME NEW m \in routes, m.snap > SnapLimit PROVE Max(snaps) > SnapLimit
  <2>1. m.snap \in Int /\ m.snap \in snaps
    BY DEF Measured
  <2> DEFINE top == Max(snaps)
  <2>2. top \in Int /\ top >= m.snap
    BY <1>2, <1>3, <2>1
  <2> HIDE DEF top
  <2>3. top > SnapLimit
    BY <1>4, <1>6, <2>1, <2>2
  <2> QED
    BY <2>3 DEF top
<1>7. ASSUME Max(snaps) > SnapLimit PROVE \E m \in routes : m.snap > SnapLimit
  <2>1. Unknown \in Int /\ ~(Unknown > SnapLimit)
    BY <1>4 DEF Unknown
  <2>2. PICK k \in snaps : k > SnapLimit
    BY <1>3, <1>7
  <2> QED
    BY <2>1, <2>2
<1> QED
  BY <1>5, <1>6, <1>7

\* The flags of a record that was flagged last, and say nothing but what it says.
FlagsHold(r) ==
    /\ "LOCATION_UNRESOLVED" \in r.flags <=> r.place = Nowhere
    /\ "LOCATION_SUBSTITUTED" \in r.flags <=> r.note # Silent /\ r.kind # "block"
    /\ "NO_MAP_GRID" \in r.flags <=> Blank(r.grid)
    /\ "NO_UNITS" \in r.flags <=> r.units = <<>>
    /\ "ROUTE_SNAP_FAR" \in r.flags <=> \E m \in r.routes : m.snap > SnapLimit

MismatchFlagged(r) ==
    "GRID_MISMATCH" \in r.flags <=> ~Blank(r.grid) /\ ~Blank(r.derived) /\ r.grid # r.derived

\* A record keeps the fields it is made with.
Fields == DOMAIN NoRecord
LEMMA FieldsAre ==
    Fields = {"address", "place", "note", "kind", "ends", "arrival", "pending", "grid", "source",
              "derived", "channel", "response", "routes", "xs", "unit", "units", "incident",
              "flags", "verify", "rung"}
  BY DEF Fields, NoRecord

\* The flags are those of the record they were computed from.
LEMMA FlaggedLast ==
    ASSUME NEW r, NEW s, NEW near, NEW response, Measured(r.routes),
           s.flags = ComputeReviewFlags(r, near, response),
           s.place = r.place, s.note = r.note, s.kind = r.kind, s.grid = r.grid,
           s.units = r.units, s.routes = r.routes, s.derived = r.derived
    PROVE  FlagsHold(s) /\ MismatchFlagged(s)
<1>1. MaxDestinationSnap(r.routes) > SnapLimit <=> \E m \in r.routes : m.snap > SnapLimit
  BY SnapIsTheLargest
<1> QED
  BY <1>1, FlagsSay DEF FlagsHold, MismatchFlagged

-----------------------------------------------------------------------------
(***************************************************************************)
(* The routes.                                                             *)
(***************************************************************************)

LEMMA UnitRouted ==
    ASSUME NEW u, NEW p, NEW answering,
           NEW m, m = CalculateUnitMetrics(u, p, answering)
    PROVE  m.section = FALSE /\ m.snap \in Int
<1> DEFINE hall == GetHallLocation(GetUnitStationId(u))
           route == FetchOsrmRoute(hall, p, answering)
<1>1. route.snap \in Int
  BY RoutingConstantsOK DEF FetchOsrmRoute, NoRoute, Unknown
<1> HIDE DEF route, hall
<1>2. m
      = [unit |-> u, class |-> GetApparatusProfileClass(u), type |-> GetUnitType(u),
         hall |-> hall, to |-> p, eta |-> Eta(route), snap |-> route.snap,
         source |-> IF route.minutes = Unknown THEN "degraded_no_router" ELSE "osrm",
         section |-> FALSE]
  BY DEF CalculateUnitMetrics, hall, route
<1> QED
  BY <1>1, <1>2

LEMMA NearestIsAnOption ==
    ASSUME NEW unit, NEW options, options # {}
    PROVE  NearestDestination(unit, options) \in options
<1> DEFINE hall == GetHallLocation(GetUnitStationId(unit))
           far == {CrowDistance(hall, p) : p \in options}
<1>1. ASSUME NEW p PROVE CrowDistance(hall, p) \in Nat
  <2> HIDE DEF hall
  <2> QED
    BY RoutingConstantsOK DEF CrowDistance
<1> HIDE DEF hall
<1>2. far \in SUBSET Nat /\ far # {}
  BY <1>1
<1>3. PICK d \in far : \A k \in far : d <= k
  BY <1>2, Least
<1>4. \E p \in options : \A q \in options : CrowDistance(hall, p) <= CrowDistance(hall, q)
  BY <1>3
<1> QED
  BY <1>4 DEF NearestDestination, hall

\* The ends of a stretch are ends of that stretch.
EndsFit(place, ends) ==
    ends # {} =>
        /\ place.kind \in {"section", "block"}
        /\ \A e \in ends : e.kind \in {"end", "carriageway"} /\ e.at = place.at

\* Every route goes to the place, or to an end of the stretch the place is.
Follow(routes, place) ==
    \A m \in routes :
        IF m.section
        THEN /\ m.to.kind \in {"end", "carriageway"} /\ m.to.at = place.at
             /\ place.kind \in {"section", "block"}
        ELSE m.to = place

RoutedUnits(routes) == {m.unit : m \in routes}

LEMMA NothingToNowhere ==
    ASSUME NEW units, NEW ends, NEW answering
    PROVE  ComputeRoutingMetrics(units, Nowhere, ends, answering) = {}
  BY DEF ComputeRoutingMetrics, CalculateUnitsRouting

LEMMA RoutesComputed ==
    ASSUME NEW units, units \in Seq(Range(units)), NEW place, NEW ends, NEW answering,
           EndsFit(place, ends),
           NEW routes, routes = ComputeRoutingMetrics(units, place, ends, answering)
    PROVE  /\ Measured(routes)
           /\ Follow(routes, place)
           /\ place # Nowhere => RoutedUnits(routes) = Range(units)
           /\ ends = {} => \A m \in routes : ~m.section
<1>1. CASE place = Nowhere
  BY <1>1, NothingToNowhere, FS_EmptySet DEF Measured, Follow
<1>2. CASE place # Nowhere
  <2> DEFINE one(u) == IF ends = {} THEN CalculateUnitMetrics(u, place, answering)
                       ELSE [CalculateUnitMetrics(u, NearestDestination(u, ends), answering)
                             EXCEPT !.section = TRUE]
  <2>1. routes = {one(u) : u \in Range(units)}
    BY <1>2 DEF ComputeRoutingMetrics, CalculateUnitsRouting
  <2>2. ASSUME NEW u \in Range(units)
        PROVE  /\ one(u).unit = u /\ one(u).snap \in Int
               /\ ends = {} => one(u).section = FALSE /\ one(u).to = place
               /\ ends # {} => one(u).section = TRUE /\ one(u).to \in ends
    <3>1. CASE ends = {}
      <4> DEFINE m == CalculateUnitMetrics(u, place, answering)
      <4>1. m.unit = u /\ m.to = place /\ m.section = FALSE /\ m.snap \in Int
        <5>1. m.unit = u /\ m.to = place
          BY DEF CalculateUnitMetrics
        <5>2. m.section = FALSE /\ m.snap \in Int
          BY UnitRouted
        <5> QED
          BY <5>1, <5>2
      <4>2. one(u) = m
        BY <3>1
      <4> HIDE DEF m, one
      <4> QED
        BY <3>1, <4>1, <4>2
    <3>2. CASE ends # {}
      <4> DEFINE m == CalculateUnitMetrics(u, NearestDestination(u, ends), answering)
      <4>1. NearestDestination(u, ends) \in ends
        BY <3>2, NearestIsAnOption
      <4>2. /\ m.unit = u /\ m.to = NearestDestination(u, ends) /\ m.snap \in Int
            /\ "section" \in DOMAIN m
        <5>1. /\ m.unit = u /\ m.to = NearestDestination(u, ends)
              /\ "section" \in DOMAIN m
          BY DEF CalculateUnitMetrics
        <5>2. m.snap \in Int
          BY UnitRouted
        <5> QED
          BY <5>1, <5>2
      <4>3. one(u) = [m EXCEPT !.section = TRUE]
        BY <3>2
      <4> HIDE DEF m, one
      <4>4. /\ one(u).unit = m.unit /\ one(u).to = m.to /\ one(u).snap = m.snap
            /\ one(u).section = TRUE
        BY <4>2, <4>3
      <4> QED
        BY <3>2, <4>1, <4>2, <4>4
    <3> QED
      BY <3>1, <3>2
  <2> HIDE DEF one
  <2>3. IsFiniteSet(routes)
    <3> DEFINE f == [u \in Range(units) |-> one(u)]
    <3>1. f \in [Range(units) -> routes] /\ \A m \in routes : \E u \in Range(units) : f[u] = m
      BY <2>1
    <3> QED
      BY <3>1, FiniteRange, FiniteYield
  <2>4. Measured(routes)
    BY <2>1, <2>2, <2>3 DEF Measured
  <2>5. RoutedUnits(routes) = Range(units)
    <3>1. ASSUME NEW u \in Range(units) PROVE u \in RoutedUnits(routes)
      BY <2>1, <2>2 DEF RoutedUnits
    <3>2. ASSUME NEW m \in routes PROVE m.unit \in Range(units)
      BY <2>1, <2>2
    <3> QED
      BY <3>1, <3>2 DEF RoutedUnits
  <2>6. ASSUME NEW m \in routes
        PROVE  IF m.section
               THEN /\ m.to.kind \in {"end", "carriageway"} /\ m.to.at = place.at
                    /\ place.kind \in {"section", "block"}
               ELSE m.to = place
    <3>1. PICK u \in Range(units) : m = one(u)
      BY <2>1
    <3>2. CASE ends = {}
      BY <2>2, <3>1, <3>2
    <3>3. CASE ends # {}
      BY <2>2, <3>1, <3>3 DEF EndsFit
    <3> QED
      BY <3>2, <3>3
  <2>7. ends = {} => \A m \in routes : ~m.section
    BY <2>1, <2>2
  <2> QED
    BY <2>4, <2>5, <2>6, <2>7 DEF Follow
<1> QED
  BY <1>1, <1>2

\* Where phase 1 had no stretch, phase 2 leaves no route to another place.
LEMMA RoutesRefreshed ==
    ASSUME NEW units, units \in Seq(Range(units)), NEW place, NEW ends, NEW answering,
           EndsFit(place, ends),
           NEW existing, Measured(existing), \A m \in existing : ~m.section
    PROVE  LET routes == RefreshRoutingMetrics(existing, units, place, ends, answering)
           IN  /\ Measured(routes)
               /\ Follow(routes, place)
               /\ place # Nowhere /\ units # <<>> => RoutedUnits(routes) = Range(units)
               /\ place = Nowhere => routes = {}
<1> DEFINE routes == RefreshRoutingMetrics(existing, units, place, ends, answering)
<1> DEFINE fresh == ComputeRoutingMetrics(units, place, ends, answering)
<1>1. /\ Measured(fresh) /\ Follow(fresh, place)
      /\ place # Nowhere => RoutedUnits(fresh) = Range(units)
  BY RoutesComputed
<1>2. place = Nowhere => fresh = {}
  BY NothingToNowhere
<1>3. routes = IF fresh # {} THEN fresh
               ELSE IF RoutingMatchesDestination(existing, place) THEN existing ELSE {}
  BY DEF RefreshRoutingMetrics
<1> HIDE DEF fresh, routes
<1>4. CASE fresh # {}
  BY <1>1, <1>2, <1>3, <1>4 DEF routes
<1>5. CASE fresh = {}
  <2>1. place # Nowhere => units = <<>>
    BY <1>1, <1>5, FiniteRange DEF RoutedUnits
  <2>2. routes \in {existing, {}} /\ (routes # {} => RoutingMatchesDestination(existing, place))
    BY <1>3, <1>5
  <2>3. Measured({}) /\ Follow({}, place)
    BY FS_EmptySet DEF Measured, Follow
  <2>4. Follow(routes, place)
    BY <2>2, <2>3 DEF RoutingMatchesDestination, Follow
  <2>5. place = Nowhere => routes = {}
    BY <2>2 DEF RoutingMatchesDestination
  <2> QED
    BY <2>1, <2>2, <2>3, <2>4, <2>5 DEF routes
<1> QED
  BY <1>4, <1>5 DEF routes

-----------------------------------------------------------------------------
(***************************************************************************)
(* What the rungs of the geocoder answer.                                  *)
(***************************************************************************)

\* Some of the numbers from 0 to 100 have a greatest one.
LEMMA MaxOfScores ==
    ASSUME NEW S \in SUBSET (0..100), S # {}
    PROVE  Max(S) \in S /\ \A k \in S : Max(S) >= k
<1>1. 0 \in Int /\ 100 \in Int
  OBVIOUS
<1>2. IsFiniteSet(0..100)
  BY <1>1, FS_Interval
<1>3. IsFiniteSet(S)
  BY <1>2, FS_Subset
<1>4. S \in SUBSET Int
  OBVIOUS
<1> QED
  BY <1>3, <1>4, MaxIsGreatest

LEMMA ScoreIsAScore ==
    ASSUME NEW a, NEW b
    PROVE  ScoreStreet(a, b) \in 0..100
<1>1. <<a, b>> \in DOMAIN Alike => Alike[<<a, b>>] \in 0..99
  BY StreetNamesConstantsOK
<1> QED
  BY <1>1 DEF ScoreStreet

LEMMA FirstOfIsARow ==
    ASSUME NEW rows, rows # {}, \A r \in rows : r.id \in Nat
    PROVE  FirstOf(rows) \in rows /\ \A r \in rows : FirstOf(rows).id <= r.id
<1> DEFINE ids == {r.id : r \in rows}
<1>1. ids \in SUBSET Nat /\ ids # {}
  OBVIOUS
<1>2. PICK m \in ids : \A k \in ids : m <= k
  BY <1>1, Least
<1>3. \E r \in rows : \A q \in rows : r.id <= q.id
  BY <1>2
<1> QED
  BY <1>3 DEF FirstOf

Likeness(heard, p) == ScoreStreet(heard, NormalizeStreetName(ParcelStreet(p)))

LEMMA BestScoreIsTheHighest ==
    ASSUME NEW rows, rows # {}, NEW heard
    PROVE  /\ BestScore(rows, heard) \in 0..100
           /\ \A p \in rows : Likeness(heard, p) <= BestScore(rows, heard)
<1> DEFINE scores == {Likeness(heard, p) : p \in rows}
<1>1. ASSUME NEW p \in rows PROVE Likeness(heard, p) \in 0..100
  BY ScoreIsAScore DEF Likeness
<1>2. scores \in SUBSET (0..100) /\ scores # {}
  BY <1>1
<1>3. Max(scores) \in scores /\ \A k \in scores : Max(scores) >= k
  BY <1>2, MaxOfScores
<1>4. BestScore(rows, heard) = Max(scores)
  BY DEF BestScore, Likeness
<1>5. \A p \in rows : Likeness(heard, p) \in scores
  OBVIOUS
<1> DEFINE top == Max(scores)
<1>6. top \in 0..100 /\ \A k \in scores : k \in 0..100 /\ top >= k
  BY <1>2, <1>3
<1> HIDE DEF scores, top
<1>7. \A p \in rows : Likeness(heard, p) <= top
  BY <1>5, <1>6
<1> QED
  BY <1>4, <1>6, <1>7 DEF top

LEMMA FirstRowIsARow ==
    ASSUME NEW rows \in SUBSET Parcels, rows # {}
    PROVE  FirstRow(rows) \in rows
<1> DEFINE first == IF \E p \in rows : p.base THEN {p \in rows : p.base} ELSE rows
<1>1. first # {} /\ first \subseteq rows /\ \A r \in first : r.id \in Nat
  BY StreetNamesConstantsOK
<1>2. FirstRow(rows) = FirstOf(first)
  BY DEF FirstRow, FirstOf
<1> HIDE DEF first
<1> QED
  BY <1>1, <1>2, FirstOfIsARow

\* Two rows of different streets leave the rows unresolved.
LEMMA TwoStreetsUnresolved ==
    ASSUME NEW rows \in SUBSET Parcels, NEW p \in rows, NEW q \in rows,
           ~Unresolved(rows)
    PROVE  ParcelStreet(p) = ParcelStreet(q)
<1> DEFINE names == Streets(rows)
           f == [r \in rows |-> <<r.street, r.type>>]
<1>1. IsFiniteSet(rows)
  BY StreetNamesConstantsOK, FS_Subset
<1>2. f \in [rows -> names] /\ \A y \in names : \E r \in rows : f[r] = y
  BY DEF Streets
<1>3. IsFiniteSet(names)
  BY <1>1, <1>2, FiniteYield
<1>4. f[p] \in names /\ f[q] \in names
  BY <1>2
<1>5. Cardinality(names) <= 1 /\ Cardinality(names) \in Nat
  BY <1>3, FS_CardinalityType DEF Unresolved
<1>6. f[p] = f[q]
  <2> DEFINE x == f[p]
             y == f[q]
  <2> HIDE DEF x, y
  <2>1. ASSUME x # y PROVE FALSE
    <3>1. IsFiniteSet({x}) /\ Cardinality({x}) = 1 /\ y \notin {x}
      BY <2>1, FS_Singleton
    <3>2. Cardinality({x} \cup {y}) = 2
      <4> DEFINE S == {x}
      <4>1. IsFiniteSet(S) /\ Cardinality(S) = 1 /\ y \notin S
        BY <3>1
      <4> HIDE DEF S
      <4>2. Cardinality(S \cup {y}) = Cardinality(S) + 1
        BY <4>1, FS_AddElement
      <4>3. Cardinality(S \cup {y}) = 2
        BY <4>1, <4>2
      <4> QED
        BY <4>3 DEF S
    <3>3. {x} \cup {y} \subseteq names
      BY <1>4 DEF x, y
    <3>4. Cardinality({x} \cup {y}) <= Cardinality(names)
      BY <1>3, <3>3, FS_Subset
    <3> QED
      BY <1>5, <3>2, <3>4
  <2> QED
    BY <2>1 DEF x, y
<1>7. p.street = q.street /\ p.type = q.type
  BY <1>6
<1> QED
  BY <1>7 DEF ParcelStreet

LEMMA DistanceIsANumber ==
    ASSUME NEW place, NEW name
    PROVE  Distance(place, name) \in Nat
  BY StreetNamesConstantsOK DEF Distance

LEMMA FarFromIsANumber ==
    ASSUME NEW place, NEW names, IsFiniteSet(names)
    PROVE  FarFrom(place, names) \in Int
<1> DEFINE far == {Distance(place, w) : w \in names}
<1>1. CASE names = {}
  BY <1>1 DEF FarFrom
<1>2. CASE names # {}
  <2>1. far \in SUBSET Nat /\ far # {}
    BY <1>2, DistanceIsANumber
  <2>2. IsFiniteSet(far)
    <3> DEFINE f == [w \in names |-> Distance(place, w)]
    <3>1. f \in [names -> far] /\ \A y \in far : \E w \in names : f[w] = y
      OBVIOUS
    <3> HIDE DEF f, far
    <3> QED
      BY <3>1, FiniteYield
  <2>3. FarFrom(place, names) = Min(far) + Max(far)
    BY <1>2 DEF FarFrom
  <2> HIDE DEF far
  <2>4. Min(far) \in Nat
    BY <2>1, MinIsLeast
  <2>5. far \in SUBSET Int
    BY <2>1
  <2>6. Max(far) \in Nat
    BY <2>1, <2>2, <2>5, MaxIsGreatest
  <2> QED
    BY <2>3, <2>4, <2>6
<1> QED
  BY <1>1, <1>2

LEMMA VerifiedAreFinite ==
    ASSUME NEW xs, IsFiniteSet(DOMAIN xs)
    PROVE  IsFiniteSet(VerifiedXStreets(xs))
<1> DEFINE Name(i) == StreetNameTokens(NormalizeStreetName(xs[i]))
           named == {i \in DOMAIN xs : xs[i] # NoWords /\ Name(i) # NoWords}
           f == [i \in named |-> Name(i)]
<1>1. IsFiniteSet(named)
  BY FS_Subset
<1>2. f \in [named -> {Name(i) : i \in named}]
      /\ \A y \in {Name(i) : i \in named} : \E i \in named : f[i] = y
  OBVIOUS
<1>3. IsFiniteSet({Name(i) : i \in named})
  <2> HIDE DEF f, named
  <2> QED
    BY <1>1, <1>2, FiniteYield
<1> QED
  BY <1>3, FS_EmptySet DEF VerifiedXStreets

\* An answer has these fields.
Told == {"place", "house", "street", "conf", "note", "ambiguous", "candidates", "zone", "rung",
         "ends"}

\* What rung 1 answers: the parcel p, and nothing that needs a note.
IsExact(a, p) ==
    /\ DOMAIN a = Told
    /\ a.rung = "exact" /\ a.place = Place("parcel", p.id, ArrivalPoint(p))
    /\ a.house = p.house /\ a.street = ParcelStreet(p) /\ a.zone = p.zone
    /\ a.note = Silent /\ a.ends = {} /\ a.candidates = {} /\ ~a.ambiguous
    /\ a.conf \in 0..100

\* The parcel p is told from every other at the number by its street's name, by
\* the grid or by the near roads.
Singled(p, house, heard, grid, names) ==
    \A q \in Parcels :
        q.house = house /\ ParcelStreet(q) # ParcelStreet(p) =>
            \/ Likeness(heard, q) < Likeness(heard, p)
            \/ grid # NoZone /\ p.zone = grid /\ q.zone # grid
            \/ names # {} /\ FarFrom(p.id, names) < FarFrom(q.id, names)

LEMMA BestAreAtTheNumber ==
    ASSUME NEW rows \in SUBSET Parcels, NEW heard,
           NEW p \in BestMatches(rows, heard)
    PROVE  /\ p \in rows
           /\ \A q \in rows \ BestMatches(rows, heard) : Likeness(heard, q) < Likeness(heard, p)
<1> DEFINE top == BestScore(rows, heard)
<1>1. rows # {} /\ BestMatches(rows, heard) = {r \in rows : Likeness(heard, r) = top}
  BY DEF BestMatches, MostAlike, Likeness
<1>2. top \in 0..100 /\ \A r \in rows : Likeness(heard, r) <= top
  BY <1>1, BestScoreIsTheHighest
<1>3. \A r \in rows : Likeness(heard, r) \in 0..100
  BY ScoreIsAScore DEF Likeness
<1> HIDE DEF top
<1>4. ASSUME NEW q \in rows, Likeness(heard, q) # top
      PROVE  Likeness(heard, q) < top
  <2>1. Likeness(heard, q) \in 0..100 /\ Likeness(heard, q) <= top
    BY <1>2, <1>3
  <2> QED
    BY <1>2, <1>4, <2>1
<1> QED
  BY <1>1, <1>4

AtNumber(house) == {p \in Parcels : p.house = house}

\* The rows that rung 1 is left with.
Left(house, heard, grid, xs, down) ==
    NarrowedMatches(BestMatches(AtNumber(house), heard), grid, xs, down)

LEMMA LeftAreTold ==
    ASSUME NEW heard, NEW house, NEW grid, NEW down, NEW xs, IsFiniteSet(DOMAIN xs),
           ~Unresolved(Left(house, heard, grid, xs, down)),
           NEW p \in Left(house, heard, grid, xs, down)
    PROVE  p \in AtNumber(house) /\ Singled(p, house, heard, grid, VerifiedXStreets(xs))
<1> DEFINE rows == AtNumber(house)
           kept == Left(house, heard, grid, xs, down)
           best == BestMatches(rows, heard)
           names == VerifiedXStreets(xs)
           inGrid == NarrowByMapGrid(best, grid)
<1>1. best \subseteq rows
  BY DEF BestMatches, MostAlike
<1>2. inGrid \subseteq best
  BY DEF NarrowByMapGrid
<1>3. /\ ~Unresolved(best) => kept = best
      /\ Unresolved(best) /\ ~Unresolved(inGrid) => kept = inGrid
      /\ Unresolved(best) /\ Unresolved(inGrid) => kept = NarrowByXStreets(inGrid, names, down)
  BY DEF Left, NarrowedMatches, Narrowed
<1>4. \/ NarrowByXStreets(inGrid, names, down) = inGrid
      \/ names # {} /\ NarrowByXStreets(inGrid, names, down) = Nearest(inGrid, names)
  BY DEF NarrowByXStreets, OnlyOne
<1>5. Nearest(inGrid, names) \subseteq inGrid
  BY DEF Nearest
<1>6. kept \subseteq best /\ (Unresolved(best) => kept \subseteq inGrid)
  BY <1>2, <1>3, <1>4, <1>5
<1>7. p \in best /\ p \in rows /\ kept \subseteq rows /\ rows \subseteq Parcels
  BY <1>1, <1>6 DEF AtNumber
<1>8. ASSUME NEW q \in Parcels, q.house = house, ParcelStreet(q) # ParcelStreet(p)
      PROVE  \/ Likeness(heard, q) < Likeness(heard, p)
             \/ grid # NoZone /\ p.zone = grid /\ q.zone # grid
             \/ names # {} /\ FarFrom(p.id, names) < FarFrom(q.id, names)
  <2>1. q \in rows
    BY <1>8 DEF AtNumber
  <2>2. q \notin kept
    BY <1>7, <1>8, TwoStreetsUnresolved
  <2>3. CASE q \notin best
    BY <1>7, <2>1, <2>3, BestAreAtTheNumber
  <2>4. CASE q \in best
    <3>1. Unresolved(best) /\ p \in inGrid
      BY <1>3, <1>6, <2>2, <2>4
    <3>2. CASE q \notin inGrid
      BY <2>4, <3>1, <3>2 DEF NarrowByMapGrid
    <3>3. CASE q \in inGrid
      <4>1. names # {} /\ kept = Nearest(inGrid, names)
        BY <1>3, <1>4, <2>2, <3>1, <3>3
      <4>2. PICK r \in inGrid : ~(FarFrom(q.id, names) <= FarFrom(r.id, names))
        BY <2>2, <3>3, <4>1 DEF Nearest
      <4>3. FarFrom(p.id, names) <= FarFrom(r.id, names)
        BY <4>1, <4>2 DEF Nearest
      <4>4. /\ FarFrom(p.id, names) \in Int /\ FarFrom(q.id, names) \in Int
            /\ FarFrom(r.id, names) \in Int
        BY VerifiedAreFinite, FarFromIsANumber
      <4> HIDE DEF names
      <4> QED
        BY <4>1, <4>2, <4>3, <4>4
    <3> QED
      BY <3>2, <3>3
  <2> QED
    BY <2>3, <2>4
<1> QED
  BY <1>7, <1>8 DEF Singled

LEMMA ExactFinds ==
    ASSUME NEW house, NEW raw, NEW type, NEW grid, NEW xs, IsFiniteSet(DOMAIN xs), NEW down,
           Found(ResolveExact(house, raw, type, grid, xs, down))
    PROVE  \E p \in Parcels :
               /\ p.house = house
               /\ IsExact(ResolveExact(house, raw, type, grid, xs, down), p)
               /\ Singled(p, house, QueryStreet(raw, type), grid, VerifiedXStreets(xs))
<1> DEFINE heard == QueryStreet(raw, type)
           kept == Left(house, heard, grid, xs, down)
           p == FirstRow(kept)
<1>1. ~Found(NoAnswer)
  BY DEF Found, NoAnswer
<1>2. /\ kept # {} /\ ~Unresolved(kept)
      /\ ResolveExact(house, raw, type, grid, xs, down) = ExactAnswer(p, heard)
  BY <1>1 DEF ResolveExact, ExactAmong, FromMatches, Left, AtNumber
<1> HIDE DEF heard
<1>3. \A q \in kept :
          q \in AtNumber(house) /\ Singled(q, house, heard, grid, VerifiedXStreets(xs))
  BY <1>2, LeftAreTold
<1>4. kept \subseteq Parcels
  BY <1>3 DEF AtNumber
<1> HIDE DEF kept
<1>5. p \in kept
  BY <1>2, <1>4, FirstRowIsARow
<1>6. BestScore({p}, heard) \in 0..100
  BY BestScoreIsTheHighest
<1> HIDE DEF p
<1>7. IsExact(ResolveExact(house, raw, type, grid, xs, down), p)
  BY <1>2, <1>6 DEF IsExact, ExactAnswer, Answer, NoAnswer, Told
<1>8. p \in Parcels /\ p.house = house /\ Singled(p, house, heard, grid, VerifiedXStreets(xs))
  BY <1>3, <1>5 DEF AtNumber
<1> QED
  BY <1>7, <1>8 DEF heard

LEMMA AnswerIs ==
    ASSUME NEW rung, NEW place, NEW house, NEW street, NEW conf
    PROVE  LET b == Answer(rung, place, house, street, conf)
           IN  /\ DOMAIN b = Told
               /\ b.rung = rung /\ b.place = place /\ b.house = house /\ b.street = street
               /\ b.conf = conf /\ b.note = Silent /\ ~b.ambiguous /\ b.candidates = {}
               /\ b.zone = NoZone /\ b.ends = {}
  BY DEF Answer, NoAnswer, Told

\* What every answer but those of rung 1 and of a pair says: that it is no parcel
\* at the number that was heard.
Vague(a, rung, kinds) ==
    /\ a.rung = rung /\ a.place.kind \in kinds /\ a.note # Silent
    /\ a.conf \in Int /\ a.candidates = {} /\ EndsFit(a.place, a.ends)

LEMMA NothingFound == ~Found(NoAnswer)
  BY DEF Found, NoAnswer

LEMMA NotesSpeak ==
    ASSUME NEW house, NEW street
    PROVE  \A kind \in {"no parcel", "block", "meets", "between", "street", "reading", "section",
                        "near miss", "choose", "aside"} :
               Stating(kind, house, street) # Silent
  BY DEF Stating, Silent

LEMMA PlacesSay ==
    ASSUME NEW kind, NEW id, NEW part, NEW at
    PROVE  /\ Place(kind, id, part).kind = kind
           /\ Place(kind, id, part).id = id
           /\ [Place(kind, id, part) EXCEPT !.at = at].kind = kind
           /\ [Place(kind, id, part) EXCEPT !.at = at].at = at
  BY DEF Place

\* An answer with a note, and one with the ends of a stretch besides.
WithNote(rung, place, house, street, conf, note) ==
    [Answer(rung, place, house, street, conf) EXCEPT !.note = note]

WithEnds(rung, place, house, street, conf, note, ends) ==
    [Answer(rung, place, house, street, conf) EXCEPT !.note = note, !.ends = ends]

LEMMA NotedIsVague ==
    ASSUME NEW rung, NEW place, NEW kinds, place.kind \in kinds, NEW house, NEW street,
           NEW conf \in Int, NEW note, note # Silent
    PROVE  Vague(WithNote(rung, place, house, street, conf, note), rung, kinds)
<1> DEFINE b == Answer(rung, place, house, street, conf)
<1>1. DOMAIN b = Told /\ b.rung = rung /\ b.place = place /\ b.conf = conf
      /\ b.candidates = {} /\ b.ends = {}
  BY AnswerIs
<1> HIDE DEF b
<1>2. Vague([b EXCEPT !.note = note], rung, kinds)
  BY <1>1 DEF Vague, EndsFit, Told
<1> QED
  BY <1>2 DEF b, WithNote

LEMMA StretchIsVague ==
    ASSUME NEW rung, NEW place, NEW kinds, place.kind \in kinds, NEW house, NEW street,
           NEW conf \in Int, NEW note, note # Silent, NEW ends, EndsFit(place, ends)
    PROVE  Vague(WithEnds(rung, place, house, street, conf, note, ends), rung, kinds)
<1> DEFINE b == Answer(rung, place, house, street, conf)
<1>1. DOMAIN b = Told /\ b.rung = rung /\ b.place = place /\ b.conf = conf
      /\ b.candidates = {}
  BY AnswerIs
<1> HIDE DEF b
<1>2. Vague([b EXCEPT !.note = note, !.ends = ends], rung, kinds)
  BY <1>1 DEF Vague, Told
<1> QED
  BY <1>2 DEF b, WithEnds

LEMMA BlockFinds ==
    ASSUME NEW said, NEW down, Found(ResolveBlock(said, down))
    PROVE  Vague(ResolveBlock(said, down), "interpolate", {"segment"})
<1> DEFINE n == Value(said.house)
           s == FirstOf({r \in Segments : /\ OnRoad(r, said.street, said.type)
                                          /\ Within(n, r.left) \/ Within(n, r.right)})
           place == [Place("segment", s.id, NoPart) EXCEPT !.at = Along(n, s)]
           street == said.street \o said.type
           note == Stating("no parcel", said.house, street)
<1>1. ResolveBlock(said, down) = WithNote("interpolate", place, said.house, street, 70, note)
  BY NothingFound DEF ResolveBlock, WithNote
<1>2. place.kind = "segment"
  BY PlacesSay
<1>3. note # Silent
  BY NotesSpeak
<1> HIDE DEF place, street, note
<1> QED
  BY <1>1, <1>2, <1>3, NotedIsVague

LEMMA MidpointFinds ==
    ASSUME NEW said, NEW down, Found(ResolveBlockMidpoint(said, down))
    PROVE  Vague(ResolveBlockMidpoint(said, down), "block", {"block"})
<1> DEFINE lo == Hundred(Value(said.house))
           pieces == {s \in Segments : /\ OnRoad(s, said.street, said.type)
                                       /\ InBlock(s, lo)
                                       /\ HasPiece(s, lo)}
           middles == {[Place("carriageway", s.run, NoPart) EXCEPT !.at = lo] : s \in pieces}
           street == said.street \o said.type
           place == [Place("block", FirstOf(pieces).id, NoPart) EXCEPT !.at = lo]
           note == Stating("block", said.house, street)
           ends == IF Cardinality(middles) > 1 THEN middles ELSE {}
<1>1. ResolveBlockMidpoint(said, down)
      = WithEnds("block", place, said.house, street, 70, note, ends)
  BY NothingFound DEF ResolveBlockMidpoint, WithEnds
<1>2. place.kind = "block" /\ place.at = lo
  BY PlacesSay
<1>3. \A e \in ends : e.kind = "carriageway" /\ e.at = lo
  <2>1. ends \subseteq middles
    OBVIOUS
  <2>2. ASSUME NEW s \in pieces
        PROVE  LET e == [Place("carriageway", s.run, NoPart) EXCEPT !.at = lo]
               IN  e.kind = "carriageway" /\ e.at = lo
    BY PlacesSay
  <2> HIDE DEF ends, lo, pieces
  <2> QED
    BY <2>1, <2>2
<1>4. note # Silent
  BY NotesSpeak
<1> HIDE DEF place, street, ends, note
<1>5. EndsFit(place, ends)
  BY <1>2, <1>3 DEF EndsFit
<1> QED
  BY <1>1, <1>2, <1>4, <1>5, StretchIsVague

LEMMA NearestFinds ==
    ASSUME NEW said, NEW xs, NEW down, Found(ResolveNearestCivic(said, xs, down))
    PROVE  Vague(ResolveNearestCivic(said, xs, down), "nearest", {"parcel"})
<1>1. PICK row, delta : ResolveNearestCivic(said, xs, down) = NearestAnswer(row, delta, said)
  BY NothingFound DEF ResolveNearestCivic, NearestOf
<1> DEFINE place == Place("parcel", row.id, "centroid")
           conf == IF delta <= 20 THEN 70 ELSE IF delta <= 100 THEN 60 ELSE 55
           note == Stating("no parcel", said.house, said.street \o said.type)
<1>2. place.kind = "parcel"
  BY PlacesSay
<1>3. note # Silent
  BY NotesSpeak
<1>4. conf \in Int
  OBVIOUS
<1>5. NearestAnswer(row, delta, said)
      = WithNote("nearest", place, row.house, ParcelStreet(row), conf, note)
  BY DEF NearestAnswer, WithNote
<1> HIDE DEF place, conf, note
<1> QED
  BY <1>1, <1>2, <1>5, <1>3, <1>4, NotedIsVague

LEMMA BetweenFinds ==
    ASSUME NEW said, NEW xs, NEW down, Found(ResolveXStreetNarrow(said, xs, down))
    PROVE  Vague(ResolveXStreetNarrow(said, xs, down), "between", {"junction", "between"})
<1>1. PICK cross, street, first :
          ResolveXStreetNarrow(said, xs, down) = BetweenAnswer(cross, street, said, first)
  BY NothingFound DEF ResolveXStreetNarrow, BetweenOn
<1> DEFINE At(i) == FirstOf(JunctionsWith(street, cross[i])).id
           one == Place("junction", At(1), NoPart)
           two == [Place("between", At(1), NoPart) EXCEPT !.at = At(2)]
           meets == Stating("meets", NoHouse, first)
           between == Stating("between", NoHouse, first)
<1>2. one.kind = "junction" /\ two.kind = "between"
  BY PlacesSay
<1>3. meets # Silent /\ between # Silent
  BY NotesSpeak
<1>4. BetweenAnswer(cross, street, said, first)
      \in {WithNote("between", one, said.house, street, 72, meets),
           WithNote("between", two, said.house, street, 75, between)}
  BY DEF BetweenAnswer, WithNote
<1> HIDE DEF one, two, meets, between
<1>5. /\ Vague(WithNote("between", one, said.house, street, 72, meets),
               "between", {"junction"})
      /\ Vague(WithNote("between", two, said.house, street, 75, between),
               "between", {"between"})
  BY <1>2, <1>3, NotedIsVague
<1> QED
  BY <1>1, <1>4, <1>5 DEF Vague

LEMMA StreetFinds ==
    ASSUME NEW said, NEW down, Found(Approximate(ResolveStreetCentroid(said, down), said))
    PROVE  Vague(Approximate(ResolveStreetCentroid(said, down), said), "street", {"street"})
<1> DEFINE place == Place("street", FirstOf({p \in Parcels :
                              OnParcelStreet(p, said.street, said.type)}).id, NoPart)
           street == said.street \o said.type
           note == Stating("street", said.house, said.raw)
<1>1. Approximate(ResolveStreetCentroid(said, down), said)
      = WithNote("street", place, NoHouse, street, 50, note)
  BY NothingFound DEF ResolveStreetCentroid, Approximate, WithNote
<1>2. place.kind = "street"
  BY PlacesSay
<1>3. note # Silent
  BY NotesSpeak
<1> HIDE DEF place, street, note
<1> QED
  BY <1>1, <1>2, <1>3, NotedIsVague

LEMMA RoadFinds ==
    ASSUME NEW said, NEW down, Found(Approximate(ResolveRoadCentroid(said, down), said))
    PROVE  Vague(Approximate(ResolveRoadCentroid(said, down), said), "road", {"road"})
<1> DEFINE place == Place("road", FirstOf({s \in Segments :
                              OnRoad(s, said.street, said.type)}).id, NoPart)
           street == said.street \o said.type
           note == Stating("street", said.house, said.raw)
<1>1. Approximate(ResolveRoadCentroid(said, down), said)
      = WithNote("road", place, NoHouse, street, 45, note)
  BY NothingFound DEF ResolveRoadCentroid, Approximate, WithNote
<1>2. place.kind = "road"
  BY PlacesSay
<1>3. note # Silent
  BY NotesSpeak
<1> HIDE DEF place, street, note
<1> QED
  BY <1>1, <1>2, <1>3, NotedIsVague

LEMMA RemovedIsDigits ==
    ASSUME NEW s \in Seq(Digits), NEW i \in DOMAIN s
    PROVE  RemoveAt(s, i) \in Seq(Digits)
<1>1. i \in 1..Len(s) /\ Len(s) \in Nat
  OBVIOUS
<1>2. SubSeq(s, 1, i-1) \in Seq(Digits)
  BY <1>1
<1>3. SubSeq(s, i+1, Len(s)) \in Seq(Digits)
  BY <1>1
<1> QED
  BY <1>2, <1>3 DEF RemoveAt

LEMMA LstripIsDigits ==
    ASSUME NEW s \in Seq(Digits)
    PROVE  Lstrip(s) \in Seq(Digits)
<1> DEFINE first == {i \in DOMAIN s : s[i] # 0}
           start == CHOOSE i \in first : \A j \in first : i <= j
<1>1. CASE first = {}
  BY <1>1 DEF Lstrip, NoHouse
<1>2. CASE first # {}
  <2>1. first \in SUBSET Nat
    OBVIOUS
  <2>2. \E i \in first : \A j \in first : i <= j
    BY <1>2, <2>1, Least
  <2>3. start \in first
    BY <2>2
  <2>4. start \in 1..Len(s)
    BY <2>3
  <2>5. Lstrip(s) = SubSeq(s, start, Len(s))
    BY <1>2 DEF Lstrip
  <2> HIDE DEF start
  <2>6. SubSeq(s, start, Len(s)) \in Seq(Digits)
    BY <2>4
  <2> QED
    BY <2>5, <2>6
<1> QED
  BY <1>1, <1>2

LEMMA ReadingsAreDigits ==
    ASSUME NEW house \in Seq(Digits)
    PROVE  OverlongReadings(house) \subseteq Seq(Digits)
<1>1. \A d \in Seq(Digits) : OneLess(d) \subseteq Seq(Digits)
  BY RemovedIsDigits DEF OneLess
<1> DEFINE kept == CASE Len(house) = 5 -> OneLess(house)
                     [] Len(house) = 6 -> UNION {OneLess(d) : d \in OneLess(house)}
                     [] OTHER -> {}
<1>2. kept \subseteq Seq(Digits)
  BY <1>1
<1>3. OverlongReadings(house) \subseteq {Lstrip(d) : d \in kept}
  BY DEF OverlongReadings
<1> HIDE DEF kept
<1> QED
  BY <1>2, <1>3, LstripIsDigits

LEMMA ReadingIsANumber ==
    ASSUME NEW r \in Seq(Digits)
    PROVE  ReadingValue(r) \in Nat
<1> DEFINE Digit(k) == IF k <= Len(r) THEN r[Len(r) + 1 - k] ELSE 0
<1>1. ASSUME NEW k \in 1..4 PROVE Digit(k) \in Nat
  <2>1. Len(r) \in Nat
    OBVIOUS
  <2>2. CASE k <= Len(r)
    <3>1. Len(r) + 1 - k \in 1..Len(r)
      BY <2>1, <2>2
    <3>2. r[Len(r) + 1 - k] \in Digits
      BY <3>1
    <3> QED
      BY <2>2, <3>2 DEF Digits
  <2>3. CASE ~(k <= Len(r))
    BY <2>3
  <2> QED
    BY <2>2, <2>3
<1>2. Digit(1) \in Nat /\ Digit(2) \in Nat /\ Digit(3) \in Nat /\ Digit(4) \in Nat
  <2> HIDE DEF Digit
  <2> QED
    BY <1>1
<1>3. ReadingValue(r) = Digit(1) + 10 * Digit(2) + 100 * Digit(3) + 1000 * Digit(4)
  BY DEF ReadingValue
<1> HIDE DEF Digit
<1> QED
  BY <1>2, <1>3

LEMMA FirstReadingIsOne ==
    ASSUME NEW readings \in SUBSET Seq(Digits), readings # {}
    PROVE  FirstReading(readings) \in readings
<1> DEFINE values == {ReadingValue(r) : r \in readings}
<1>1. values \in SUBSET Nat /\ values # {}
  BY ReadingIsANumber
<1>2. PICK m \in values : \A k \in values : m <= k
  <2> HIDE DEF values
  <2> QED
    BY <1>1, Least
<1>3. \E r \in readings : \A q \in readings : ReadingValue(r) <= ReadingValue(q)
  BY <1>2
<1> QED
  BY <1>3 DEF FirstReading

\* What rung 1b answers: a parcel at one of the readings.
IsReading(a, p) ==
    /\ a.rung = "reading" /\ a.place = Place("parcel", p.id, ArrivalPoint(p))
    /\ a.note # Silent /\ a.ends = {} /\ a.conf \in Int

LEMMA FromReadingsSays ==
    ASSUME NEW first, NEW places, NEW said, NEW p,
           IsExact(first, p)
    PROVE  IsReading(FromReadings(first, places, said), p)
<1> DEFINE conf == IF Cardinality(places) = 1 THEN Min({first.conf, 70}) ELSE 50
           note == Stating("reading", said.house, said.raw)
           several == Cardinality(places) > 1
           offered == IF Cardinality(places) = 1 THEN {} ELSE places
<1>1. conf \in Int
  <2>1. {first.conf, 70} \in SUBSET Nat
    BY DEF IsExact
  <2>2. Min({first.conf, 70}) \in Nat
    BY <2>1, MinIsLeast
  <2> QED
    BY <2>2
<1>2. note # Silent
  BY NotesSpeak
<1>3. FromReadings(first, places, said)
      = [first EXCEPT !.rung = "reading", !.note = note, !.conf = conf,
                      !.ambiguous = several, !.candidates = offered]
  BY DEF FromReadings, Told
<1> HIDE DEF conf, note, several, offered
<1>4. IsReading([first EXCEPT !.rung = "reading", !.note = note, !.conf = conf,
                              !.ambiguous = several, !.candidates = offered], p)
  BY <1>1, <1>2 DEF IsReading, IsExact, Told
<1> QED
  BY <1>3, <1>4

\* The rung, with the readings that resolve named.
LEMMA OverlongIs ==
    ASSUME NEW said, said.house \in Seq(Digits), NEW grid, NEW xs, NEW down, NEW unread
    PROVE  LET Answered(r) == ResolveReading(r, said, grid, xs, down, unread)
               hits == {r \in OverlongReadings(said.house) : Found(Answered(r))}
           IN  ResolveOverlongHouse(said, grid, xs, down, unread)
               = IF hits = {} THEN NoAnswer
                 ELSE FromReadings(Answered(FirstReading(hits)),
                                   {Answered(r).place : r \in hits}, said)
<1> DEFINE Answered(r) == ResolveReading(r, said, grid, xs, down, unread)
           readings == OverlongReadings(said.house)
           answers == [r \in readings |-> Answered(r)]
           hits == {r \in readings : Found(Answered(r))}
           first == FirstReading(hits)
<1>1. ResolveOverlongHouse(said, grid, xs, down, unread) = FromAnswers(answers, said)
  BY DEF ResolveOverlongHouse
<1> HIDE DEF Answered, readings
<1>2. {r \in DOMAIN answers : Found(answers[r])} = hits
  OBVIOUS
<1>3. FromAnswers(answers, said) = FromHits(answers, hits, said)
  BY <1>2 DEF FromAnswers
<1>4. CASE hits = {}
  BY <1>1, <1>3, <1>4 DEF FromHits, readings, Answered
<1>5. CASE hits # {}
  <2>1. hits \in SUBSET Seq(Digits)
    BY ReadingsAreDigits DEF readings
  <2>2. {answers[r].place : r \in hits} = {Answered(r).place : r \in hits}
    OBVIOUS
  <2>3. first \in hits
    <3> HIDE DEF hits
    <3> QED
      BY <1>5, <2>1, FirstReadingIsOne
  <2>4. answers[first] = Answered(first)
    <3>1. first \in readings
      BY <2>3
    <3> HIDE DEF first
    <3> QED
      BY <3>1
  <2> QED
    BY <1>1, <1>3, <1>5, <2>2, <2>4 DEF FromHits, readings, Answered
<1> QED
  BY <1>4, <1>5

LEMMA OverlongFinds ==
    ASSUME NEW said, said.house \in Seq(Digits), NEW grid, NEW xs, IsFiniteSet(DOMAIN xs),
           NEW down, NEW unread,
           Found(ResolveOverlongHouse(said, grid, xs, down, unread))
    PROVE  \E p \in Parcels :
               /\ p.house \in OverlongReadings(said.house)
               /\ IsReading(ResolveOverlongHouse(said, grid, xs, down, unread), p)
<1> DEFINE Answered(r) == ResolveReading(r, said, grid, xs, down, unread)
           hits == {r \in OverlongReadings(said.house) : Found(Answered(r))}
           first == FirstReading(hits)
           places == {Answered(r).place : r \in hits}
<1>1. /\ hits # {}
      /\ ResolveOverlongHouse(said, grid, xs, down, unread)
         = FromReadings(Answered(first), places, said)
  <2>1. ResolveOverlongHouse(said, grid, xs, down, unread)
        = IF hits = {} THEN NoAnswer ELSE FromReadings(Answered(first), places, said)
    BY OverlongIs
  <2> HIDE DEF hits, first, places
  <2> QED
    BY <2>1, NothingFound
<1>2. hits \in SUBSET Seq(Digits)
  BY ReadingsAreDigits
<1>3. first \in hits
  <2> HIDE DEF hits
  <2> QED
    BY <1>1, <1>2, FirstReadingIsOne
<1>4. first \in OverlongReadings(said.house) /\ Found(Answered(first))
  BY <1>3
<1> HIDE DEF first, places
<1>5. Answered(first) = ResolveExact(first, said.raw, said.type, grid, xs, down)
  BY <1>4, NothingFound DEF ResolveReading
<1> HIDE DEF Answered
<1>6. PICK p \in Parcels : p.house = first /\ IsExact(Answered(first), p)
  BY <1>4, <1>5, ExactFinds
<1>7. IsReading(FromReadings(Answered(first), places, said), p)
  BY <1>6, FromReadingsSays
<1> QED
  BY <1>1, <1>4, <1>6, <1>7

-----------------------------------------------------------------------------
(***************************************************************************)
(* A pair of streets.                                                      *)
(***************************************************************************)

\* What a street heard may be, each with a likeness from 0 to 100.
LEMMA BestStreetsAreScored ==
    ASSUME NEW street, NEW x \in BestStreets(street)
    PROVE  x[2] \in 0..100
<1>1. CASE street \in KnownStreets
  BY <1>1 DEF BestStreets
<1>2. CASE street \notin KnownStreets
  <2>1. x \in Likely(street)
    BY <1>2 DEF BestStreets
  <2>2. PICK k \in KnownStreets : x = <<k, ScoreStreet(street, k)>>
    BY <2>1 DEF Likely
  <2> QED
    BY <2>2, ScoreIsAScore
<1> QED
  BY <1>1, <1>2

LEMMA LikenessOfPairs ==
    ASSUME NEW j, NEW a, NEW b,
           AsLike(j, BestStreets(a), BestStreets(b)) # {}
    PROVE  Max(AsLike(j, BestStreets(a), BestStreets(b))) \in 0..100
<1> DEFINE like == AsLike(j, BestStreets(a), BestStreets(b))
<1>1. like \in SUBSET (0..100)
  <2>1. ASSUME NEW both \in BestStreets(a) \X BestStreets(b)
        PROVE  Min({both[1][2], both[2][2]}) \in 0..100
    <3>1. both[1][2] \in 0..100 /\ both[2][2] \in 0..100
      BY BestStreetsAreScored
    <3> DEFINE two == {both[1][2], both[2][2]}
    <3>2. two \in SUBSET Nat /\ two # {} /\ two \subseteq 0..100
      BY <3>1
    <3> HIDE DEF two
    <3>3. Min(two) \in two
      BY <3>2, MinIsLeast
    <3>4. Min(two) \in 0..100
      BY <3>2, <3>3
    <3> QED
      BY <3>4 DEF two
  <2> QED
    BY <2>1 DEF AsLike
<1> HIDE DEF like
<1>2. like # {} => Max(like) \in 0..100
  BY <1>1, MaxOfScores
<1> QED
  BY <1>2 DEF like

\* What is offered for a pair: junctions of the city, each with a likeness.
Offered(matches) ==
    \A m \in matches : m.junction \in Junctions /\ m.score \in 0..100

LEMMA SuggestOffers ==
    ASSUME NEW a, NEW b
    PROVE  Offered(Suggest(a, b))
<1> DEFINE firsts == BestStreets(a)
           seconds == BestStreets(b)
           every == {Match(j, Max(AsLike(j, firsts, seconds))) :
                         j \in {k \in Junctions : AsLike(k, firsts, seconds) # {}}}
<1>1. Suggest(a, b) \subseteq every
  BY DEF Suggest, SuggestAmong, TopSix
<1>2. ASSUME NEW j \in Junctions, AsLike(j, firsts, seconds) # {}
      PROVE  Max(AsLike(j, firsts, seconds)) \in 0..100
  BY <1>2, LikenessOfPairs
<1> HIDE DEF firsts, seconds
<1>3. ASSUME NEW m \in every PROVE m.junction \in Junctions /\ m.score \in 0..100
  <2>1. PICK j \in Junctions :
            /\ AsLike(j, firsts, seconds) # {}
            /\ m = Match(j, Max(AsLike(j, firsts, seconds)))
    BY <1>3
  <2>2. m.junction = j /\ m.score = Max(AsLike(j, firsts, seconds))
    BY <2>1 DEF Match
  <2> QED
    BY <1>2, <2>1, <2>2
<1> QED
  BY <1>1, <1>3 DEF Offered

\* An exact lookup offers only the junctions of the pair that was heard, or of
\* the one pair that reads the same without spaces.
SquashedPair(w1, w2) == {Squash(NormalizeStreetName(w1)), Squash(NormalizeStreetName(w2))}
Heard(j, w1, w2) == {Squash(w) : w \in j.pair} = SquashedPair(w1, w2)

LEMMA MeantIsHeard ==
    ASSUME NEW a, NEW b, NEW pair \in PairsMeant(a, b)
    PROVE  {Squash(w) : w \in pair} = {Squash(a), Squash(b)}
<1>1. CASE {a, b} \in Pairs
  <2>1. pair = {a, b}
    BY <1>1 DEF PairsMeant
  <2>2. {Squash(w) : w \in {a, b}} = {Squash(a), Squash(b)}
    OBVIOUS
  <2> QED
    BY <2>1, <2>2
<1>2. CASE {a, b} \notin Pairs
  BY <1>2 DEF PairsMeant
<1> QED
  BY <1>1, <1>2

LEMMA LookupOffers ==
    ASSUME NEW w1, NEW w2, NEW read
    PROVE  /\ Offered(Lookup(w1, w2, read).matches)
           /\ Lookup(w1, w2, read).exact =>
                 \A m \in Lookup(w1, w2, read).matches : Heard(m.junction, w1, w2)
<1> DEFINE a == NormalizeStreetName(w1)
           b == NormalizeStreetName(w2)
           meant == PairsMeant(a, b)
           exactly == {Match(j, 100) : j \in {k \in Junctions : k.pair \in meant}}
<1>1. \/ Lookup(w1, w2, read) = [exact |-> FALSE, matches |-> {}]
      \/ Lookup(w1, w2, read) = [exact |-> TRUE, matches |-> exactly]
      \/ Lookup(w1, w2, read) = [exact |-> FALSE, matches |-> Suggest(a, b)]
  BY DEF Lookup, LookupStreets, LookupPair, NoLookup, Exactly
<1>2. ASSUME NEW m \in exactly
      PROVE  m.junction \in Junctions /\ m.score \in 0..100 /\ Heard(m.junction, w1, w2)
  <2>1. PICK j \in Junctions : m = Match(j, 100) /\ j.pair \in meant
    BY <1>2
  <2>2. {Squash(w) : w \in j.pair} = {Squash(a), Squash(b)}
    BY <2>1, MeantIsHeard
  <2>3. m.junction = j /\ m.score = 100
    BY <2>1 DEF Match
  <2> QED
    BY <2>2, <2>3 DEF Heard, SquashedPair
<1>3. Offered(Suggest(a, b))
  BY SuggestOffers
<1>4. CASE Lookup(w1, w2, read) = [exact |-> FALSE, matches |-> {}]
  BY <1>4 DEF Offered
<1>5. CASE Lookup(w1, w2, read) = [exact |-> TRUE, matches |-> exactly]
  BY <1>2, <1>5 DEF Offered
<1>6. CASE Lookup(w1, w2, read) = [exact |-> FALSE, matches |-> Suggest(a, b)]
  BY <1>3, <1>6
<1> QED
  BY <1>1, <1>4, <1>5, <1>6

\* The roads narrow what is offered, or leave it; they never leave nothing.
LEMMA NarrowedByRoads ==
    ASSUME NEW matches, NEW xs, NEW down
    PROVE  NarrowCandidates(matches, xs, down).matches \subseteq matches
  BY DEF NarrowCandidates, NarrowByRoads, KeptAlone, Candidacy, WithinBand

LEMMA NarrowedByGrid ==
    ASSUME NEW matches, NEW grid
    PROVE  /\ NarrowByGrid(matches, grid).matches \subseteq matches
           /\ ~NarrowByGrid(matches, grid).conflict /\ grid # NoZone =>
                 \A m \in NarrowByGrid(matches, grid).matches : grid \in Touched(m.junction)
  BY DEF NarrowByGrid, KeptByGrid, Touching, Inside

LEMMA ClosestIsANumber ==
    ASSUME NEW j, NEW roads, roads # {}
    PROVE  Closest(j, roads) \in Nat
<1> DEFINE far == {Distance(j.id, r) : r \in roads}
<1>1. far \in SUBSET Nat /\ far # {}
  BY DistanceIsANumber
<1>2. Closest(j, roads) = Min(far)
  BY DEF Closest
<1> HIDE DEF far
<1> QED
  BY <1>1, <1>2, MinIsLeast

\* The one nearest to the roads is always within the band.
LEMMA SomeWithinBand ==
    ASSUME NEW matches, matches # {}, NEW roads, roads # {}
    PROVE  WithinBand(matches, roads) # {}
<1> DEFINE far == {Closest(m.junction, roads) : m \in matches}
<1>1. far \in SUBSET Nat /\ far # {}
  BY ClosestIsANumber
<1>2. PICK d \in far : \A k \in far : d <= k
  <2> HIDE DEF far
  <2> QED
    BY <1>1, Least
<1>3. PICK m \in matches : d = Closest(m.junction, roads)
  BY <1>2
<1>4. ASSUME NEW o \in matches
      PROVE  Closest(m.junction, roads) - Closest(o.junction, roads) <= Band
  <2> DEFINE e == Closest(o.junction, roads)
  <2>1. e \in Nat /\ d \in Nat /\ Band \in Nat
    BY <1>3, ClosestIsANumber, JunctionConstantsOK
  <2>2. d <= e
    BY <1>2
  <2> HIDE DEF e
  <2>3. d - e <= Band
    BY <2>1, <2>2
  <2> QED
    BY <1>3, <2>3 DEF e
<1> QED
  BY <1>3, <1>4 DEF WithinBand

LEMMA SomeLeft ==
    ASSUME NEW matches, matches # {}, NEW xs, NEW down, NEW grid
    PROVE  /\ NarrowCandidates(matches, xs, down).matches # {}
           /\ NarrowByGrid(matches, grid).matches # {}
<1>1. NarrowCandidates(matches, xs, down).matches
      \in {matches} \cup {WithinBand(matches, r) : r \in {RoadsFound(xs)} \ {{}}}
  BY DEF NarrowCandidates, NarrowByRoads, KeptAlone, Candidacy
<1>2. \A r \in {RoadsFound(xs)} \ {{}} : WithinBand(matches, r) # {}
  BY SomeWithinBand
<1>3. NarrowCandidates(matches, xs, down).matches # {}
  BY <1>1, <1>2
<1>4. NarrowByGrid(matches, grid).matches # {}
  BY DEF NarrowByGrid, KeptByGrid
<1> QED
  BY <1>3, <1>4

\* Of the junctions that are left one is on top.
LEMMA FirstMatchIsOne ==
    ASSUME NEW matches, matches # {}, Offered(matches), NEW roads
    PROVE  FirstMatch(matches, roads) \in matches
<1> DEFINE Far(x) == IF roads = {} THEN 0 ELSE Closest(x.junction, roads)
           far == {Far(m) : m \in matches}
<1>1. \A m \in matches : Far(m) \in Nat
  BY ClosestIsANumber
<1>2. PICK d \in far : \A k \in far : d <= k
  <2>1. far \in SUBSET Nat /\ far # {}
    BY <1>1
  <2> HIDE DEF far
  <2> QED
    BY <2>1, Least
<1> DEFINE near == {m \in matches : Far(m) = d}
           lack == {100 - m.score : m \in near}
<1>3. PICK s \in lack : \A k \in lack : s <= k
  <2>1. near # {} /\ near \subseteq matches
    BY <1>2
  <2>2. \A m \in near : m.score \in 0..100
    BY <2>1 DEF Offered
  <2> HIDE DEF near
  <2>3. lack \in SUBSET Nat /\ lack # {}
    BY <2>1, <2>2
  <2> HIDE DEF lack
  <2> QED
    BY <2>3, Least
<1> DEFINE like == {m \in near : 100 - m.score = s}
           ids == {m.junction.id : m \in like}
<1>4. PICK i \in ids : \A k \in ids : i <= k
  <2>1. like # {} /\ like \subseteq matches
    BY <1>3
  <2>2. \A m \in like : m.junction.id \in Nat
    BY <2>1, StreetNamesConstantsOK DEF Offered
  <2> HIDE DEF like
  <2>3. ids \in SUBSET Nat /\ ids # {}
    BY <2>1, <2>2
  <2> HIDE DEF ids
  <2> QED
    BY <2>3, Least
<1>5. PICK m \in like : m.junction.id = i
  BY <1>4
<1>6. ASSUME NEW o \in matches PROVE Ahead(m, o, roads)
  <2>1. m \in matches /\ Far(m) = d /\ 100 - m.score = s
    BY <1>5
  <2>2. /\ Far(m) \in Nat /\ Far(o) \in Nat /\ Far(m) <= Far(o)
        /\ m.score \in 0..100 /\ o.score \in 0..100
    BY <1>1, <1>2, <2>1 DEF Offered
  <2>3. Far(o) = Far(m) => 100 - m.score <= 100 - o.score
    BY <1>3, <2>1
  <2>4. Far(o) = Far(m) /\ o.score = m.score => m.junction.id <= o.junction.id
    BY <1>4, <1>5, <2>1
  <2> DEFINE far1 == Far(m)
             far2 == Far(o)
  <2>5. Ahead(m, o, roads)
        <=> \/ far1 < far2
            \/ /\ far1 = far2
               /\ \/ m.score > o.score
                  \/ m.score = o.score /\ m.junction.id <= o.junction.id
    BY DEF Ahead
  <2>6. /\ far1 \in Nat /\ far2 \in Nat /\ far1 <= far2
        /\ far2 = far1 => 100 - m.score <= 100 - o.score
        /\ far2 = far1 /\ o.score = m.score => m.junction.id <= o.junction.id
    BY <2>2, <2>3, <2>4
  <2> DEFINE high == m.score
             low == o.score
  <2>7. high \in 0..100 /\ low \in 0..100 /\ (far2 = far1 => 100 - high <= 100 - low)
    BY <2>2, <2>6
  <2>8. far2 = far1 /\ low = high => m.junction.id <= o.junction.id
    BY <2>6
  <2>9. Ahead(m, o, roads)
        <=> \/ far1 < far2
            \/ /\ far1 = far2
               /\ \/ high > low
                  \/ high = low /\ m.junction.id <= o.junction.id
    BY <2>5
  <2>10. far1 \in Nat /\ far2 \in Nat /\ far1 <= far2
    BY <2>6
  <2> HIDE DEF far1, far2, high, low
  <2>11. far2 = far1 => high >= low
    BY <2>7
  <2>12. far1 < far2 \/ far1 = far2
    BY <2>10
  <2>13. high > low \/ high = low \/ ~(high >= low)
    BY <2>7
  <2> QED
    BY <2>8, <2>9, <2>11, <2>12, <2>13
<1>7. m \in matches
  BY <1>5
<1> HIDE DEF near, like
<1> QED
  BY <1>6, <1>7 DEF FirstMatch

\* What a pair answers: one of the junctions, and without a note only when it is
\* the one junction left of the very pair.
IsJunctionOf(a, j) ==
    /\ a.rung = "junction" /\ a.place = Place("junction", j.id, NoPart)
    /\ a.ends = {} /\ a.conf \in Int

LEMMA JunctionAnswerSays ==
    ASSUME NEW m, NEW said
    PROVE  /\ DOMAIN JunctionAnswer(m, said) = Told
           /\ IsJunctionOf(JunctionAnswer(m, said), m.junction)
<1> DEFINE place == Place("junction", m.junction.id, NoPart)
           b == Answer("junction", place, NoHouse, said.street, 100)
<1>1. DOMAIN b = Told /\ b.rung = "junction" /\ b.place = place /\ b.conf = 100 /\ b.ends = {}
  BY AnswerIs
<1>2. JunctionAnswer(m, said) = [b EXCEPT !.zone = m.junction.zone]
  BY DEF JunctionAnswer
<1> HIDE DEF b
<1> QED
  BY <1>1, <1>2 DEF Told, IsJunctionOf

LEMMA NotedSays ==
    ASSUME NEW m, NEW kind, NEW matches, NEW said
    PROVE  /\ DOMAIN Noted(m, kind, matches, said) = Told
           /\ IsJunctionOf(Noted(m, kind, matches, said), m.junction)
           /\ Noted(m, kind, matches, said).note.kind = kind
<1> DEFINE b == JunctionAnswer(m, said)
           note == Stating(kind, NoHouse, said.street)
           offered == {Place("junction", o.junction.id, NoPart) : o \in matches}
<1>1. Noted(m, kind, matches, said) = [b EXCEPT !.note = note, !.candidates = offered]
  BY DEF Noted
<1>2. DOMAIN b = Told /\ IsJunctionOf(b, m.junction)
  BY JunctionAnswerSays
<1>3. note.kind = kind
  BY DEF Stating
<1> HIDE DEF b, note, offered
<1> QED
  BY <1>1, <1>2, <1>3 DEF Told, IsJunctionOf

LEMMA SettledSays ==
    ASSUME NEW m, m.score \in 0..100, NEW exact, NEW aside, NEW matches,
           NEW conflict, NEW said
    PROVE  /\ IsJunctionOf(Settled(m, exact, aside, matches, conflict, said), m.junction)
           /\ Settled(m, exact, aside, matches, conflict, said).note.kind # "near miss" => exact
           /\ Settled(m, exact, aside, matches, conflict, said).note = Silent => ~conflict
<1> DEFINE a == Settled(m, exact, aside, matches, conflict, said)
<1>1. Silent.kind = "none"
  BY DEF Silent
<1>2. CASE Resolved(exact, matches, conflict)
  <2>1. exact /\ ~conflict
    BY <1>2 DEF Resolved
  <2>2. a = Noted(m, "aside", matches, said) \/ a = JunctionAnswer(m, said)
    BY <1>2 DEF Settled
  <2>3. IsJunctionOf(a, m.junction)
    BY <2>2, NotedSays, JunctionAnswerSays
  <2> HIDE DEF a
  <2>4. IsJunctionOf(a, m.junction) /\ (a.note.kind # "near miss" => exact)
        /\ (a.note = Silent => ~conflict)
    BY <2>1, <2>3
  <2> QED
    BY <2>4 DEF a
<1>3. CASE exact /\ ~Resolved(exact, matches, conflict)
  <2> DEFINE b == Noted(m, "choose", matches, said)
  <2>1. a = [b EXCEPT !.ambiguous = TRUE]
    BY <1>3 DEF Settled
  <2>2. DOMAIN b = Told /\ IsJunctionOf(b, m.junction) /\ b.note.kind = "choose"
    BY NotedSays
  <2> HIDE DEF a, b
  <2>3. IsJunctionOf(a, m.junction) /\ a.note.kind = "choose"
    BY <2>1, <2>2 DEF Told, IsJunctionOf
  <2>4. IsJunctionOf(a, m.junction) /\ (a.note.kind # "near miss" => exact)
        /\ (a.note = Silent => ~conflict)
    BY <1>1, <1>3, <2>3
  <2> QED
    BY <2>4 DEF a
<1>4. CASE ~exact
  <2> DEFINE kind == "near miss"
             b == Noted(m, kind, matches, said)
  <2>1. ~Resolved(exact, matches, conflict)
    BY <1>4 DEF Resolved
  <2>2. a = [b EXCEPT !.ambiguous = TRUE, !.conf = m.score]
    BY <1>4, <2>1 DEF Settled
  <2> HIDE DEF kind
  <2>3. DOMAIN b = Told /\ IsJunctionOf(b, m.junction) /\ b.note.kind = kind
    BY NotedSays
  <2> HIDE DEF a, b
  <2> DEFINE score == m.score
  <2> HIDE DEF score
  <2>4. a = [b EXCEPT !.ambiguous = TRUE, !.conf = score] /\ score \in Int
    BY <2>2 DEF score
  <2>5. IsJunctionOf(a, m.junction) /\ a.note = b.note
    BY <2>3, <2>4 DEF Told, IsJunctionOf
  <2>6. IsJunctionOf(a, m.junction) /\ a.note.kind = "near miss"
    BY <2>3, <2>5 DEF kind
  <2>7. IsJunctionOf(a, m.junction) /\ (a.note.kind # "near miss" => exact)
        /\ (a.note = Silent => ~conflict)
    BY <1>1, <2>6
  <2> QED
    BY <2>7 DEF a
<1> QED
  BY <1>2, <1>3, <1>4

\* A junction of the very pair, in the grid heard, unless the answer says otherwise.
Fits(a, j, said, grid) ==
    /\ IsJunctionOf(a, j)
    /\ a.note.kind # "near miss" => Heard(j, said.street, said.other)
    /\ a.note = Silent /\ grid # NoZone => grid \in Touched(j)

LEMMA CandidatesFind ==
    ASSUME NEW said, NEW read, NEW grid, NEW xs, NEW down,
           Lookup(said.street, said.other, read).matches # {}
    PROVE  \E j \in Junctions :
               Fits(ResolveCandidates(Lookup(said.street, said.other, read), said, grid, xs, down),
                    j, said, grid)
<1> DEFINE found == Lookup(said.street, said.other, read)
           near == NarrowCandidates(found.matches, xs, down)
           kept == NarrowByGrid(near.matches, grid)
           m == FirstMatch(kept.matches, near.nearest)
           a == Settled(m, found.exact, near.aside, kept.matches, kept.conflict, said)
<1>1. ResolveCandidates(found, said, grid, xs, down) = a
  BY DEF ResolveCandidates, Narrowing, FromNarrowed
<1>2. found.exact \in BOOLEAN
  BY DEF Lookup, LookupStreets, LookupPair, NoLookup, Exactly
<1>3. /\ Offered(found.matches)
      /\ found.exact => \A o \in found.matches : Heard(o.junction, said.street, said.other)
  BY LookupOffers
<1> HIDE DEF found
<1>4. near.matches # {} /\ near.matches \subseteq found.matches
  BY NarrowedByRoads, SomeLeft DEF found
<1> HIDE DEF near
<1>5. /\ kept.matches # {} /\ kept.matches \subseteq near.matches
      /\ ~kept.conflict /\ grid # NoZone => \A o \in kept.matches : grid \in Touched(o.junction)
  BY <1>4, NarrowedByGrid, SomeLeft
<1>6. kept.conflict \in BOOLEAN
  BY DEF NarrowByGrid, KeptByGrid
<1> HIDE DEF kept
<1>7. Offered(kept.matches)
  BY <1>3, <1>4, <1>5 DEF Offered
<1>8. m \in kept.matches
  BY <1>5, <1>7, FirstMatchIsOne
<1> HIDE DEF m
<1>9. m.junction \in Junctions /\ m.score \in 0..100
  BY <1>7, <1>8 DEF Offered
<1>10. /\ IsJunctionOf(a, m.junction)
       /\ a.note.kind # "near miss" => found.exact
       /\ a.note = Silent => ~kept.conflict
  BY <1>2, <1>6, <1>9, SettledSays
<1> HIDE DEF a
<1>11. Fits(a, m.junction, said, grid)
  BY <1>3, <1>4, <1>5, <1>8, <1>10 DEF Fits
<1> QED
  BY <1>1, <1>9, <1>11 DEF found

LEMMA SectionFinds ==
    ASSUME NEW said, NEW grid, NEW down, Found(StreetSectionIfSelfPaired(said, grid, down))
    PROVE  Vague(StreetSectionIfSelfPaired(said, grid, down), "section", {"section"})
<1> DEFINE a == NormalizeStreetName(said.street)
           pieces == {s \in Segments : NormalizeStreetName(FullName(s)) = a /\ grid \in s.zones}
           place == [Place("section", FirstOf(pieces).id, NoPart) EXCEPT !.at = grid]
           note == Stating("section", NoHouse, a)
           ends == {[Place("end", s.id, NoPart) EXCEPT !.at = grid] : s \in pieces}
<1>1. StreetSectionIfSelfPaired(said, grid, down)
      = WithEnds("section", place, NoHouse, a, 50, note, ends)
  BY NothingFound DEF StreetSectionIfSelfPaired, WithEnds
<1>2. place.kind = "section" /\ place.at = grid
  BY PlacesSay
<1>3. \A e \in ends : e.kind = "end" /\ e.at = grid
  <2>1. ASSUME NEW s \in pieces
        PROVE  LET e == [Place("end", s.id, NoPart) EXCEPT !.at = grid]
               IN  e.kind = "end" /\ e.at = grid
    BY PlacesSay
  <2> HIDE DEF pieces
  <2> QED
    BY <2>1
<1>4. note # Silent
  BY NotesSpeak
<1> HIDE DEF place, ends, note, a
<1>5. EndsFit(place, ends)
  BY <1>2, <1>3 DEF EndsFit
<1> QED
  BY <1>1, <1>2, <1>4, <1>5, StretchIsVague

LEMMA PairFinds ==
    ASSUME NEW said, NEW grid, NEW xs, NEW ways, Found(Junction(said, grid, xs, ways))
    PROVE  \/ Vague(Junction(said, grid, xs, ways), "section", {"section"})
           \/ \E j \in Junctions : Fits(Junction(said, grid, xs, ways), j, said, grid)
<1> DEFINE section == StreetSectionIfSelfPaired(said, grid, ways.down)
           found == Lookup(said.street, said.other, ways.loaded)
<1>1. CASE Found(section)
  <2>1. Junction(said, grid, xs, ways) = section
    BY <1>1 DEF Junction, PairAnswer
  <2> QED
    BY <1>1, <2>1, SectionFinds
<1>2. CASE ~Found(section)
  <2>1. /\ found.matches # {}
        /\ Junction(said, grid, xs, ways) = ResolveCandidates(found, said, grid, xs, ways.down)
    BY <1>2, NothingFound DEF Junction, PairAnswer
  <2> QED
    BY <2>1, CandidatesFind
<1> QED
  BY <1>1, <1>2

-----------------------------------------------------------------------------
(***************************************************************************)
(* The ladder.                                                             *)
(***************************************************************************)

LEMMA FirstFoundIsFirst ==
    ASSUME NEW answers, NEW n \in Nat, DOMAIN answers = 1..n, Len(answers) = n,
           NEW i \in 1..n, Found(answers[i])
    PROVE  \E k \in 1..i : /\ Found(answers[k]) /\ FirstFound(answers) = answers[k]
                           /\ \A j \in 1..(k-1) : ~Found(answers[j])
<1> DEFINE found == {j \in 1..Len(answers) : Found(answers[j])}
<1>1. found \in SUBSET Nat /\ i \in found
  OBVIOUS
<1>2. SelectInSeq(answers, Found) = Min(found)
  BY <1>1 DEF SelectInSeq
<1>3. FirstFound(answers) = answers[Min(found)]
  BY <1>2 DEF FirstFound
<1> DEFINE k == Min(found)
<1>4. k \in found /\ \A j \in found : k <= j
  <2> HIDE DEF found
  <2> QED
    BY <1>1, MinIsLeast
<1> HIDE DEF k
<1>5. k \in 1..n /\ Found(answers[k]) /\ k <= i
  BY <1>1, <1>4
<1>6. ASSUME NEW j \in 1..(k-1) PROVE ~Found(answers[j])
  BY <1>4, <1>5
<1>7. k \in 1..i /\ FirstFound(answers) = answers[k]
  BY <1>3, <1>5 DEF k
<1> QED
  BY <1>5, <1>6, <1>7

LEMMA FirstFoundNone ==
    ASSUME NEW answers, NEW n \in Nat, DOMAIN answers = 1..n,
           \A i \in 1..n : ~Found(answers[i])
    PROVE  FirstFound(answers) = NoAnswer
  BY DEF FirstFound

LEMMA RungsAre ==
    ASSUME NEW p, NEW grid, NEW xs, NEW ways
    PROVE  LET rungs == CivicRungs(p, grid, xs, ways)
           IN  /\ DOMAIN rungs = 1..8 /\ Len(rungs) = 8
               /\ rungs[1] = OnlyIf(p.block /\ p.house # NoHouse,
                                    ResolveBlockMidpoint(p, ways.down))
               /\ rungs[2] = OnlyIf(p.house # NoHouse,
                                    ResolveExact(p.house, p.raw, p.type, grid, xs, ways.down))
               /\ rungs[3] = OnlyIf(Len(p.house) >= 5,
                                    ResolveOverlongHouse(p, grid, xs, ways.down, ways.unread))
               /\ rungs[4] = OnlyIf(p.house # NoHouse, ResolveBlock(p, ways.down))
               /\ rungs[5] = OnlyIf(p.house # NoHouse, ResolveNearestCivic(p, xs, ways.down))
               /\ rungs[6] = OnlyIf(NearRoadsGiven(xs), ResolveXStreetNarrow(p, xs, ways.down))
               /\ rungs[7] = Approximate(ResolveStreetCentroid(p, ways.down), p)
               /\ rungs[8] = Approximate(ResolveRoadCentroid(p, ways.down), p)
  BY DEF CivicRungs

LEMMA OnlyIfSays ==
    ASSUME NEW condition, NEW answer, Found(OnlyIf(condition, answer))
    PROVE  condition /\ OnlyIf(condition, answer) = answer
  BY NothingFound DEF OnlyIf

VagueRungs == {"block", "interpolate", "nearest", "between", "street", "road"}

\* What a civic address is answered: the parcel at the number, a parcel at a
\* reading of it, or something vague.
CivicAnswer(a, p, grid, xs) ==
    \/ \E q \in Parcels : /\ q.house = p.house /\ IsExact(a, q)
                          /\ Singled(q, p.house, QueryStreet(p.raw, p.type), grid,
                                     VerifiedXStreets(xs))
    \/ \E q \in Parcels : q.house \in OverlongReadings(p.house) /\ IsReading(a, q)
    \/ \E rung \in VagueRungs : Vague(a, rung, {a.place.kind})

LEMMA VagueIsCivic ==
    ASSUME NEW a, NEW p, NEW grid, NEW xs, NEW rung \in VagueRungs, NEW kinds,
           Vague(a, rung, kinds)
    PROVE  CivicAnswer(a, p, grid, xs)
  BY DEF CivicAnswer, Vague

LEMMA EachRungAnswers ==
    ASSUME NEW p, p.house \in Seq(Digits), NEW grid, NEW xs, IsFiniteSet(DOMAIN xs), NEW ways,
           NEW k \in 1..8, Found(CivicRungs(p, grid, xs, ways)[k])
    PROVE  CivicAnswer(CivicRungs(p, grid, xs, ways)[k], p, grid, xs)
<1> DEFINE rungs == CivicRungs(p, grid, xs, ways)
           down == ways.down
<1>1. CASE k = 1
  <2>1. rungs[1] = ResolveBlockMidpoint(p, down)
    BY <1>1, RungsAre, OnlyIfSays
  <2>2. Vague(rungs[1], "block", {"block"})
    BY <1>1, <2>1, MidpointFinds
  <2> QED
    BY <1>1, <2>2, VagueIsCivic DEF VagueRungs
<1>2. CASE k = 2
  <2>1. rungs[2] = ResolveExact(p.house, p.raw, p.type, grid, xs, down)
    BY <1>2, RungsAre, OnlyIfSays
  <2> QED
    BY <1>2, <2>1, ExactFinds DEF CivicAnswer
<1>3. CASE k = 3
  <2>1. rungs[3] = ResolveOverlongHouse(p, grid, xs, down, ways.unread)
    BY <1>3, RungsAre, OnlyIfSays
  <2> QED
    BY <1>3, <2>1, OverlongFinds DEF CivicAnswer
<1>4. CASE k = 4
  <2>1. rungs[4] = ResolveBlock(p, down)
    BY <1>4, RungsAre, OnlyIfSays
  <2>2. Vague(rungs[4], "interpolate", {"segment"})
    BY <1>4, <2>1, BlockFinds
  <2> QED
    BY <1>4, <2>2, VagueIsCivic DEF VagueRungs
<1>5. CASE k = 5
  <2>1. rungs[5] = ResolveNearestCivic(p, xs, down)
    BY <1>5, RungsAre, OnlyIfSays
  <2>2. Vague(rungs[5], "nearest", {"parcel"})
    BY <1>5, <2>1, NearestFinds
  <2> QED
    BY <1>5, <2>2, VagueIsCivic DEF VagueRungs
<1>6. CASE k = 6
  <2>1. rungs[6] = ResolveXStreetNarrow(p, xs, down)
    BY <1>6, RungsAre, OnlyIfSays
  <2>2. Vague(rungs[6], "between", {"junction", "between"})
    BY <1>6, <2>1, BetweenFinds
  <2> QED
    BY <1>6, <2>2, VagueIsCivic DEF VagueRungs
<1>7. CASE k = 7
  <2>1. Vague(rungs[7], "street", {"street"})
    BY <1>7, RungsAre, StreetFinds
  <2> QED
    BY <1>7, <2>1, VagueIsCivic DEF VagueRungs
<1>8. CASE k = 8
  <2>1. Vague(rungs[8], "road", {"road"})
    BY <1>8, RungsAre, RoadFinds
  <2> QED
    BY <1>8, <2>1, VagueIsCivic DEF VagueRungs
<1> QED
  BY <1>1, <1>2, <1>3, <1>4, <1>5, <1>6, <1>7, <1>8

LEMMA LadderAnswers ==
    ASSUME NEW p, p.house \in Seq(Digits), NEW grid, NEW xs, IsFiniteSet(DOMAIN xs), NEW ways,
           Found(FirstFound(CivicRungs(p, grid, xs, ways)))
    PROVE  CivicAnswer(FirstFound(CivicRungs(p, grid, xs, ways)), p, grid, xs)
<1> DEFINE rungs == CivicRungs(p, grid, xs, ways)
<1>1. DOMAIN rungs = 1..8 /\ Len(rungs) = 8
  BY RungsAre
<1>2. \A i \in 1..8 : Found(rungs[i]) => CivicAnswer(rungs[i], p, grid, xs)
  BY EachRungAnswers
<1> HIDE DEF rungs
<1>3. PICK i \in 1..8 : Found(rungs[i])
  BY <1>1, FirstFoundNone, NothingFound DEF rungs
<1>4. \E k \in 1..i : Found(rungs[k]) /\ FirstFound(rungs) = rungs[k]
  BY <1>1, <1>3, FirstFoundIsFirst
<1> QED
  BY <1>2, <1>4 DEF rungs

-----------------------------------------------------------------------------
(***************************************************************************)
(* What the geocoder answers to an attempt.                                *)
(***************************************************************************)

\* The word "Block" goes, the rest stays.
LEMMA WithoutBlock ==
    ASSUME NEW l, l = [house |-> l.house, block |-> l.block, street |-> l.street,
                       other |-> l.other]
    PROVE  Unblocked(l) = [house |-> l.house, block |-> FALSE, street |-> l.street,
                           other |-> l.other]
<1> DEFINE u == Unblocked(l)
<1>1. DOMAIN l = {"house", "block", "street", "other"} /\ l = [x \in DOMAIN l |-> l[x]]
  OBVIOUS
<1>2. u = [x \in {"house", "block", "street", "other"} |-> IF x = "block" THEN FALSE ELSE l[x]]
  BY <1>1 DEF Unblocked
<1> HIDE DEF u
<1>3. u = [house |-> u.house, block |-> u.block, street |-> u.street, other |-> u.other]
  BY <1>2
<1>4. u.block = FALSE /\ u.house = l.house /\ u.street = l.street /\ u.other = l.other
  BY <1>2
<1> QED
  BY <1>3, <1>4 DEF u

LEMMA NoBlockToDrop ==
    ASSUME NEW l, NEW house, NEW street, NEW other,
           l = [house |-> house, block |-> FALSE, street |-> street, other |-> other]
    PROVE  /\ Unblocked(l) = l
           /\ l = [house |-> l.house, block |-> l.block, street |-> l.street, other |-> l.other]
           /\ l.house = house /\ l.block \in BOOLEAN
<1>1. l.house = house /\ l.street = street /\ l.other = other /\ l.block = FALSE
  OBVIOUS
<1>2. l = [house |-> l.house, block |-> l.block, street |-> l.street, other |-> l.other]
  BY <1>1
<1>3. Unblocked(l) = [house |-> l.house, block |-> FALSE, street |-> l.street, other |-> l.other]
  BY <1>2, WithoutBlock
<1> QED
  BY <1>1, <1>2, <1>3

LEMMA LocationsAre ==
    ASSUME NEW l \in Locations
    PROVE  /\ l = [house |-> l.house, block |-> l.block, street |-> l.street, other |-> l.other]
           /\ l.house \in Seq(Digits) /\ l.block \in BOOLEAN
           /\ Unblocked(l) \in Locations
<1> DEFINE Loc(house, block, street, other) ==
             [house |-> house, block |-> block, street |-> street, other |-> other]
           IsLoc(x) == x = Loc(x.house, x.block, x.street, x.other)
<1>1. ASSUME NEW c \in Candidates
      PROVE  /\ IsLoc(c.said) /\ c.said.house \in Seq(Digits) /\ c.said.block \in BOOLEAN
             /\ Unblocked(c.said) = Loc(c.said.house, FALSE, c.said.street, c.said.other)
             /\ Unblocked(c.said) \in Locations
  <2>1. IsLoc(c.said) /\ c.said.house \in Seq(Digits) /\ c.said.block \in BOOLEAN
    BY HearingsOK
  <2>2. Unblocked(c.said) = Loc(c.said.house, FALSE, c.said.street, c.said.other)
    BY <2>1, WithoutBlock
  <2>3. Unblocked(c.said) \in {Unblocked(d.said) : d \in Candidates}
    OBVIOUS
  <2> QED
    BY <2>1, <2>2, <2>3 DEF Locations
<1>2. CASE l \in {c.said : c \in Candidates}
  BY <1>1, <1>2
<1>3. CASE l \in {Unblocked(c.said) : c \in Candidates}
  <2>1. PICK c \in Candidates : l = Unblocked(c.said)
    BY <1>3
  <2>2. l = Loc(c.said.house, FALSE, c.said.street, c.said.other)
    BY <1>1, <2>1
  <2>3. Unblocked(l) = l
    BY <2>2, WithoutBlock
  <2> QED
    BY <1>1, <2>2, <2>3
<1>4. CASE l = Bracketed
  <2>1. l = Loc(NoHouse, FALSE, <<"(BETWEEN)">>, NoWords)
    BY <1>4 DEF Bracketed
  <2>2. /\ Unblocked(l) = l /\ l.block \in BOOLEAN /\ l.house = NoHouse
        /\ l = Loc(l.house, l.block, l.street, l.other)
    BY <2>1, NoBlockToDrop
  <2> QED
    BY <2>2 DEF NoHouse
<1>5. CASE l \in {[house |-> p.house, block |-> FALSE, street |-> ParcelStreet(p),
                   other |-> NoWords] : p \in Parcels}
  <2>1. PICK p \in Parcels : l = Loc(p.house, FALSE, ParcelStreet(p), NoWords)
    BY <1>5
  <2>2. /\ Unblocked(l) = l /\ l.block \in BOOLEAN /\ l.house = p.house
        /\ l = Loc(l.house, l.block, l.street, l.other)
    BY <2>1, NoBlockToDrop
  <2> QED
    BY <2>2, StreetNamesConstantsOK
<1> QED
  BY <1>2, <1>3, <1>4, <1>5 DEF Locations

LEMMA AttemptsAre ==
    ASSUME NEW t \in Attempts
    PROVE  /\ t.said \in Locations /\ t.said.house \in Seq(Digits)
           /\ IsFiniteSet(DOMAIN t.xs)
           /\ Geocoded[t] = GetCoordinates(t.said, t.grid, t.xs, t.ways)
<1>1. t.said \in Locations /\ t.xs \in NearRoads \X NearRoads
  BY DEF Attempts
<1>2. t.said.house \in Seq(Digits)
  BY <1>1, LocationsAre
<1>3. DOMAIN t.xs = 1..2
  BY <1>1
<1>4. IsFiniteSet(DOMAIN t.xs)
  <2>1. 1 \in Int /\ 2 \in Int
    OBVIOUS
  <2>2. IsFiniteSet(1..2)
    BY <2>1, FS_Interval
  <2> QED
    BY <1>3, <2>2
<1> QED
  BY <1>1, <1>2, <1>4, GeocodedIsTheLadder

\* An address is answered by the ladder, a pair of streets by their junctions.
LEMMA GeocodedAnswers ==
    ASSUME NEW t \in Attempts, Found(Geocoded[t])
    PROVE  \/ /\ ~Paired(t.said)
              /\ CivicAnswer(Geocoded[t], ParseHouseAndStreet(t.said), t.grid, t.xs)
           \/ /\ Paired(t.said)
              /\ \/ Vague(Geocoded[t], "section", {"section"})
                 \/ \E j \in Junctions : Fits(Geocoded[t], j, t.said, t.grid)
<1> DEFINE p == ParseHouseAndStreet(t.said)
<1>1. p.house = t.said.house
  BY DEF ParseHouseAndStreet
<1> HIDE DEF p
<1>2. CASE Paired(t.said)
  <2>1. Geocoded[t] = Junction(t.said, t.grid, t.xs, t.ways)
    BY <1>2, AttemptsAre DEF GetCoordinates
  <2> QED
    BY <1>2, <2>1, PairFinds
<1>3. CASE ~Paired(t.said)
  <2>1. Geocoded[t] = FirstFound(CivicRungs(p, t.grid, t.xs, t.ways))
    BY <1>3, AttemptsAre, NothingFound DEF GetCoordinates, p
  <2>2. p.house \in Seq(Digits) /\ IsFiniteSet(DOMAIN t.xs)
    BY <1>1, AttemptsAre
  <2> QED
    BY <1>3, <2>1, <2>2, LadderAnswers DEF p
<1> QED
  BY <1>2, <1>3

\* Every answer is sure to some degree, and its ends are those of its stretch.
LEMMA AnswersAreWhole ==
    ASSUME NEW t \in Attempts, Found(Geocoded[t])
    PROVE  Geocoded[t].conf \in Int /\ EndsFit(Geocoded[t].place, Geocoded[t].ends)
<1> DEFINE a == Geocoded[t]
<1>1. CASE \E rung \in VagueRungs \cup {"section"}, kind \in {"section", a.place.kind} :
               Vague(a, rung, {kind})
  BY <1>1 DEF Vague
<1>2. CASE \E q \in Parcels : IsExact(a, q)
  BY <1>2 DEF IsExact, EndsFit
<1>3. CASE \E q \in Parcels : IsReading(a, q)
  BY <1>3 DEF IsReading, EndsFit
<1>4. CASE \E j \in Junctions : Fits(a, j, t.said, t.grid)
  BY <1>4 DEF Fits, IsJunctionOf, EndsFit
<1> QED
  BY <1>1, <1>2, <1>3, <1>4, GeocodedAnswers DEF CivicAnswer

\* Where the operator's screen may be shown without anybody's choice.
ShownAt(place, said) ==
    \/ \E p \in Parcels : /\ place = Place("parcel", p.id, ArrivalPoint(p))
                          /\ p.house \in {said.house} \cup OverlongReadings(said.house)
    \/ \E j \in Junctions : /\ place = Place("junction", j.id, NoPart)
                            /\ Heard(j, said.street, said.other)

LEMMA SolidIsHeard ==
    ASSUME NEW t \in Attempts, Found(Geocoded[t]), Solid(Geocoded[t])
    PROVE  Geocoded[t].ends = {} /\ ShownAt(Geocoded[t].place, t.said)
<1> DEFINE a == Geocoded[t]
<1>1. ASSUME NEW rung \in VagueRungs \cup {"section"}, NEW kinds, Vague(a, rung, kinds)
      PROVE  FALSE
  <2>1. a.rung \notin {"exact", "reading", "junction"} /\ a.candidates = {}
    BY <1>1 DEF Vague, VagueRungs
  <2> HIDE DEF a
  <2>2. ZoneId(a) = NoZone /\ ~IsJunction(a)
    BY <2>1 DEF ZoneId, IsJunction
  <2> QED
    BY <2>2 DEF Solid, a
<1>2. ParseHouseAndStreet(t.said).house = t.said.house
  BY DEF ParseHouseAndStreet
<1>3. CASE \E q \in Parcels : q.house = t.said.house /\ IsExact(a, q)
  BY <1>3 DEF IsExact, ShownAt
<1>4. CASE \E q \in Parcels : q.house \in OverlongReadings(t.said.house) /\ IsReading(a, q)
  BY <1>4 DEF IsReading, ShownAt
<1>5. CASE \E j \in Junctions : Fits(a, j, t.said, t.grid)
  <2>1. PICK j \in Junctions : Fits(a, j, t.said, t.grid)
    BY <1>5
  <2>2. a.rung = "junction" /\ a.ends = {} /\ a.place = Place("junction", j.id, NoPart)
    BY <2>1 DEF Fits, IsJunctionOf
  <2>3. a.note.kind # "near miss"
    <3> HIDE DEF a
    <3>1. ZoneId(a) = NoZone
      BY <2>2 DEF ZoneId
    <3> QED
      BY <3>1 DEF Solid, a
  <2>4. Heard(j, t.said.street, t.said.other)
    BY <2>1, <2>3 DEF Fits
  <2> QED
    BY <2>2, <2>4 DEF ShownAt
<1> QED
  BY <1>1, <1>2, <1>3, <1>4, <1>5, GeocodedAnswers DEF CivicAnswer

\* A location withheld is one the geocoder may be asked for again.
LEMMA RequestedIsALocation ==
    ASSUME NEW t \in Attempts, Found(Geocoded[t])
    PROVE  Requested(Geocoded[t], t.said) \in Locations
<1> DEFINE a == Geocoded[t]
           said == t.said
<1>1. said \in Locations
  BY AttemptsAre
<1>2. CASE a.rung = "between"
  <2> HIDE DEF a, said
  <2>1. Requested(a, said) = ShownAddress(a, said)
    BY <1>2 DEF Requested
  <2>2. Requested(a, said) = Bracketed
    BY <1>2, <2>1 DEF ShownAddress
  <2>3. Requested(a, said) \in Locations
    BY <2>2 DEF Locations
  <2> QED
    BY <2>3 DEF a, said
<1>3. CASE a.rung = "exact"
  <2>1. ~Paired(said) /\ CivicAnswer(a, ParseHouseAndStreet(said), t.grid, t.xs)
    BY <1>3, GeocodedAnswers DEF Vague, Fits, IsJunctionOf
  <2>2. PICK q \in Parcels : IsExact(a, q)
    BY <1>3, <2>1 DEF CivicAnswer, Vague, VagueRungs, IsReading
  <2>3. a.house = q.house /\ a.street = ParcelStreet(q) /\ a.place.kind = "parcel"
    BY <2>2, PlacesSay DEF IsExact
  <2>4. said.other = NoWords
    BY <2>1 DEF Paired
  <2>5. said = [house |-> said.house, block |-> said.block, street |-> said.street,
                other |-> said.other]
    BY <1>1, LocationsAre
  <2> HIDE DEF a, said
  <2>6. Unblocked(said) = [house |-> said.house, block |-> FALSE, street |-> said.street,
                           other |-> said.other]
    BY <2>5, WithoutBlock
  <2>7. Requested(a, said) = [Unblocked(said) EXCEPT !.house = a.house, !.street = a.street]
    BY <1>3, <2>3 DEF Requested, ShownAddress
  <2> DEFINE u == Unblocked(said)
  <2>8. Requested(a, said)
        = [house |-> q.house, block |-> FALSE, street |-> ParcelStreet(q), other |-> NoWords]
    <3>1. DOMAIN u = {"house", "block", "street", "other"} /\ u = [x \in DOMAIN u |-> u[x]]
      BY <2>6
    <3>2. u.block = FALSE /\ u.other = NoWords
      BY <2>4, <2>6
    <3> DEFINE r == [u EXCEPT !.house = a.house, !.street = a.street]
    <3> HIDE DEF u
    <3>3. r.house = a.house /\ r.street = a.street /\ r.block = u.block /\ r.other = u.other
      BY <3>1
    <3>4. r = [x \in {"house", "block", "street", "other"} |->
                  IF x = "house" THEN a.house ELSE IF x = "street" THEN a.street ELSE u[x]]
      BY <3>1
    <3> HIDE DEF r
    <3>5. r = [house |-> r.house, block |-> r.block, street |-> r.street, other |-> r.other]
      BY <3>4
    <3>6. r.house = q.house /\ r.street = ParcelStreet(q)
      BY <2>3, <3>3
    <3>7. r.block = FALSE
      BY <3>2, <3>3, Zenon
    <3>8. r.other = NoWords
      BY <3>2, <3>3, Zenon
    <3>9. r = [house |-> q.house, block |-> FALSE, street |-> ParcelStreet(q), other |-> NoWords]
      BY <3>5, <3>6, <3>7, <3>8, Zenon
    <3> QED
      BY <2>7, <3>9 DEF u, r
  <2>9. Requested(a, said) \in {[house |-> p.house, block |-> FALSE, street |-> ParcelStreet(p),
                                other |-> NoWords] : p \in Parcels}
    BY <2>8, Zenon
  <2>10. Requested(a, said) \in Locations
    BY <2>9 DEF Locations
  <2> QED
    BY <2>10 DEF a, said
<1>4. CASE a.rung \notin {"exact", "between"}
  <2> HIDE DEF a, said
  <2>1. Requested(a, said) \in {said, Unblocked(said)}
    BY <1>4 DEF Requested
  <2>2. Requested(a, said) \in Locations
    BY <1>1, <2>1, LocationsAre
  <2> QED
    BY <2>2 DEF a, said
<1> QED
  BY <1>2, <1>3, <1>4

-----------------------------------------------------------------------------
(***************************************************************************)
(* What the candidates of a hearing say together.                          *)
(***************************************************************************)

LEMMA GridIsSaid ==
    ASSUME NEW cs, cs \in Seq(Range(cs))
    PROVE  Grid(cs) = NoZone \/ \E c \in Range(cs) : Grid(cs) = c.grid
<1>1. CASE \A i \in DOMAIN cs : cs[i].grid = NoZone
  BY <1>1 DEF Grid, Said
<1>2. CASE \E i \in DOMAIN cs : cs[i].grid # NoZone
  <2> DEFINE I == {i \in 1..Len(cs) : cs[i].grid # NoZone}
  <2>1. I \in SUBSET Nat /\ I # {} /\ DOMAIN cs = 1..Len(cs)
    BY <1>2
  <2>2. Min(I) \in I
    BY <2>1, MinIsLeast
  <2>3. SelectInSeq(cs, LAMBDA c : c.grid # NoZone) = Min(I)
    BY <2>1 DEF SelectInSeq
  <2>4. Grid(cs) = cs[Min(I)].grid
    BY <1>2, <2>3 DEF Grid, Said
  <2> QED
    BY <2>1, <2>2, <2>4 DEF Range
<1> QED
  BY <1>1, <1>2

LEMMA UnitsAreSaid ==
    ASSUME NEW cs, cs \in Seq(Range(cs))
    PROVE  Units(cs) = <<>> \/ \E c \in Range(cs) : Units(cs) = c.units
<1>1. CASE \A i \in DOMAIN cs : cs[i].units = <<>>
  BY <1>1 DEF Units, Said
<1>2. CASE \E i \in DOMAIN cs : cs[i].units # <<>>
  <2> DEFINE I == {i \in 1..Len(cs) : cs[i].units # <<>>}
  <2>1. I \in SUBSET Nat /\ I # {} /\ DOMAIN cs = 1..Len(cs)
    BY <1>2
  <2>2. Min(I) \in I
    BY <2>1, MinIsLeast
  <2>3. SelectInSeq(cs, LAMBDA c : c.units # <<>>) = Min(I)
    BY <2>1 DEF SelectInSeq
  <2>4. Units(cs) = cs[Min(I)].units
    BY <1>2, <2>3 DEF Units, Said
  <2> QED
    BY <2>1, <2>2, <2>4 DEF Range
<1> QED
  BY <1>1, <1>2

LEMMA RoadIsSaid ==
    ASSUME NEW cs, cs \in Seq(Range(cs)), NEW k \in 1..2
    PROVE  XStreets(cs)[k] = NoWords \/ \E c \in Range(cs) : XStreets(cs)[k] = c.xs[k]
<1>1. XStreets(cs)[k] = Said(cs, LAMBDA c : c.xs[k], NoWords)
  BY DEF XStreets
<1>2. CASE \A i \in DOMAIN cs : cs[i].xs[k] = NoWords
  BY <1>1, <1>2 DEF Said
<1>3. CASE \E i \in DOMAIN cs : cs[i].xs[k] # NoWords
  <2> DEFINE I == {i \in 1..Len(cs) : cs[i].xs[k] # NoWords}
  <2>1. I \in SUBSET Nat /\ I # {} /\ DOMAIN cs = 1..Len(cs)
    BY <1>3
  <2>2. Min(I) \in I
    BY <2>1, MinIsLeast
  <2>3. SelectInSeq(cs, LAMBDA c : c.xs[k] # NoWords) = Min(I)
    BY <2>1 DEF SelectInSeq
  <2>4. XStreets(cs)[k] = cs[Min(I)].xs[k]
    BY <1>1, <1>3, <2>3 DEF Said
  <2> QED
    BY <2>1, <2>2, <2>4 DEF Range
<1> QED
  BY <1>2, <1>3

\* The candidates of a hearing.
Wordings == {h.candidates : h \in Hearings}

LEMMA WordingsAre ==
    ASSUME NEW cs \in Wordings
    PROVE  cs \in Seq(Range(cs)) /\ Range(cs) \subseteq Candidates
  BY HearingsOK DEF Wordings, Candidates

LEMMA CandidatesAre ==
    ASSUME NEW c \in Candidates
    PROVE  /\ c.said \in Locations /\ c.grid \in Grids
           /\ c.units \in Seq(Range(c.units))
           /\ c.xs[1] \in NearRoads /\ c.xs[2] \in NearRoads
<1>1. c.xs = <<c.xs[1], c.xs[2]>>
  BY HearingsOK
<1>2. c.xs[1] \in Range(c.xs) /\ c.xs[2] \in Range(c.xs)
  <2>1. 1 \in DOMAIN c.xs /\ 2 \in DOMAIN c.xs
    BY <1>1
  <2> QED
    BY <2>1 DEF Range
<1>3. c.units \in Seq(Range(c.units))
  BY HearingsOK
<1> QED
  BY <1>2, <1>3 DEF Locations, Grids, NearRoads

LEMMA PairIsAProduct ==
    ASSUME NEW S, NEW f, f = [k \in 1..2 |-> f[k]], f[1] \in S, f[2] \in S
    PROVE  f \in S \X S
<1>1. f = <<f[1], f[2]>>
  OBVIOUS
<1> QED
  BY <1>1

LEMMA HearingSays ==
    ASSUME NEW cs \in Wordings
    PROVE  /\ Grid(cs) \in Grids
           /\ Units(cs) \in Seq(Range(Units(cs)))
           /\ \A k \in 1..2 : XStreets(cs)[k] \in NearRoads
           /\ XStreets(cs) \in NearRoads \X NearRoads
           /\ \A i \in DOMAIN cs : cs[i] \in Candidates
<1>1. cs \in Seq(Range(cs)) /\ Range(cs) \subseteq Candidates
  BY WordingsAre
<1>2. Grid(cs) \in Grids
  BY <1>1, GridIsSaid DEF Grids
<1>3. Units(cs) \in Seq(Range(Units(cs)))
  <2>1. Units(cs) = <<>> \/ \E c \in Candidates : Units(cs) = c.units
    BY <1>1, UnitsAreSaid
  <2>2. CASE Units(cs) = <<>>
    <3>1. <<>> \in Seq(Range(<<>>))
      OBVIOUS
    <3> QED
      BY <2>2, <3>1
  <2>3. ASSUME NEW c \in Candidates, Units(cs) = c.units PROVE Units(cs) \in Seq(Range(Units(cs)))
    BY <2>3, CandidatesAre
  <2> QED
    BY <2>1, <2>2, <2>3
<1>4. \A k \in 1..2 : XStreets(cs)[k] \in NearRoads
  <2> DEFINE roads == UNION {Range(c.xs) : c \in Candidates}
  <2>1. NearRoads = roads \cup {NoWords}
    BY DEF NearRoads
  <2> HIDE DEF roads
  <2>2. NoWords \in NearRoads
    BY <2>1
  <2>3. \A k \in 1..2 : \A c \in Candidates : c.xs[k] \in NearRoads
    BY CandidatesAre
  <2> QED
    BY <1>1, <2>2, <2>3, RoadIsSaid
<1>5. XStreets(cs) \in NearRoads \X NearRoads
  <2>1. XStreets(cs) = [k \in 1..2 |-> XStreets(cs)[k]]
    BY DEF XStreets
  <2> QED
    BY <1>4, <2>1, PairIsAProduct
<1>6. \A i \in DOMAIN cs : cs[i] \in Candidates
  BY <1>1 DEF Range
<1> QED
  BY <1>2, <1>3, <1>4, <1>5, <1>6

-----------------------------------------------------------------------------
(***************************************************************************)
(* What is asked of the geocoder.                                          *)
(***************************************************************************)

\* With the junctions this process has.
Asked == {t \in Attempts : t.ways.loaded = loaded}

LEMMA AttemptIsAsked ==
    ASSUME loaded \in BOOLEAN, NEW said \in Locations, NEW grid \in Grids,
           NEW xs \in NearRoads \X NearRoads, NEW ways \in Ways
    PROVE  /\ Attempted(said, grid, xs, ways) \in Asked
           /\ Attempted(said, grid, xs, ways).said = said
<1>1. PICK o \in Outages : ways = Attempt(o.down, o.unread, loaded)
  BY DEF Ways
<1>2. ways.loaded = loaded
  BY <1>1 DEF Attempt
<1>3. ways \in {Attempt(q.down, q.unread, index) : q \in Outages, index \in BOOLEAN}
  BY <1>1
<1> DEFINE t == Attempted(said, grid, xs, ways)
<1>4. t = [said |-> said, grid |-> grid, xs |-> xs, ways |-> ways]
  BY DEF Attempted
<1> HIDE DEF t
<1>5. t \in Attempts
  BY <1>3, <1>4 DEF Attempts
<1>6. t.ways.loaded = loaded /\ t.said = said
  BY <1>2, <1>4
<1> QED
  BY <1>5, <1>6 DEF Asked, t

LEMMA TriesAreAsked ==
    ASSUME loaded \in BOOLEAN, NEW cs \in Wordings, NEW grid \in Grids, NEW ways \in Ways
    PROVE  /\ DOMAIN Tries(cs, grid, ways) = DOMAIN cs
           /\ \A i \in DOMAIN cs : /\ Tries(cs, grid, ways)[i] \in Asked
                                   /\ Tries(cs, grid, ways)[i].said = cs[i].said
<1> DEFINE t(i) == Attempted(cs[i].said, grid, XStreets(cs), ways)
<1>1. Tries(cs, grid, ways) = [i \in DOMAIN cs |-> t(i)]
  BY DEF Tries
<1>2. ASSUME NEW i \in DOMAIN cs PROVE t(i) \in Asked /\ t(i).said = cs[i].said
  <2>1. cs[i].said \in Locations /\ XStreets(cs) \in NearRoads \X NearRoads
    BY HearingSays, CandidatesAre
  <2> QED
    BY <2>1, AttemptIsAsked
<1> HIDE DEF t
<1> QED
  BY <1>1, <1>2

\* One of the tries is the best.
LEMMA BestIsOne ==
    ASSUME NEW n \in Nat, n > 0, NEW tries, DOMAIN tries = 1..n,
           \A i \in 1..n : tries[i] \in Attempts
    PROVE  Best(tries) \in 1..n
<1> DEFINE Conf(i) == Confidence(Geocoded[tries[i]])
           confs == [i \in 1..n |-> Conf(i)]
           T == {Conf(i) : i \in 1..n}
<1>1. \A i \in 1..n : Conf(i) \in Int
  BY AnswersAreWhole DEF Confidence
<1>2. Best(tries) = Surest(confs)
  BY DEF Best
<1> HIDE DEF Conf
<1>3. T \in SUBSET Int /\ T # {}
  BY <1>1
<1>4. IsFiniteSet(T)
  <2>1. 1 \in Int /\ n \in Int
    OBVIOUS
  <2>2. IsFiniteSet(1..n)
    BY <2>1, FS_Interval
  <2>3. confs \in [1..n -> T] /\ \A y \in T : \E i \in 1..n : confs[i] = y
    OBVIOUS
  <2> HIDE DEF confs, T
  <2> QED
    BY <2>2, <2>3, FiniteYield
<1>5. PICK i \in 1..n : \A j \in 1..n : Conf(i) >= Conf(j)
  <2>1. Max(T) \in T /\ \A k \in T : Max(T) >= k
    BY <1>3, <1>4, MaxIsGreatest
  <2> QED
    BY <2>1
<1> DEFINE surest == {k \in 1..n : Conf(k) = Conf(i)}
<1>6. surest \in SUBSET Nat /\ surest # {}
  OBVIOUS
<1>7. PICK k \in surest : \A j \in surest : k <= j
  BY <1>6, Least
<1>8. k \in 1..n /\ \A j \in 1..n : Conf(j) < Conf(k) \/ (Conf(j) = Conf(k) /\ k <= j)
  BY <1>1, <1>5, <1>7
<1>9. DOMAIN confs = 1..n /\ \A j \in 1..n : confs[j] = Conf(j)
  OBVIOUS
<1>10. \A j \in 1..n : confs[j] < confs[k] \/ (confs[j] = confs[k] /\ k <= j)
  BY <1>8, <1>9
<1> HIDE DEF confs
<1> QED
  BY <1>2, <1>8, <1>9, <1>10 DEF Surest

\* What phase 1, or phase 2 alone, tries of a hearing, and what comes best.
LEMMA PayloadTriesAre ==
    ASSUME loaded \in BOOLEAN, NEW heard \in Hearings, NEW ways \in Ways, NEW preliminary
    PROVE  LET tries == PayloadTries(heard, ways, preliminary)
               t == tries[Best(tries)]
           IN  /\ Range(tries) \subseteq Asked
               /\ tries # <<>> =>
                     /\ t \in Asked
                     /\ \E i \in DOMAIN heard.candidates : t.said = heard.candidates[i].said
<1> DEFINE cs == heard.candidates
           grid == IF preliminary THEN NoZone ELSE Grid(cs)
           tries == PayloadTries(heard, ways, preliminary)
           t == tries[Best(tries)]
<1>1. cs \in Wordings
  BY DEF Wordings
<1>2. grid \in Grids
  BY <1>1, HearingSays DEF Grids
<1>3. CASE heard.contact
  <2>1. tries = <<>>
    BY <1>3 DEF PayloadTries
  <2> QED
    BY <2>1 DEF Range
<1>4. CASE ~heard.contact
  <2>1. tries = Tries(cs, grid, ways)
    BY <1>4 DEF PayloadTries
  <2>2. /\ DOMAIN tries = DOMAIN cs
        /\ \A i \in DOMAIN cs : tries[i] \in Asked /\ tries[i].said = cs[i].said
    <3> HIDE DEF cs, grid, tries
    <3> QED
      BY <1>1, <1>2, <2>1, TriesAreAsked
  <2>3. cs \in Seq(Range(cs))
    BY <1>1, WordingsAre
  <2> HIDE DEF cs, tries
  <2>4. Range(tries) \subseteq Asked
    BY <2>2 DEF Range
  <2>5. DOMAIN cs = 1..Len(cs) /\ Len(cs) \in Nat
    BY <2>3
  <2>6. ASSUME tries # <<>> PROVE Best(tries) \in DOMAIN cs
    <3>1. tries = [i \in DOMAIN cs |-> tries[i]]
      BY <2>1, <2>2 DEF Tries
    <3>2. Len(cs) > 0
      BY <2>5, <2>6, <3>1
    <3> QED
      BY <2>2, <2>5, <3>2, BestIsOne DEF Asked
  <2> QED
    BY <2>2, <2>4, <2>6 DEF cs, tries
<1> QED
  BY <1>3, <1>4

-----------------------------------------------------------------------------
(***************************************************************************)
(* The record of the first round.                                          *)
(***************************************************************************)

LEMMA NoRecordIs ==
    /\ DOMAIN NoRecord = Fields
    /\ NoRecord.place = Nowhere /\ NoRecord.ends = {} /\ ~NoRecord.pending
  BY DEF NoRecord, Fields

\* What the record says where an answer is put in it.
LEMMA LocatedIs ==
    ASSUME NEW a, NEW said
    PROVE  LET r == Located(NoRecord, a, said)
           IN  /\ DOMAIN r = Fields
               /\ r.place = a.place /\ r.ends = (IF Found(a) THEN a.ends ELSE {})
               /\ ~r.pending
<1>1. CASE ~Found(a)
  <2>1. Located(NoRecord, a, said) = [NoRecord EXCEPT !.address = said]
    BY <1>1 DEF Located
  <2>2. a.place = Nowhere
    BY <1>1 DEF Found
  <2> QED
    BY <1>1, <2>1, <2>2, NoRecordIs, FieldsAre
<1>2. CASE Found(a)
  <2> DEFINE address == ShownAddress(a, said)
             place == a.place
             note == a.note
             kind == LocationType(a)
             ends == a.ends
             arrival == Arrival(a)
             rung == a.rung
  <2>1. Located(NoRecord, a, said)
        = [NoRecord EXCEPT !.address = address, !.place = place, !.note = note, !.kind = kind,
                           !.ends = ends, !.arrival = arrival, !.rung = rung]
    BY <1>2 DEF Located
  <2> HIDE DEF address, place, note, kind, ends, arrival, rung
  <2>2. LET r == Located(NoRecord, a, said)
        IN  DOMAIN r = Fields /\ r.place = place /\ r.ends = ends /\ ~r.pending
    BY <2>1, NoRecordIs, FieldsAre
  <2> QED
    BY <1>2, <2>2 DEF place, ends
<1> QED
  BY <1>1, <1>2

LEMMA WithheldIs ==
    ASSUME NEW a, NEW said
    PROVE  LET r == Withheld(NoRecord, a, said)
           IN  /\ DOMAIN r = Fields
               /\ r.place = Nowhere /\ r.ends = {}
               /\ r.pending /\ r.address = Requested(a, said)
<1> DEFINE address == Requested(a, said)
<1>1. Withheld(NoRecord, a, said) = [NoRecord EXCEPT !.address = address, !.pending = TRUE]
  BY DEF Withheld
<1> HIDE DEF address
<1>2. LET r == Withheld(NoRecord, a, said)
      IN  /\ DOMAIN r = Fields
          /\ r.place = Nowhere /\ r.ends = {}
          /\ r.pending /\ r.address = address
  BY <1>1, NoRecordIs, FieldsAre
<1> QED
  BY <1>2 DEF address

\* The routes of a record go where the record is, its flags say what it has.
Consistent(r) ==
    /\ DOMAIN r = Fields
    /\ Measured(r.routes) /\ Follow(r.routes, r.place)
    /\ r.place = Nowhere => r.routes = {}
    /\ r.place # Nowhere /\ r.units # <<>> => RoutedUnits(r.routes) = Range(r.units)
    /\ r.source = "none" <=> r.grid = NoZone
    /\ FlagsHold(r)

LEMMA FilledIs ==
    ASSUME NEW r, DOMAIN r = Fields, EndsFit(r.place, r.ends),
           NEW heard \in Hearings, NEW near, NEW grid, NEW answering, NEW preliminary,
           grid[2] = "none" <=> grid[1] = NoZone
    PROVE  LET s == Filled(r, near, grid, heard, answering, preliminary)
           IN  /\ Consistent(s)
               /\ s.place = r.place /\ s.ends = r.ends /\ s.pending = r.pending
               /\ s.address = r.address /\ s.grid = grid[1] /\ s.source = grid[2]
               /\ s.units = Units(heard.candidates)
               /\ r.ends = {} => \A m \in s.routes : ~m.section
<1> DEFINE cs == heard.candidates
           units == Units(cs)
           channel == Channel(cs)
           response == Response(cs)
           unit == Unit(cs)
           incident == heard.incident
           xs == near.shown
           g == grid[1]
           source == grid[2]
           routes == ComputeRoutingMetrics(Units(cs), r.place, r.ends, answering)
           q == [r EXCEPT !.grid = g, !.source = source, !.channel = channel,
                          !.response = response, !.unit = unit, !.units = units,
                          !.incident = incident, !.xs = xs, !.routes = routes]
           flags == ComputeReviewFlags(q, near, q.response)
           verify == /\ ~preliminary
                     /\ \/ flags \cap {"LOCATION_UNRESOLVED", "LOCATION_SUBSTITUTED"} # {}
                        \/ heard.candidates = <<>> /\ heard.incident = "Unknown Incident"
           s == Filled(r, near, grid, heard, answering, preliminary)
<1>1. cs \in Wordings
  BY DEF Wordings
<1>2. units \in Seq(Range(units))
  BY <1>1, HearingSays
<1>3. /\ Measured(routes) /\ Follow(routes, r.place)
      /\ r.place # Nowhere => RoutedUnits(routes) = Range(units)
      /\ r.ends = {} => \A m \in routes : ~m.section
  BY <1>2, RoutesComputed
<1>4. r.place = Nowhere => routes = {}
  BY NothingToNowhere
<1>5. s = [q EXCEPT !.flags = flags, !.verify = verify]
  BY DEF Filled, Flagged
<1> HIDE DEF s, verify, units, channel, response, unit, incident, xs, g, source, routes, cs
<1>6. /\ DOMAIN q = Fields
      /\ q.place = r.place /\ q.ends = r.ends /\ q.pending = r.pending /\ q.address = r.address
      /\ q.note = r.note /\ q.kind = r.kind /\ q.derived = r.derived
      /\ q.grid = g /\ q.source = source /\ q.units = units /\ q.routes = routes
  BY FieldsAre
<1>7. flags = ComputeReviewFlags(q, near, q.response)
  OBVIOUS
<1> HIDE DEF q, flags
<1>8. /\ DOMAIN s = Fields
      /\ s.place = q.place /\ s.ends = q.ends /\ s.pending = q.pending /\ s.address = q.address
      /\ s.note = q.note /\ s.kind = q.kind /\ s.derived = q.derived
      /\ s.grid = q.grid /\ s.source = q.source /\ s.units = q.units /\ s.routes = q.routes
      /\ s.flags = flags
  BY <1>5, <1>6, FieldsAre
<1>9. FlagsHold(s)
  BY <1>3, <1>6, <1>7, <1>8, FlaggedLast
<1>10. Consistent(s)
  BY <1>3, <1>4, <1>6, <1>8, <1>9 DEF Consistent, g, source
<1> QED
  BY <1>3, <1>6, <1>8, <1>10 DEF s, units, g, source, cs

LEMMA PublishedIs ==
    ASSUME NEW heard, NEW zone, NEW r, NEW preliminary \in BOOLEAN, NEW down
    PROVE  LET g == PublishedGrid(heard, zone, r, preliminary, down)
           IN  /\ g[2] = "none" <=> g[1] = NoZone
               /\ preliminary /\ g[1] # NoZone => g[2] \in {"parcel-zone", "verified-history"}
<1> DEFINE g == PublishedGrid(heard, zone, r, preliminary, down)
           history == VerifiedGridFor(r.address, Unit(heard.candidates), down)
<1>1. CASE ~preliminary
  <2> DEFINE spoken == Grid(heard.candidates)
             point == GetMapGridForPoint(r.place, down)
  <2>1. g = SpokenGrid(heard.candidates, r.place, down)
    BY <1>1 DEF PublishedGrid
  <2>2. g = IF spoken # NoZone THEN <<spoken, "announced">>
            ELSE IF point = NoZone THEN <<NoZone, "none">> ELSE <<point, "point-zone">>
    BY <2>1 DEF SpokenGrid, Sourced
  <2> HIDE DEF g, spoken, point
  <2>3. g[2] = "none" <=> g[1] = NoZone
    BY <2>2
  <2> QED
    BY <1>1, <2>3 DEF g
<1>2. CASE preliminary /\ (r.pending \/ zone = NoZone)
  <2>1. g = <<NoZone, "none">>
    BY <1>2 DEF PublishedGrid
  <2> QED
    BY <2>1
<1>3. CASE preliminary /\ ~(r.pending \/ zone = NoZone)
  <2>1. g = IF history # NoZone THEN <<history, "verified-history">> ELSE <<zone, "parcel-zone">>
    BY <1>3 DEF PublishedGrid
  <2> HIDE DEF g, history
  <2>2. /\ g[2] = "none" <=> g[1] = NoZone
        /\ g[1] # NoZone => g[2] \in {"parcel-zone", "verified-history"}
    BY <1>3, <2>1
  <2> QED
    BY <2>2 DEF g
<1> QED
  BY <1>1, <1>2, <1>3

\* What phase 1 shows: no stretch, a grid it worked out by itself, and a place
\* only where somebody was heard to want it.
FirstRound(r, cs) ==
    /\ r.ends = {} /\ \A m \in r.routes : ~m.section
    /\ r.pending => r.place = Nowhere /\ r.address \in Locations
    /\ r.grid # NoZone => r.source \in {"parcel-zone", "verified-history"}
    /\ r.place # Nowhere => \E i \in DOMAIN cs : ShownAt(r.place, cs[i].said)

LEMMA WithNearRoadsIs ==
    ASSUME NEW r, DOMAIN r = Fields, EndsFit(r.place, r.ends), NEW zone,
           NEW heard \in Hearings, NEW ways, NEW answering, NEW preliminary \in BOOLEAN
    PROVE  LET s == WithNearRoads(r, zone, heard, ways, answering, preliminary)
           IN  /\ Consistent(s)
               /\ s.place = r.place /\ s.ends = r.ends /\ s.pending = r.pending
               /\ s.address = r.address
               /\ preliminary /\ s.grid # NoZone => s.source \in {"parcel-zone", "verified-history"}
               /\ r.ends = {} => \A m \in s.routes : ~m.section
<1> DEFINE near == ApplyNearRoads(XStreets(heard.candidates), r.place, zone, ways.down)
           g == PublishedGrid(heard, zone, r, preliminary, ways.down)
           s == Filled(r, near, g, heard, answering, preliminary)
<1>1. /\ g[2] = "none" <=> g[1] = NoZone
      /\ preliminary /\ g[1] # NoZone => g[2] \in {"parcel-zone", "verified-history"}
  BY PublishedIs
<1>2. WithNearRoads(r, zone, heard, ways, answering, preliminary) = s
  BY DEF WithNearRoads
<1> HIDE DEF near, g
<1>3. /\ Consistent(s)
      /\ s.place = r.place /\ s.ends = r.ends /\ s.pending = r.pending
      /\ s.address = r.address /\ s.grid = g[1] /\ s.source = g[2]
      /\ r.ends = {} => \A m \in s.routes : ~m.section
  BY <1>1, FilledIs
<1> HIDE DEF s
<1> QED
  BY <1>1, <1>2, <1>3

LEMMA PayloadIs ==
    ASSUME NEW a, Found(a) => EndsFit(a.place, a.ends), NEW said,
           NEW heard \in Hearings, NEW ways, NEW answering, NEW preliminary \in BOOLEAN,
           preliminary /\ Found(a) /\ ~Solid(a) => Requested(a, said) \in Locations,
           preliminary /\ Found(a) /\ Solid(a) =>
               /\ a.ends = {}
               /\ \E i \in DOMAIN heard.candidates : ShownAt(a.place, heard.candidates[i].said)
    PROVE  LET s == Payload(a, said, heard, ways, answering, preliminary)
           IN  Consistent(s) /\ (preliminary => FirstRound(s, heard.candidates))
<1> DEFINE s == Payload(a, said, heard, ways, answering, preliminary)
<1>1. CASE preliminary /\ Found(a) /\ ~Solid(a)
  <2> DEFINE r == Withheld(NoRecord, a, said)
             zone == NoZone
  <2>1. DOMAIN r = Fields /\ r.place = Nowhere /\ r.ends = {} /\ r.address \in Locations
    BY <1>1, WithheldIs
  <2>2. s = WithNearRoads(r, zone, heard, ways, answering, preliminary)
    BY <1>1 DEF Payload
  <2> HIDE DEF r, s, zone
  <2>3. EndsFit(r.place, r.ends)
    BY <2>1 DEF EndsFit
  <2>4. /\ Consistent(s)
        /\ s.place = r.place /\ s.ends = r.ends /\ s.pending = r.pending
        /\ s.address = r.address
        /\ preliminary /\ s.grid # NoZone => s.source \in {"parcel-zone", "verified-history"}
        /\ r.ends = {} => \A m \in s.routes : ~m.section
    BY <2>1, <2>2, <2>3, WithNearRoadsIs
  <2> QED
    BY <1>1, <2>1, <2>4 DEF FirstRound, s
<1>2. CASE ~(preliminary /\ Found(a) /\ ~Solid(a))
  <2> DEFINE r == Located(NoRecord, a, said)
             ends == IF Found(a) THEN a.ends ELSE {}
             zone == ZoneId(a)
  <2>1. DOMAIN r = Fields /\ r.place = a.place /\ r.ends = ends /\ ~r.pending
    BY LocatedIs
  <2>2. s = WithNearRoads(r, zone, heard, ways, answering, preliminary)
    BY <1>2 DEF Payload
  <2> HIDE DEF r, s, zone
  <2>3. EndsFit(r.place, r.ends)
    BY <2>1 DEF EndsFit
  <2>4. /\ Consistent(s)
        /\ s.place = r.place /\ s.ends = r.ends /\ s.pending = r.pending
        /\ s.address = r.address
        /\ preliminary /\ s.grid # NoZone => s.source \in {"parcel-zone", "verified-history"}
        /\ r.ends = {} => \A m \in s.routes : ~m.section
    BY <2>1, <2>2, <2>3, WithNearRoadsIs
  <2>5. CASE Found(a)
    BY <1>2, <2>1, <2>4, <2>5 DEF FirstRound, s
  <2>6. CASE ~Found(a)
    <3>1. s.place = Nowhere /\ s.ends = {} /\ ~s.pending
      BY <2>1, <2>4, <2>6 DEF Found
    <3> QED
      BY <2>1, <2>4, <2>6, <3>1 DEF FirstRound, s
  <2> QED
    BY <2>5, <2>6
<1> QED
  BY <1>1, <1>2

LEMMA BuiltIs ==
    ASSUME loaded \in BOOLEAN, NEW heard \in Hearings, NEW ways \in Ways, NEW answering,
           NEW preliminary \in BOOLEAN
    PROVE  LET s == BuildDispatchPayload(heard, ways, answering, preliminary)
           IN  Consistent(s) /\ (preliminary => FirstRound(s, heard.candidates))
<1> DEFINE tries == PayloadTries(heard, ways, preliminary)
           t == tries[Best(tries)]
           a == Geocoded[t]
           said == t.said
           s == BuildDispatchPayload(heard, ways, answering, preliminary)
<1>1. CASE tries = <<>>
  <2>1. s = Payload(NoAnswer, UnknownLocation, heard, ways, answering, preliminary)
    BY <1>1 DEF BuildDispatchPayload
  <2> QED
    BY <2>1, NothingFound, PayloadIs
<1>2. CASE tries # <<>>
  <2>1. s = Payload(a, said, heard, ways, answering, preliminary)
    BY <1>2 DEF BuildDispatchPayload, PayloadOf
  <2>2. t \in Attempts /\ \E i \in DOMAIN heard.candidates : said = heard.candidates[i].said
    <3> HIDE DEF said
    <3>1. t \in Asked /\ \E i \in DOMAIN heard.candidates : t.said = heard.candidates[i].said
      BY <1>2, PayloadTriesAre
    <3> HIDE DEF t
    <3> QED
      BY <3>1 DEF Asked, said
  <2> HIDE DEF t
  <2>3. Found(a) => EndsFit(a.place, a.ends) /\ Requested(a, said) \in Locations
    BY <2>2, AnswersAreWhole, RequestedIsALocation
  <2>4. Found(a) /\ Solid(a) => a.ends = {} /\ ShownAt(a.place, said)
    BY <2>2, SolidIsHeard
  <2> HIDE DEF a, said, s
  <2> QED
    BY <2>1, <2>2, <2>3, <2>4, PayloadIs DEF s
<1> QED
  BY <1>1, <1>2

-----------------------------------------------------------------------------
(***************************************************************************)
(* What phase 2 makes of the record.                                       *)
(***************************************************************************)

LEMMA SetAsSequence ==
    ASSUME NEW S, IsFiniteSet(S)
    PROVE  SetToSeq(S) \in Seq(S)
<1>1. PICK n \in Nat : ExistsBijection(1..n, S)
  BY FS_NatBijection
<1>2. PICK f : f \in Bijection(1..n, S)
  BY <1>1 DEF ExistsBijection
<1>3. Cardinality(S) = n
  BY <1>1, FS_CountingElements
<1>4. f \in [1..n -> S] /\ IsInjective(f)
  BY <1>2 DEF Bijection, Injection, IsInjective
<1>5. SetToSeq(S) \in [1..n -> S]
  BY <1>3, <1>4 DEF SetToSeq
<1> QED
  BY <1>5

LEMMA MergedAreUnits ==
    ASSUME NEW first, first \in Seq(Range(first)), NEW second, second \in Seq(Range(second))
    PROVE  MergeUnits(first, second) \in Seq(Range(MergeUnits(first, second)))
<1> DEFINE new == Range(second) \ Range(first)
           tail == SetToSeq(new)
<1>1. IsFiniteSet(new)
  BY FiniteRange, FS_Subset
<1>2. tail \in Seq(new)
  <2> HIDE DEF new
  <2> QED
    BY <1>1, SetAsSequence
<1>3. MergeUnits(first, second) = first \o tail
  BY DEF MergeUnits
<1> DEFINE units == first \o tail
           all == Range(first) \cup new
<1>4. units \in Seq(all)
  <2> HIDE DEF tail
  <2>1. first \in Seq(all) /\ tail \in Seq(all)
    BY <1>2
  <2> QED
    BY <2>1
<1>5. units \in Seq(Range(units))
  <2> HIDE DEF units, all
  <2>1. units \in [1..Len(units) -> Range(units)] /\ Len(units) \in Nat
    BY <1>4 DEF Range
  <2> QED
    BY <2>1
<1> QED
  BY <1>3, <1>5

LEMMA HeadIsOne ==
    ASSUME NEW cs \in Wordings, cs # <<>>
    PROVE  Head(cs) \in Candidates
<1>1. cs \in Seq(Range(cs)) /\ Range(cs) \subseteq Candidates
  BY WordingsAre
<1> QED
  BY <1>1

LEMMA CoalescedAreRoads ==
    ASSUME NEW cs \in Wordings, NEW p1 \in Wordings, p1 # <<>>
    PROVE  CoalescedXStreets(cs, p1) \in NearRoads \X NearRoads
<1> DEFINE xs == CoalescedXStreets(cs, p1)
<1>1. xs = [k \in 1..2 |-> Or(XStreets(cs)[k], NoWords, Head(p1).xs[k])]
  BY DEF CoalescedXStreets
<1>2. \A k \in 1..2 : XStreets(cs)[k] \in NearRoads /\ Head(p1).xs[k] \in NearRoads
  BY HearingSays, HeadIsOne, CandidatesAre
<1> HIDE DEF xs
<1>3. xs = [k \in 1..2 |-> xs[k]] /\ xs[1] \in NearRoads /\ xs[2] \in NearRoads
  BY <1>1, <1>2 DEF Or
<1>4. xs \in NearRoads \X NearRoads
  BY <1>3, PairIsAProduct
<1> QED
  BY <1>4 DEF xs

LEMMA SpokenIs ==
    ASSUME NEW cs, NEW place, NEW down
    PROVE  LET g == GridAfterPhase2(cs, place, down)
           IN  /\ g[2] = "none" <=> g[1] = NoZone
               /\ place = Nowhere => g[1] = Grid(cs)
<1> DEFINE g == GridAfterPhase2(cs, place, down)
           spoken == Grid(cs)
           point == GetMapGridForPoint(place, down)
<1>1. g = IF spoken # NoZone THEN <<spoken, "announced">>
          ELSE IF point = NoZone THEN <<NoZone, "none">> ELSE <<point, "point-zone">>
  BY DEF GridAfterPhase2, SpokenGrid, Sourced
<1>2. place = Nowhere => point = NoZone
  BY DEF GetMapGridForPoint
<1> HIDE DEF g, spoken, point
<1>3. /\ g[2] = "none" <=> g[1] = NoZone
      /\ place = Nowhere => g[1] = spoken
  BY <1>1, <1>2
<1> QED
  BY <1>3 DEF g, spoken

\* A location withheld is asked for again, another location without any hint.
LEMMA PendingIsAsked ==
    ASSUME loaded \in BOOLEAN, NEW r, r.place = Nowhere, r.address \in Locations,
           NEW p1 \in Wordings, p1 # <<>>, NEW cs \in Wordings, NEW ways \in Ways
    PROVE  PendingTry(r, p1, cs, ways) \in Asked
<1> DEFINE g == GridAfterPhase2(cs, r.place, ways.down)[1]
<1>1. g \in Grids
  <2>1. g = Grid(cs)
    BY SpokenIs
  <2> QED
    BY <2>1, HearingSays
<1>2. PendingTry(r, p1, cs, ways) = Attempted(r.address, g, CoalescedXStreets(cs, p1), ways)
  BY DEF PendingTry
<1> HIDE DEF g
<1> QED
  BY <1>1, <1>2, CoalescedAreRoads, AttemptIsAsked

LEMMA CorrectionIsAsked ==
    ASSUME loaded \in BOOLEAN, NEW cs \in Wordings, cs # <<>>, NEW ways \in Ways
    PROVE  CorrectionTry(cs, ways) \in Asked
<1> DEFINE xs == <<NoWords, NoWords>>
           grid == NoZone
<1>1. NoWords \in NearRoads /\ grid \in Grids
  <2>1. NoWords \in {NoWords} /\ grid \in {NoZone}
    OBVIOUS
  <2> QED
    BY <2>1 DEF NearRoads, Grids
<1>2. xs \in NearRoads \X NearRoads
  BY <1>1
<1>3. CorrectionTry(cs, ways) = Attempted(Head(cs).said, grid, xs, ways)
  BY DEF CorrectionTry
<1>4. Head(cs).said \in Locations
  BY HeadIsOne, CandidatesAre
<1> HIDE DEF xs, grid
<1> QED
  BY <1>1, <1>2, <1>3, <1>4, AttemptIsAsked

\* The grid phase 1 worked out is what the grid heard is compared with.
Compared(s, r) == s.derived = Derived(r) /\ MismatchFlagged(s)

LEMMA RefilledIs ==
    ASSUME NEW r, DOMAIN r = Fields, Measured(r.routes), \A m \in r.routes : ~m.section,
           NEW p1 \in Wordings, p1 # <<>>, NEW heard \in Hearings, heard.candidates # <<>>,
           NEW near, NEW grid, grid[2] = "none" <=> grid[1] = NoZone,
           NEW ends, EndsFit(r.place, ends), NEW answering
    PROVE  LET s == Refilled(r, near, p1, heard, grid, ends, answering)
           IN  Consistent(s) /\ Compared(s, r)
<1> DEFINE cs == heard.candidates
           units == MergeUnits(Head(p1).units, Head(cs).units)
           g == grid[1]
           source == grid[2]
           derived == Derived(r)
           channel == Or(Channel(cs), NoChannel, Head(p1).channel)
           unit == Or(Unit(cs), NoUnit, Or(Head(p1).unit, NoUnit, r.unit))
           incident == heard.incident
           xs == near.shown
           routes == RefreshRoutingMetrics(r.routes, units, r.place, ends, answering)
           response == Head(cs).response
           q == [r EXCEPT !.grid = g, !.source = source, !.derived = derived,
                          !.channel = channel, !.unit = unit, !.units = units,
                          !.incident = incident, !.xs = xs, !.pending = FALSE,
                          !.verify = FALSE, !.routes = routes]
           flags == ComputeReviewFlags(q, near, response)
           s == Refilled(r, near, p1, heard, grid, ends, answering)
<1>1. cs \in Wordings
  BY DEF Wordings
<1>2. units \in Seq(Range(units))
  BY <1>1, HeadIsOne, CandidatesAre, MergedAreUnits
<1>3. /\ Measured(routes) /\ Follow(routes, r.place)
      /\ r.place # Nowhere /\ units # <<>> => RoutedUnits(routes) = Range(units)
      /\ r.place = Nowhere => routes = {}
  <2> DEFINE existing == r.routes
             place == r.place
  <2>1. routes = RefreshRoutingMetrics(existing, units, place, ends, answering)
    OBVIOUS
  <2>2. EndsFit(place, ends) /\ Measured(existing) /\ \A m \in existing : ~m.section
    OBVIOUS
  <2> HIDE DEF units, routes, existing, place
  <2>3. /\ Measured(routes) /\ Follow(routes, place)
        /\ place # Nowhere /\ units # <<>> => RoutedUnits(routes) = Range(units)
        /\ place = Nowhere => routes = {}
    BY <1>2, <2>1, <2>2, RoutesRefreshed
  <2> QED
    BY <2>3 DEF place
<1>4. s = [q EXCEPT !.flags = flags]
  <2>1. s = Reflagged(q, r, near, response)
    BY FieldsAre DEF Refilled
  <2> QED
    BY <2>1 DEF Reflagged
<1> HIDE DEF s, units, g, source, derived, channel, unit, incident, xs, routes, response, cs
<1>5. /\ DOMAIN q = Fields
      /\ q.place = r.place /\ q.note = r.note /\ q.kind = r.kind /\ q.derived = derived
      /\ q.grid = g /\ q.source = source /\ q.units = units /\ q.routes = routes
  BY FieldsAre
<1>6. flags = ComputeReviewFlags(q, near, response)
  OBVIOUS
<1> HIDE DEF q, flags
<1>7. /\ DOMAIN s = Fields
      /\ s.place = q.place /\ s.note = q.note /\ s.kind = q.kind /\ s.derived = q.derived
      /\ s.grid = q.grid /\ s.source = q.source /\ s.units = q.units /\ s.routes = q.routes
      /\ s.flags = flags
  BY <1>4, <1>5, FieldsAre
<1>8. FlagsHold(s) /\ MismatchFlagged(s)
  BY <1>3, <1>5, <1>6, <1>7, FlaggedLast
<1>9. Consistent(s)
  BY <1>3, <1>5, <1>7, <1>8 DEF Consistent, g, source
<1>10. Compared(s, r)
  BY <1>5, <1>7, <1>8 DEF Compared, derived
<1> QED
  BY <1>9, <1>10 DEF s

LEMMA RefreshedIs ==
    ASSUME NEW r, DOMAIN r = Fields, Measured(r.routes), \A m \in r.routes : ~m.section,
           NEW p1 \in Wordings, p1 # <<>>, NEW heard \in Hearings, heard.candidates # <<>>,
           NEW grid, grid[2] = "none" <=> grid[1] = NoZone,
           NEW ends, EndsFit(r.place, ends), NEW ways, NEW answering
    PROVE  LET s == Refreshed(r, p1, heard, grid, ends, ways, answering)
           IN  Consistent(s) /\ Compared(s, r)
<1> DEFINE near == ApplyNearRoads(CoalescedXStreets(heard.candidates, p1), r.place, grid[1],
                                  ways.down)
<1>1. Refreshed(r, p1, heard, grid, ends, ways, answering)
      = Refilled(r, near, p1, heard, grid, ends, answering)
  BY DEF Refreshed
<1> HIDE DEF near
<1> QED
  BY <1>1, RefilledIs

\* A record whose place another answer takes.
LEMMA PlacedIs ==
    ASSUME NEW r, DOMAIN r = Fields, NEW a, Found(a), NEW said
    PROVE  LET s == Placed(r, a, said)
           IN  /\ DOMAIN s = Fields /\ s.place = a.place /\ s.ends = a.ends
               /\ s.routes = r.routes /\ s.grid = r.grid /\ s.source = r.source
<1> DEFINE address == ShownAddress(a, said)
           place == a.place
           note == a.note
           kind == LocationType(a)
           ends == a.ends
           arrival == Arrival(a)
           rung == a.rung
           stays == r.arrival
           q == [r EXCEPT !.address = address, !.place = place, !.note = note, !.kind = kind,
                          !.ends = ends, !.arrival = arrival, !.rung = rung]
<1>1. Placed(r, a, said) = [q EXCEPT !.arrival = stays]
  BY DEF Placed, Located
<1> HIDE DEF address, place, note, kind, ends, arrival, rung, stays
<1>2. /\ DOMAIN q = Fields /\ q.place = place /\ q.ends = ends
      /\ q.routes = r.routes /\ q.grid = r.grid /\ q.source = r.source
  BY FieldsAre
<1> HIDE DEF q
<1>3. LET s == Placed(r, a, said)
      IN  /\ DOMAIN s = Fields /\ s.place = place /\ s.ends = ends
          /\ s.routes = r.routes /\ s.grid = r.grid /\ s.source = r.source
  BY <1>1, <1>2, FieldsAre
<1> QED
  BY <1>3 DEF place, ends

LEMMA MovedIs ==
    ASSUME NEW r, DOMAIN r = Fields, NEW a, NEW said
    PROVE  LET s == Moved(r, a, said)
           IN  /\ DOMAIN s = Fields /\ s.place = a.place
               /\ s.routes = r.routes /\ s.grid = r.grid /\ s.source = r.source
<1> DEFINE address == ShownAddress(a, said)
           place == a.place
           rung == a.rung
<1>1. Moved(r, a, said) = [r EXCEPT !.address = address, !.place = place, !.rung = rung]
  BY DEF Moved
<1> HIDE DEF address, place, rung
<1>2. LET s == Moved(r, a, said)
      IN  /\ DOMAIN s = Fields /\ s.place = place
          /\ s.routes = r.routes /\ s.grid = r.grid /\ s.source = r.source
  BY <1>1, FieldsAre
<1> QED
  BY <1>2 DEF place

LEMMA MatchedIs ==
    ASSUME loaded \in BOOLEAN, NEW r, Consistent(r), NEW p1 \in Wordings, p1 # <<>>,
           FirstRound(r, p1), NEW heard \in Hearings, heard.candidates # <<>>,
           NEW ways \in Ways, NEW answering
    PROVE  LET s == Matched(r, p1, heard, ways, answering)
           IN  Consistent(s) /\ s.derived = Derived(r) /\ MismatchFlagged(s)
<1> DEFINE cs == heard.candidates
           t == PendingTry(r, p1, cs, ways)
           a == Geocoded[t]
           g == GridAfterPhase2(cs, r.place, ways.down)
           q == IF r.pending THEN Placed(r, a, t.said) ELSE r
           s == Matched(r, p1, heard, ways, answering)
<1>1. s = Refreshed(q, p1, heard, g, q.ends, ways, answering)
  BY DEF Matched, MatchedAt
<1>2. g[2] = "none" <=> g[1] = NoZone
  BY SpokenIs
<1>3. DOMAIN r = Fields /\ Measured(r.routes) /\ r.ends = {} /\ \A m \in r.routes : ~m.section
  BY DEF Consistent, FirstRound
<1>4. /\ DOMAIN q = Fields /\ EndsFit(q.place, q.ends)
      /\ q.routes = r.routes /\ q.grid = r.grid /\ q.source = r.source
  <2>1. CASE r.pending /\ Found(a)
    <3>1. r.place = Nowhere /\ r.address \in Locations /\ cs \in Wordings
      BY <2>1 DEF FirstRound, Wordings
    <3>2. t \in Attempts
      <4> HIDE DEF cs
      <4> QED
        BY <3>1, PendingIsAsked DEF Asked
    <3> DEFINE said == t.said
    <3> HIDE DEF t
    <3>3. EndsFit(a.place, a.ends)
      BY <2>1, <3>2, AnswersAreWhole
    <3> HIDE DEF a, said
    <3>4. LET z == Placed(r, a, said)
          IN  /\ DOMAIN z = Fields /\ z.place = a.place /\ z.ends = a.ends
              /\ z.routes = r.routes /\ z.grid = r.grid /\ z.source = r.source
      BY <1>3, <2>1, PlacedIs
    <3>5. q = Placed(r, a, said)
      BY <2>1 DEF said
    <3> HIDE DEF q
    <3> QED
      BY <3>3, <3>4, <3>5
  <2>2. CASE ~(r.pending /\ Found(a))
    <3>1. q = r
      BY <2>2 DEF Placed
    <3> HIDE DEF q
    <3> QED
      BY <1>3, <3>1 DEF EndsFit
  <2> QED
    BY <2>1, <2>2
<1> HIDE DEF q, g, s
<1>5. Consistent(s) /\ Compared(s, q)
  <2> DEFINE ends == q.ends
  <2>1. EndsFit(q.place, ends) /\ s = Refreshed(q, p1, heard, g, ends, ways, answering)
    BY <1>1, <1>4
  <2> HIDE DEF ends
  <2> QED
    BY <1>2, <1>3, <1>4, <2>1, RefreshedIs
<1>6. Derived(q) = Derived(r)
  BY <1>4 DEF Derived
<1> QED
  BY <1>5, <1>6 DEF Compared, s

LEMMA CorrectedIs ==
    ASSUME loaded \in BOOLEAN, NEW r, Consistent(r), NEW p1 \in Wordings, p1 # <<>>,
           FirstRound(r, p1), NEW heard \in Hearings, heard.candidates # <<>>,
           NEW ways \in Ways, NEW answering, Found(Geocoded[CorrectionTry(heard.candidates, ways)])
    PROVE  LET s == Corrected(r, p1, heard, ways, answering)
           IN  Consistent(s) /\ s.derived = Derived(r) /\ MismatchFlagged(s)
<1> DEFINE cs == heard.candidates
           t == CorrectionTry(cs, ways)
           a == Geocoded[t]
           said == Head(cs).said
           g == GridAfterPhase2(cs, a.place, ways.down)
           q == Moved(r, a, said)
           ends == a.ends
           s == Corrected(r, p1, heard, ways, answering)
<1>1. s = Refreshed(q, p1, heard, g, ends, ways, answering)
  BY DEF Corrected, CorrectedTo
<1>2. g[2] = "none" <=> g[1] = NoZone
  BY SpokenIs
<1>3. DOMAIN r = Fields /\ Measured(r.routes) /\ \A m \in r.routes : ~m.section
  BY DEF Consistent, FirstRound
<1>4. EndsFit(a.place, ends)
  <2>1. cs \in Wordings
    BY DEF Wordings
  <2>2. t \in Attempts
    BY <2>1, CorrectionIsAsked DEF Asked
  <2> HIDE DEF t
  <2>3. Found(a)
    BY DEF t
  <2> QED
    BY <2>2, <2>3, AnswersAreWhole
<1> HIDE DEF a, said, ends
<1>5. /\ DOMAIN q = Fields /\ q.place = a.place
      /\ q.routes = r.routes /\ q.grid = r.grid /\ q.source = r.source
  BY <1>3, MovedIs
<1> HIDE DEF q, g, s
<1>6. Consistent(s) /\ Compared(s, q)
  <2>1. EndsFit(q.place, ends)
    BY <1>4, <1>5
  <2> QED
    BY <1>1, <1>2, <1>3, <1>5, <2>1, RefreshedIs
<1>7. Derived(q) = Derived(r)
  BY <1>5 DEF Derived
<1> QED
  BY <1>6, <1>7 DEF Compared, s

-----------------------------------------------------------------------------
(***************************************************************************)
(* The call, phase by phase.                                               *)
(***************************************************************************)

\* Nothing is known of the call.
Unheard ==
    stage = "hearing" /\ path = "none" /\ session = NoSession /\ record = NoRecord

\* Phase 1 has shown what it was sure of.
FirstShown ==
    /\ stage = "shown" /\ path = "none"
    /\ session \in Wordings /\ session # NoSession
    /\ Consistent(record) /\ FirstRound(record, session)

LastShown ==
    /\ stage = "final" /\ path \in {"single", "match", "corrected", "kept"}
    /\ session = NoSession <=> path = "single"
    /\ Consistent(record)

\* The inductive invariant.
CallInv ==
    /\ loaded \in BOOLEAN
    /\ attempts \subseteq Asked
    /\ Unheard \/ FirstShown \/ LastShown

LEMMA CallInit == Init => CallInv
  BY DEF Init, CallInv, Unheard

\* Each of the actions, with what a step of it says.
LEMMA CallActions ==
    ASSUME Next
    PROVE  \E ways \in Ways, answering \in SUBSET Range(Routers), heard \in Hearings :
               \/ Phase1(heard, ways, answering)
               \/ Phase2Single(heard, ways, answering)
               \/ Phase2Match(heard, ways, answering)
               \/ Phase2Correct(heard, ways, answering)
               \/ Phase2Keep(heard, ways, answering)
  BY DEF Next, Hearings

LEMMA Phase1Shows ==
    ASSUME CallInv, NEW heard \in Hearings, NEW ways \in Ways, NEW answering,
           Phase1(heard, ways, answering)
    PROVE  CallInv'
<1> DEFINE first == TRUE
           cs == heard.candidates
<1>1. cs \in Wordings /\ cs # <<>> /\ first \in BOOLEAN /\ loaded \in BOOLEAN
  BY DEF Wordings, Phase1, CallInv
<1>2. /\ stage' = "shown" /\ path' = path /\ loaded' = loaded /\ session' = cs
      /\ record' = BuildDispatchPayload(heard, ways, answering, first)
      /\ attempts' = Range(PayloadTries(heard, ways, first))
      /\ stage = "hearing"
  BY DEF Phase1
<1> HIDE DEF first
<1>3. Consistent(record') /\ (first => FirstRound(record', cs))
  BY <1>1, <1>2, BuiltIs
<1>4. Range(PayloadTries(heard, ways, first)) \subseteq Asked
  BY <1>1, PayloadTriesAre
<1> HIDE DEF cs
<1>5. path = "none"
  BY <1>2 DEF CallInv, Unheard, FirstShown, LastShown
<1>6. Asked' = Asked
  BY <1>2 DEF Asked
<1>7. FirstShown'
  BY <1>1, <1>2, <1>3, <1>5 DEF FirstShown, first, NoSession
<1> QED
  BY <1>1, <1>2, <1>4, <1>6, <1>7 DEF CallInv

LEMMA SingleSettles ==
    ASSUME CallInv, NEW heard \in Hearings, NEW ways \in Ways, NEW answering,
           Phase2Single(heard, ways, answering)
    PROVE  CallInv'
<1> DEFINE first == FALSE
<1>1. first \in BOOLEAN /\ loaded \in BOOLEAN
  BY DEF CallInv
<1>2. /\ stage' = "final" /\ path' = "single" /\ loaded' = loaded /\ session' = session
      /\ record' = BuildDispatchPayload(heard, ways, answering, first)
      /\ attempts' = Range(PayloadTries(heard, ways, first))
      /\ stage = "hearing"
  BY DEF Phase2Single, Finalize
<1> HIDE DEF first
<1>3. Consistent(record')
  BY <1>1, <1>2, BuiltIs
<1>4. Range(PayloadTries(heard, ways, first)) \subseteq Asked
  BY <1>1, PayloadTriesAre
<1>5. session = NoSession
  BY <1>2 DEF CallInv, Unheard, FirstShown, LastShown
<1>6. Asked' = Asked
  BY <1>2 DEF Asked
<1>7. LastShown'
  BY <1>2, <1>3, <1>5 DEF LastShown
<1> QED
  BY <1>1, <1>2, <1>4, <1>6, <1>7 DEF CallInv

\* What phase 2 has to go on when phase 1 has shown a record.
LEMMA ShownIsKept ==
    ASSUME CallInv, stage = "shown"
    PROVE  FirstShown /\ session # <<>>
  BY DEF CallInv, Unheard, FirstShown, LastShown, NoSession

LEMMA MatchSettles ==
    ASSUME CallInv, NEW heard \in Hearings, NEW ways \in Ways, NEW answering,
           Phase2Match(heard, ways, answering)
    PROVE  CallInv' /\ record'.derived = Derived(record) /\ MismatchFlagged(record')
<1> DEFINE cs == heard.candidates
           t == PendingTry(record, session, cs, ways)
<1>1. /\ stage' = "final" /\ path' = "match" /\ loaded' = loaded /\ session' = session
      /\ record' = Matched(record, session, heard, ways, answering)
      /\ attempts' = IF record.pending THEN {t} ELSE attempts
      /\ stage = "shown" /\ heard.candidates # <<>>
  BY DEF Phase2Match, Finalize, SameLocation
<1>2. FirstShown /\ session # <<>> /\ loaded \in BOOLEAN /\ attempts \subseteq Asked
  BY <1>1, ShownIsKept DEF CallInv
<1>3. cs \in Wordings
  BY DEF Wordings
<1>4. Consistent(record) /\ FirstRound(record, session) /\ session \in Wordings
  BY <1>2 DEF FirstShown
<1>5. LET s == Matched(record, session, heard, ways, answering)
      IN  Consistent(s) /\ s.derived = Derived(record) /\ MismatchFlagged(s)
  BY <1>1, <1>2, <1>4, MatchedIs
<1>6. attempts' \subseteq Asked
  <2>1. ASSUME record.pending PROVE t \in Asked
    <3>1. record.place = Nowhere /\ record.address \in Locations
      BY <1>4, <2>1 DEF FirstRound
    <3> HIDE DEF cs
    <3> QED
      BY <1>2, <1>3, <1>4, <3>1, PendingIsAsked
  <2> HIDE DEF t
  <2> QED
    BY <1>1, <1>2, <2>1
<1>7. Asked' = Asked
  BY <1>1 DEF Asked
<1>8. LastShown'
  BY <1>1, <1>2, <1>5 DEF LastShown, NoSession
<1> QED
  BY <1>1, <1>2, <1>5, <1>6, <1>7, <1>8 DEF CallInv

LEMMA CorrectSettles ==
    ASSUME CallInv, NEW heard \in Hearings, NEW ways \in Ways, NEW answering,
           Phase2Correct(heard, ways, answering)
    PROVE  CallInv' /\ record'.derived = Derived(record) /\ MismatchFlagged(record')
<1> DEFINE cs == heard.candidates
           t == CorrectionTry(cs, ways)
<1>1. /\ stage' = "final" /\ path' = "corrected" /\ loaded' = loaded /\ session' = session
      /\ record' = Corrected(record, session, heard, ways, answering)
      /\ attempts' = {t}
      /\ stage = "shown" /\ cs # <<>> /\ Found(Geocoded[t])
  BY DEF Phase2Correct, Finalize
<1>2. FirstShown /\ session # <<>> /\ loaded \in BOOLEAN
  BY <1>1, ShownIsKept DEF CallInv
<1>3. cs \in Wordings
  BY DEF Wordings
<1>4. Consistent(record) /\ FirstRound(record, session) /\ session \in Wordings
  BY <1>2 DEF FirstShown
<1>5. LET s == Corrected(record, session, heard, ways, answering)
      IN  Consistent(s) /\ s.derived = Derived(record) /\ MismatchFlagged(s)
  BY <1>1, <1>2, <1>4, CorrectedIs
<1>6. attempts' \subseteq Asked
  <2> HIDE DEF cs
  <2>1. t \in Asked
    BY <1>1, <1>2, <1>3, CorrectionIsAsked
  <2> QED
    BY <1>1, <2>1
<1>7. Asked' = Asked
  BY <1>1 DEF Asked
<1>8. LastShown'
  BY <1>1, <1>2, <1>5 DEF LastShown, NoSession
<1> QED
  BY <1>1, <1>2, <1>5, <1>6, <1>7, <1>8 DEF CallInv

LEMMA KeepSettles ==
    ASSUME CallInv, NEW heard \in Hearings, NEW ways \in Ways, NEW answering,
           Phase2Keep(heard, ways, answering)
    PROVE  CallInv' /\ record'.grid = record.grid
<1> DEFINE verify == heard.candidates # <<>>
<1>1. /\ stage' = "final" /\ path' = "kept" /\ loaded' = loaded /\ session' = session
      /\ record' = [record EXCEPT !.verify = verify]
      /\ attempts' = attempts
      /\ stage = "shown"
  BY DEF Phase2Keep, Finalize
<1>2. FirstShown /\ session # <<>> /\ loaded \in BOOLEAN /\ attempts \subseteq Asked
  BY <1>1, ShownIsKept DEF CallInv
<1>3. Consistent(record)
  BY <1>2 DEF FirstShown
<1> HIDE DEF verify
<1>4. /\ DOMAIN record' = Fields
      /\ record'.place = record.place /\ record'.note = record.note /\ record'.kind = record.kind
      /\ record'.grid = record.grid /\ record'.source = record.source
      /\ record'.units = record.units /\ record'.routes = record.routes
      /\ record'.flags = record.flags
  BY <1>1, <1>3, FieldsAre DEF Consistent
<1>5. Consistent(record')
  BY <1>3, <1>4 DEF Consistent, FlagsHold
<1>6. Asked' = Asked
  BY <1>1 DEF Asked
<1>7. LastShown'
  BY <1>1, <1>2, <1>5 DEF LastShown, NoSession
<1> QED
  BY <1>1, <1>2, <1>4, <1>6, <1>7 DEF CallInv

\* A grid that was shown and is not the one shown next.
GridChanges ==
    /\ stage = "shown" /\ ~Blank(record.grid) /\ ~Blank(record'.grid)
    /\ record'.grid # record.grid

LEMMA CallNext ==
    ASSUME CallInv, [Next]_vars
    PROVE  CallInv' /\ (GridChanges => "GRID_MISMATCH" \in record'.flags)
<1>1. CASE Next
  <2>1. PICK ways \in Ways, answering \in SUBSET Range(Routers), heard \in Hearings :
             \/ Phase1(heard, ways, answering)
             \/ Phase2Single(heard, ways, answering)
             \/ Phase2Match(heard, ways, answering)
             \/ Phase2Correct(heard, ways, answering)
             \/ Phase2Keep(heard, ways, answering)
    BY <1>1, CallActions
  <2>2. CASE Phase1(heard, ways, answering)
    <3>1. ~GridChanges
      BY <2>2 DEF Phase1, GridChanges
    <3> QED
      BY <2>2, <3>1, Phase1Shows
  <2>3. CASE Phase2Single(heard, ways, answering)
    <3>1. ~GridChanges
      BY <2>3 DEF Phase2Single, GridChanges
    <3> QED
      BY <2>3, <3>1, SingleSettles
  <2>4. ASSUME record'.derived = Derived(record), MismatchFlagged(record'), GridChanges
        PROVE  "GRID_MISMATCH" \in record'.flags
    <3>1. record.grid # NoZone /\ FirstRound(record, session)
      BY <2>4, ShownIsKept DEF GridChanges, Blank, FirstShown
    <3>2. Derived(record) = record.grid
      BY <3>1 DEF FirstRound, Derived
    <3> QED
      BY <2>4, <3>2 DEF MismatchFlagged, GridChanges
  <2>5. CASE Phase2Match(heard, ways, answering)
    BY <2>4, <2>5, MatchSettles
  <2>6. CASE Phase2Correct(heard, ways, answering)
    BY <2>4, <2>6, CorrectSettles
  <2>7. CASE Phase2Keep(heard, ways, answering)
    BY <2>7, KeepSettles DEF GridChanges
  <2> QED
    BY <2>1, <2>2, <2>3, <2>5, <2>6, <2>7
<1>2. CASE UNCHANGED vars
  <2>1. CallInv' = CallInv
    BY <1>2 DEF vars, CallInv, Unheard, FirstShown, LastShown, Asked
  <2> QED
    BY <1>2, <2>1 DEF vars, GridChanges
<1> QED
  BY <1>1, <1>2

LEMMA CallInvHolds == Spec => []CallInv
  BY CallInit, CallNext, PTL DEF Spec

\* Each stage of a call has the record and the session it needs, and everything
\* asked of the geocoder is a location heard or withheld, asked with the junctions
\* of this process (worker.py and phase2.py hand them on).
THEOREM CallTypeCorrect == Spec => []PlacementTypeOK
<1>1. CallInv => PlacementTypeOK
  <2> SUFFICES ASSUME CallInv PROVE PlacementTypeOK
    OBVIOUS
  <2>1. attempts \subseteq {t \in Attempts : t.ways.loaded = loaded}
    BY DEF CallInv, Asked
  <2>2. CASE Unheard
    <3>1. /\ record.place = Nowhere /\ record.routes = {}
          /\ record.source = "none" /\ record.grid = NoZone
      BY <2>2 DEF Unheard, NoRecord
    <3> QED
      BY <2>1, <2>2, <3>1 DEF Unheard, PlacementTypeOK
  <2>3. CASE FirstShown
    BY <2>1, <2>3 DEF FirstShown, PlacementTypeOK, Consistent, Fields
  <2>4. CASE LastShown
    BY <2>1, <2>4 DEF LastShown, PlacementTypeOK, Consistent, Fields
  <2> QED
    BY <2>2, <2>3, <2>4 DEF CallInv
<1> QED
  BY <1>1, CallInvHolds, PTL

\* payload_builder.py:103-121 and phase2.py:227-230: what the kiosk shows as an
\* ETA is always one to the place the record shows, through corrections, matches
\* and a router that comes and goes; and no unit of a placed record is without.
THEOREM RoutesFollow == Spec => []RoutesFollowPlace
<1>1. CallInv => RoutesFollowPlace
  <2> SUFFICES ASSUME CallInv PROVE RoutesFollowPlace
    OBVIOUS
  <2>1. CASE Unheard
    <3>1. record.place = Nowhere /\ record.routes = {}
      BY <2>1 DEF Unheard, NoRecord
    <3> QED
      BY <3>1 DEF RoutesFollowPlace
  <2>2. CASE Consistent(record)
    BY <2>2 DEF Consistent, RoutesFollowPlace, RoutedUnits, Follow
  <2> QED
    BY <2>1, <2>2 DEF CallInv, FirstShown, LastShown
<1> QED
  BY <1>1, CallInvHolds, PTL

\* phase2.py:350-352: the flags of a published record are those of its last
\* place, grid, units and routes, never of the round before.
THEOREM FlagsFollow == Spec => []FlagsFollowRecord
<1>1. CallInv => FlagsFollowRecord
  <2> SUFFICES ASSUME CallInv, stage # "hearing" PROVE FlagsFollowRecord
    BY DEF FlagsFollowRecord
  <2>1. FlagsHold(record)
    BY DEF CallInv, Unheard, FirstShown, LastShown, Consistent
  <2> QED
    BY <2>1 DEF FlagsHold, FlagsFollowRecord
<1> QED
  BY <1>1, CallInvHolds, PTL

\* phase2.py:68-72: a grid shown in the first minute is not replaced by another
\* without a flag, whichever of the match and the correction replaces it.
THEOREM MismatchIsFlagged == Spec => GridChangeIsFlagged
<1>1. CallInv /\ [Next]_vars
      => [stage = "shown" /\ ~Blank(record.grid) /\ ~Blank(record'.grid)
            /\ record'.grid # record.grid => "GRID_MISMATCH" \in record'.flags]_vars
  BY CallNext DEF GridChanges
<1> QED
  BY <1>1, CallInvHolds, PTL DEF Spec, GridChangeIsFlagged

\* payload_builder.py:269-304 (Rule A): what phase 1 shows is a parcel at a number
\* it heard, or at a reading of it, or a junction of the two streets it heard.
THEOREM ShownWasHeard == Spec => []FirstShownWasHeard
<1>1. CallInv => FirstShownWasHeard
  <2> SUFFICES ASSUME CallInv, stage = "shown", record.place # Nowhere
               PROVE  \E i \in DOMAIN session :
            LET said == session[i].said
            IN  \/ \E p \in Parcels :
                      /\ record.place.kind = "parcel" /\ record.place.id = p.id
                      /\ p.house \in {said.house} \cup OverlongReadings(said.house)
                \/ \E j \in Junctions :
                      /\ record.place.kind = "junction" /\ record.place.id = j.id
                      /\ {Squash(w) : w \in j.pair} = {Squash(NormalizeStreetName(said.street)),
                                                      Squash(NormalizeStreetName(said.other))}
    BY DEF FirstShownWasHeard
  <2>1. PICK i \in DOMAIN session : ShownAt(record.place, session[i].said)
    BY ShownIsKept DEF FirstShown, FirstRound
  <2>2. CASE \E p \in Parcels :
                /\ record.place = Place("parcel", p.id, ArrivalPoint(p))
                /\ p.house \in {session[i].said.house} \cup OverlongReadings(session[i].said.house)
    BY <2>2, PlacesSay
  <2>3. CASE \E j \in Junctions :
                /\ record.place = Place("junction", j.id, NoPart)
                /\ Heard(j, session[i].said.street, session[i].said.other)
    BY <2>3, PlacesSay DEF Heard, SquashedPair
  <2> QED
    BY <2>1, <2>2, <2>3 DEF ShownAt
<1> QED
  BY <1>1, CallInvHolds, PTL

LEMMA QuietIsSure ==
    ASSUME NEW t \in Attempts, Found(Geocoded[t]), Geocoded[t].note = Silent
    PROVE  LET a == Geocoded[t]
           IN  \/ \E p \in Parcels :
                     /\ a.place.kind = "parcel" /\ a.place.id = p.id /\ p.house = t.said.house
                     /\ \A q \in Parcels :
                           q.house = p.house /\ ParcelStreet(q) # ParcelStreet(p) =>
                               LikeSaid(q, t) < LikeSaid(p, t) \/ ToldApart(p, q, t)
               \/ \E j \in Junctions :
                     /\ a.place.kind = "junction" /\ a.place.id = j.id
                     /\ {Squash(w) : w \in j.pair} =
                           {Squash(NormalizeStreetName(t.said.street)),
                            Squash(NormalizeStreetName(t.said.other))}
                     /\ t.grid # NoZone => t.grid \in j.touches \cup {j.zone}
<1> DEFINE a == Geocoded[t]
           said == ParseHouseAndStreet(t.said)
           heard == QueryStreet(said.raw, said.type)
           names == VerifiedXStreets(t.xs)
<1>1. said.house = t.said.house
  BY DEF ParseHouseAndStreet
<1>2. \A p \in Parcels : LikeSaid(p, t) = Likeness(heard, p)
  BY DEF LikeSaid, Likeness
<1>3. \A p, q \in Parcels :
          (\/ t.grid # NoZone /\ p.zone = t.grid /\ q.zone # t.grid
           \/ names # {} /\ FarFrom(p.id, names) < FarFrom(q.id, names)) => ToldApart(p, q, t)
  BY DEF ToldApart
<1>4. ASSUME NEW p \in Parcels, p.house = said.house, IsExact(a, p),
             Singled(p, said.house, heard, t.grid, names)
      PROVE  /\ a.place.kind = "parcel" /\ a.place.id = p.id /\ p.house = t.said.house
             /\ \A q \in Parcels :
                   q.house = p.house /\ ParcelStreet(q) # ParcelStreet(p) =>
                       LikeSaid(q, t) < LikeSaid(p, t) \/ ToldApart(p, q, t)
  <2>1. a.place.kind = "parcel" /\ a.place.id = p.id
    BY <1>4, PlacesSay DEF IsExact
  <2> HIDE DEF a, said, heard, names
  <2>2. ASSUME NEW q \in Parcels, q.house = p.house, ParcelStreet(q) # ParcelStreet(p)
        PROVE  LikeSaid(q, t) < LikeSaid(p, t) \/ ToldApart(p, q, t)
    BY <1>2, <1>3, <1>4, <2>2 DEF Singled
  <2> QED
    BY <1>1, <1>4, <2>1, <2>2
<1>5. ASSUME NEW j \in Junctions, Fits(a, j, t.said, t.grid)
      PROVE  /\ a.place.kind = "junction" /\ a.place.id = j.id
             /\ {Squash(w) : w \in j.pair} =
                   {Squash(NormalizeStreetName(t.said.street)),
                    Squash(NormalizeStreetName(t.said.other))}
             /\ t.grid # NoZone => t.grid \in j.touches \cup {j.zone}
  <2>1. a.place = Place("junction", j.id, NoPart)
    BY <1>5 DEF Fits, IsJunctionOf
  <2>2. a.place.kind = "junction" /\ a.place.id = j.id
    <3> HIDE DEF a
    <3> QED
      BY <2>1 DEF Place
  <2>3. a.note.kind # "near miss"
    BY DEF Silent
  <2>4. Heard(j, t.said.street, t.said.other)
    BY <1>5, <2>3 DEF Fits
  <2>5. t.grid # NoZone => t.grid \in Touched(j)
    BY <1>5 DEF Fits
  <2> QED
    BY <2>2, <2>4, <2>5 DEF Heard, SquashedPair, Touched
<1>6. \/ \E p \in Parcels : /\ p.house = said.house /\ IsExact(a, p)
                            /\ Singled(p, said.house, heard, t.grid, names)
      \/ \E j \in Junctions : Fits(a, j, t.said, t.grid)
  <2>1. a.note = Silent
    OBVIOUS
  <2> HIDE DEF heard, names, said
  <2>2. \/ /\ ~Paired(t.said)
           /\ CivicAnswer(a, said, t.grid, t.xs)
        \/ /\ Paired(t.said)
           /\ \/ Vague(a, "section", {"section"})
              \/ \E j \in Junctions : Fits(a, j, t.said, t.grid)
    BY GeocodedAnswers DEF said
  <2> HIDE DEF a
  <2> QED
    BY <2>1, <2>2 DEF CivicAnswer, Vague, IsReading, heard, names
<1> QED
  BY <1>4, <1>5, <1>6

\* address_resolver.py and intersection_resolver.py: an answer without a note is
\* the parcel of the very number, told from every other street at the number, or
\* a junction of the very streets in the grid heard, whatever queries failed.
THEOREM QuietIsNoGuess == Spec => []NoQuietGuess
<1>1. CallInv => NoQuietGuess
  <2> SUFFICES ASSUME CallInv PROVE NoQuietGuess
    OBVIOUS
  <2>1. \A t \in attempts : t \in Attempts
    BY DEF CallInv, Asked
  <2> QED
    BY <2>1, QuietIsSure DEF NoQuietGuess
<1> QED
  BY <1>1, CallInvHolds, PTL

-----------------------------------------------------------------------------
(***************************************************************************)
(* More said about a call.                                                 *)
(***************************************************************************)

NoRoads == <<NoWords, NoWords>>

LEMMA NoneVerified == VerifiedXStreets(NoRoads) = {}
<1> DEFINE Name(i) == StreetNameTokens(NormalizeStreetName(NoRoads[i]))
           named == {i \in DOMAIN NoRoads : NoRoads[i] # NoWords /\ Name(i) # NoWords}
<1>1. named = {}
  <2> HIDE DEF Name
  <2>1. \A i \in DOMAIN NoRoads : NoRoads[i] = NoWords
    BY DEF NoRoads
  <2> QED
    BY <2>1
<1>2. ~(Cardinality(named) >= 2)
  <2>1. Cardinality({}) = 0
    BY FS_EmptySet
  <2> HIDE DEF named
  <2> QED
    BY <1>1, <2>1
<1>3. VerifiedXStreets(NoRoads)
      = IF Cardinality(named) >= 2 /\ \A i \in named : Name(i) \in RoadNames
        THEN {Name(i) : i \in named} ELSE {}
  BY DEF VerifiedXStreets
<1> HIDE DEF named, Name
<1> QED
  BY <1>2, <1>3

\* Without hints nothing is narrowed, so a street that is the only one heard
\* stays the only one with them.
LEMMA ExactWithHints ==
    ASSUME NEW house, NEW raw, NEW type, NEW grid, NEW xs, NEW down,
           Found(ResolveExact(house, raw, type, NoZone, NoRoads, down))
    PROVE  Found(ResolveExact(house, raw, type, grid, xs, down))
<1> DEFINE heard == QueryStreet(raw, type)
           best == BestMatches(AtNumber(house), heard)
           plain == NarrowedMatches(best, NoZone, NoRoads, down)
           hinted == NarrowedMatches(best, grid, xs, down)
<1>1. /\ "exact" \notin down
      /\ ResolveExact(house, raw, type, NoZone, NoRoads, down) = FromMatches(plain, heard)
  BY NothingFound DEF ResolveExact, ExactAmong, AtNumber
<1>2. ResolveExact(house, raw, type, grid, xs, down) = FromMatches(hinted, heard)
  BY <1>1 DEF ResolveExact, ExactAmong, AtNumber
<1> HIDE DEF best, heard
<1>3. plain = best
  <2> DEFINE zone == NoZone
  <2>1. NarrowByMapGrid(best, zone) = best
    BY DEF NarrowByMapGrid
  <2>2. NarrowByXStreets(best, VerifiedXStreets(NoRoads), down) = best
    BY NoneVerified DEF NarrowByXStreets
  <2>3. plain = Narrowed(best, NarrowByMapGrid(best, zone), NoRoads, down)
    BY DEF NarrowedMatches
  <2> HIDE DEF plain, zone
  <2>4. plain = Narrowed(best, best, NoRoads, down)
    BY <2>1, <2>3
  <2> QED
    BY <2>2, <2>4 DEF Narrowed
<1>4. best # {} /\ ~Unresolved(best)
  <2> HIDE DEF plain
  <2> QED
    BY <1>1, <1>3, NothingFound DEF FromMatches
<1>5. hinted = best
  BY <1>4 DEF NarrowedMatches, Narrowed
<1> HIDE DEF plain, hinted
<1> QED
  BY <1>1, <1>2, <1>3, <1>5

\* A parcel found is a place.
LEMMA ParcelIsFound ==
    ASSUME NEW a, a.place.kind = "parcel"
    PROVE  Found(a)
  BY DEF Found, Nowhere, Place

LEMMA ReadingsWithHints ==
    ASSUME NEW said, said.house \in Seq(Digits), NEW grid, NEW xs, IsFiniteSet(DOMAIN xs),
           NEW down, NEW unread,
           Found(ResolveOverlongHouse(said, NoZone, NoRoads, down, unread))
    PROVE  Found(ResolveOverlongHouse(said, grid, xs, down, unread))
<1> DEFINE Plain(r) == ResolveReading(r, said, NoZone, NoRoads, down, unread)
           Answered(r) == ResolveReading(r, said, grid, xs, down, unread)
           hits == {r \in OverlongReadings(said.house) : Found(Answered(r))}
           first == FirstReading(hits)
           places == {Answered(r).place : r \in hits}
<1>1. PICK r \in OverlongReadings(said.house) : Found(Plain(r))
  <2> DEFINE zone == NoZone
             found == {q \in OverlongReadings(said.house) : Found(Plain(q))}
  <2>1. ResolveOverlongHouse(said, zone, NoRoads, down, unread)
        = IF found = {} THEN NoAnswer
          ELSE FromReadings(Plain(FirstReading(found)), {Plain(q).place : q \in found}, said)
    BY OverlongIs
  <2> HIDE DEF Plain
  <2> QED
    BY <2>1, NothingFound
<1>2. r # unread /\ Found(ResolveExact(r, said.raw, said.type, NoZone, NoRoads, down))
  BY <1>1, NothingFound DEF ResolveReading
<1>3. Found(Answered(r))
  BY <1>2, ExactWithHints DEF ResolveReading
<1>4. hits # {} /\ hits \in SUBSET Seq(Digits)
  BY <1>3, ReadingsAreDigits
<1>5. first \in hits
  <2> HIDE DEF hits
  <2> QED
    BY <1>4, FirstReadingIsOne
<1>6. Found(Answered(first))
  BY <1>5
<1>7. ResolveOverlongHouse(said, grid, xs, down, unread)
      = FromReadings(Answered(first), places, said)
  BY <1>4, OverlongIs
<1> HIDE DEF first, places
<1>8. Answered(first) = ResolveExact(first, said.raw, said.type, grid, xs, down)
  BY <1>6, NothingFound DEF ResolveReading
<1> HIDE DEF Answered
<1>9. PICK p \in Parcels : IsExact(Answered(first), p)
  BY <1>6, <1>8, ExactFinds
<1>10. IsReading(FromReadings(Answered(first), places, said), p)
  BY <1>9, FromReadingsSays
<1> DEFINE a == FromReadings(Answered(first), places, said)
<1> HIDE DEF a
<1>11. a.place.kind = "parcel"
  BY <1>10 DEF a, IsReading, Place
<1> QED
  BY <1>7, <1>11, ParcelIsFound DEF a

LEMMA NearestWithHints ==
    ASSUME NEW said, NEW xs, NEW down, Found(ResolveNearestCivic(said, NoRoads, down))
    PROVE  Found(ResolveNearestCivic(said, xs, down))
<1>1. PICK row, delta : ResolveNearestCivic(said, xs, down) = NearestAnswer(row, delta, said)
  BY NothingFound DEF ResolveNearestCivic, NearestOf
<1>2. NearestAnswer(row, delta, said).place.kind = "parcel"
  BY DEF NearestAnswer, Answer, NoAnswer, Place
<1> QED
  BY <1>1, <1>2, ParcelIsFound

\* The rungs that answer with a parcel, and the others.
LEMMA ParcelRungs ==
    ASSUME NEW p, p.house \in Seq(Digits), NEW grid, NEW xs, IsFiniteSet(DOMAIN xs), NEW ways,
           NEW k \in 1..8, Found(CivicRungs(p, grid, xs, ways)[k])
    PROVE  CivicRungs(p, grid, xs, ways)[k].place.kind = "parcel" <=> k \in {2, 3, 5}
<1> DEFINE rungs == CivicRungs(p, grid, xs, ways)
           down == ways.down
<1>1. CASE k = 1
  <2>1. rungs[1] = ResolveBlockMidpoint(p, down)
    BY <1>1, RungsAre, OnlyIfSays
  <2>2. Vague(rungs[1], "block", {"block"})
    BY <1>1, <2>1, MidpointFinds
  <2> QED
    BY <1>1, <2>2 DEF Vague
<1>2. CASE k = 2
  <2>1. rungs[2] = ResolveExact(p.house, p.raw, p.type, grid, xs, down)
    BY <1>2, RungsAre, OnlyIfSays
  <2>2. PICK q \in Parcels : IsExact(rungs[2], q)
    BY <1>2, <2>1, ExactFinds
  <2> HIDE DEF rungs
  <2>3. rungs[2].place.kind = "parcel"
    BY <2>2 DEF IsExact, Place
  <2> QED
    BY <1>2, <2>3 DEF rungs
<1>3. CASE k = 3
  <2>1. rungs[3] = ResolveOverlongHouse(p, grid, xs, down, ways.unread)
    BY <1>3, RungsAre, OnlyIfSays
  <2>2. PICK q \in Parcels : IsReading(rungs[3], q)
    BY <1>3, <2>1, OverlongFinds
  <2> HIDE DEF rungs
  <2>3. rungs[3].place.kind = "parcel"
    BY <2>2 DEF IsReading, Place
  <2> QED
    BY <1>3, <2>3 DEF rungs
<1>4. CASE k = 4
  <2>1. rungs[4] = ResolveBlock(p, down)
    BY <1>4, RungsAre, OnlyIfSays
  <2>2. Vague(rungs[4], "interpolate", {"segment"})
    BY <1>4, <2>1, BlockFinds
  <2> QED
    BY <1>4, <2>2 DEF Vague
<1>5. CASE k = 5
  <2>1. rungs[5] = ResolveNearestCivic(p, xs, down)
    BY <1>5, RungsAre, OnlyIfSays
  <2>2. Vague(rungs[5], "nearest", {"parcel"})
    BY <1>5, <2>1, NearestFinds
  <2> QED
    BY <1>5, <2>2 DEF Vague
<1>6. CASE k = 6
  <2>1. rungs[6] = ResolveXStreetNarrow(p, xs, down)
    BY <1>6, RungsAre, OnlyIfSays
  <2>2. Vague(rungs[6], "between", {"junction", "between"})
    BY <1>6, <2>1, BetweenFinds
  <2> QED
    BY <1>6, <2>2 DEF Vague
<1>7. CASE k = 7
  <2>1. Vague(rungs[7], "street", {"street"})
    BY <1>7, RungsAre, StreetFinds
  <2> QED
    BY <1>7, <2>1 DEF Vague
<1>8. CASE k = 8
  <2>1. Vague(rungs[8], "road", {"road"})
    BY <1>8, RungsAre, RoadFinds
  <2> QED
    BY <1>8, <2>1 DEF Vague
<1> QED
  BY <1>1, <1>2, <1>3, <1>4, <1>5, <1>6, <1>7, <1>8

LEMMA OnlyIfFound ==
    ASSUME NEW condition, NEW plain, NEW hinted, Found(plain) => Found(hinted),
           Found(OnlyIf(condition, plain))
    PROVE  Found(OnlyIf(condition, hinted))
  BY NothingFound DEF OnlyIf

\* Hints take no parcel away, and give none of the vaguer rungs before it one.
LEMMA RungsWithHints ==
    ASSUME NEW p, p.house \in Seq(Digits), NEW grid, NEW xs, IsFiniteSet(DOMAIN xs), NEW ways
    PROVE  LET plain == CivicRungs(p, NoZone, NoRoads, ways)
               hinted == CivicRungs(p, grid, xs, ways)
           IN  /\ \A k \in {2, 3, 5} : Found(plain[k]) => Found(hinted[k])
               /\ \A k \in {1, 4} : Found(hinted[k]) => Found(plain[k])
<1> DEFINE plain == CivicRungs(p, NoZone, NoRoads, ways)
           hinted == CivicRungs(p, grid, xs, ways)
           down == ways.down
<1>1. hinted[1] = plain[1] /\ hinted[4] = plain[4]
  BY RungsAre
<1>2. ASSUME Found(plain[2]) PROVE Found(hinted[2])
  <2> DEFINE condition == p.house # NoHouse
             e == ResolveExact(p.house, p.raw, p.type, NoZone, NoRoads, down)
             f == ResolveExact(p.house, p.raw, p.type, grid, xs, down)
  <2>1. Found(e) => Found(f)
    BY ExactWithHints
  <2>2. plain[2] = OnlyIf(condition, e) /\ hinted[2] = OnlyIf(condition, f)
    BY RungsAre
  <2> HIDE DEF plain, hinted, condition, e, f
  <2> QED
    BY <1>2, <2>1, <2>2, OnlyIfFound
<1>3. ASSUME Found(plain[3]) PROVE Found(hinted[3])
  <2> DEFINE condition == Len(p.house) >= 5
             unread == ways.unread
             e == ResolveOverlongHouse(p, NoZone, NoRoads, down, unread)
             f == ResolveOverlongHouse(p, grid, xs, down, unread)
  <2>1. Found(e) => Found(f)
    BY ReadingsWithHints
  <2>2. plain[3] = OnlyIf(condition, e) /\ hinted[3] = OnlyIf(condition, f)
    BY RungsAre
  <2> HIDE DEF plain, hinted, condition, e, f
  <2> QED
    BY <1>3, <2>1, <2>2, OnlyIfFound
<1>4. ASSUME Found(plain[5]) PROVE Found(hinted[5])
  <2> DEFINE condition == p.house # NoHouse
             e == ResolveNearestCivic(p, NoRoads, down)
             f == ResolveNearestCivic(p, xs, down)
  <2>1. Found(e) => Found(f)
    BY NearestWithHints
  <2>2. plain[5] = OnlyIf(condition, e) /\ hinted[5] = OnlyIf(condition, f)
    BY RungsAre
  <2> HIDE DEF plain, hinted, condition, e, f
  <2> QED
    BY <1>4, <2>1, <2>2, OnlyIfFound
<1> HIDE DEF plain, hinted
<1> QED
  BY <1>1, <1>2, <1>3, <1>4 DEF plain, hinted

LEMMA LadderWithHints ==
    ASSUME NEW p, p.house \in Seq(Digits), NEW grid, NEW xs, IsFiniteSet(DOMAIN xs), NEW ways,
           FirstFound(CivicRungs(p, NoZone, NoRoads, ways)).place.kind = "parcel"
    PROVE  FirstFound(CivicRungs(p, grid, xs, ways)).place.kind = "parcel"
<1> DEFINE plain == CivicRungs(p, NoZone, NoRoads, ways)
           hinted == CivicRungs(p, grid, xs, ways)
           zone == NoZone
<1>1. DOMAIN plain = 1..8 /\ Len(plain) = 8 /\ DOMAIN hinted = 1..8 /\ Len(hinted) = 8
  BY RungsAre
<1>2. /\ \A k \in {2, 3, 5} : Found(plain[k]) => Found(hinted[k])
      /\ \A k \in {1, 4} : Found(hinted[k]) => Found(plain[k])
  BY RungsWithHints
<1>3. \A k \in 1..8 : Found(hinted[k]) => (hinted[k].place.kind = "parcel" <=> k \in {2, 3, 5})
  BY ParcelRungs
<1>4. \A k \in 1..8 : Found(plain[k]) => (plain[k].place.kind = "parcel" <=> k \in {2, 3, 5})
  <2>1. IsFiniteSet(DOMAIN NoRoads)
    <3>1. DOMAIN NoRoads = 1..2 /\ 1 \in Int /\ 2 \in Int
      BY DEF NoRoads
    <3> QED
      BY <3>1, FS_Interval
  <2>2. plain = CivicRungs(p, zone, NoRoads, ways)
    OBVIOUS
  <2> HIDE DEF zone, plain
  <2> QED
    BY <2>1, <2>2, ParcelRungs
<1> HIDE DEF plain, hinted
<1>5. FirstFound(plain).place.kind = "parcel"
  BY DEF plain
<1>6. PICK i \in 1..8 : Found(plain[i])
  BY <1>1, <1>5, FirstFoundNone, ParcelIsFound, NothingFound
<1>7. PICK k \in 1..i : /\ Found(plain[k]) /\ FirstFound(plain) = plain[k]
                        /\ \A j \in 1..(k-1) : ~Found(plain[j])
  BY <1>1, <1>6, FirstFoundIsFirst
<1>8. k \in {2, 3, 5}
  BY <1>4, <1>5, <1>7
<1>9. Found(hinted[k])
  BY <1>2, <1>7, <1>8
<1>10. k \in 1..8
  BY <1>7
<1>11. PICK n \in 1..k : Found(hinted[n]) /\ FirstFound(hinted) = hinted[n]
  BY <1>1, <1>9, <1>10, FirstFoundIsFirst
<1>12. n \notin {1, 4}
  BY <1>2, <1>7, <1>8, <1>11
<1>13. n \in {2, 3, 5}
  BY <1>8, <1>11, <1>12
<1> QED
  BY <1>3, <1>11, <1>13 DEF hinted

LEMMA MoreSaidIsNoWorse ==
    ASSUME NEW t \in Attempts,
           Geocoded[[t EXCEPT !.grid = NoZone, !.xs = NoRoads]].place.kind = "parcel"
    PROVE  Geocoded[t].place.kind = "parcel"
<1> DEFINE bare == [t EXCEPT !.grid = NoZone, !.xs = NoRoads]
           a == Geocoded[bare]
<1>1. bare \in Attempts /\ bare.said = t.said /\ bare.ways = t.ways
      /\ bare.grid = NoZone /\ bare.xs = NoRoads
  <2>1. NoZone \in Grids /\ NoRoads \in NearRoads \X NearRoads
    <3>1. NoWords \in {NoWords} /\ NoZone \in {NoZone}
      OBVIOUS
    <3>2. NoWords \in NearRoads /\ NoZone \in Grids
      BY <3>1 DEF NearRoads, Grids
    <3> QED
      BY <3>2 DEF NoRoads
  <2> DEFINE zone == NoZone
             roads == NearRoads \X NearRoads
             ways == {Attempt(o.down, o.unread, index) : o \in Outages, index \in BOOLEAN}
  <2>2. bare = [t EXCEPT !.grid = zone, !.xs = NoRoads] /\ zone \in Grids /\ NoRoads \in roads
    BY <2>1
  <2>3. Attempts = [said : Locations, grid : Grids, xs : roads, ways : ways]
    BY DEF Attempts
  <2> HIDE DEF bare, zone, roads, ways
  <2>4. bare \in Attempts /\ bare.said = t.said /\ bare.ways = t.ways
        /\ bare.grid = zone /\ bare.xs = NoRoads
    BY <2>2, <2>3
  <2> QED
    BY <2>4 DEF zone
<1> HIDE DEF bare
<1>2. a = GetCoordinates(t.said, NoZone, NoRoads, t.ways)
  BY <1>1, AttemptsAre
<1>3. Geocoded[t] = GetCoordinates(t.said, t.grid, t.xs, t.ways)
  BY AttemptsAre
<1>4. CASE Paired(t.said)
  <2> DEFINE said == t.said
             ways == t.ways
             j == Junction(said, NoZone, NoRoads, ways)
  <2>1. a = j
    BY <1>2, <1>4 DEF GetCoordinates
  <2>2. a.place.kind = "parcel" /\ Found(a)
    BY ParcelIsFound DEF bare
  <2> HIDE DEF a
  <2>3. Found(j)
    BY <2>1, <2>2
  <2>4. \/ Vague(j, "section", {"section"})
        \/ \E q \in Junctions : Fits(j, q, said, NoZone)
    BY <2>3, PairFinds
  <2> HIDE DEF j
  <2>5. CASE Vague(j, "section", {"section"})
    <3>1. j.place.kind # "parcel"
      BY <2>5 DEF Vague
    <3> QED
      BY <2>1, <2>2, <3>1
  <2>6. ASSUME NEW q \in Junctions, Fits(j, q, said, NoZone) PROVE FALSE
    <3>1. j.place = Place("junction", q.id, NoPart)
      BY <2>6 DEF Fits, IsJunctionOf
    <3>2. j.place.kind # "parcel"
      BY <3>1 DEF Place
    <3> QED
      BY <2>1, <2>2, <3>2
  <2> QED
    BY <2>4, <2>5, <2>6
<1>5. CASE ~Paired(t.said)
  <2> DEFINE p == ParseHouseAndStreet(t.said)
             grid == t.grid
             xs == t.xs
             ways == t.ways
  <2>0. t.said.house # NoHouse
    <3>1. a # NoAnswer
      BY ParcelIsFound, NothingFound DEF bare
    <3> HIDE DEF a
    <3> QED
      BY <1>2, <1>5, <3>1 DEF GetCoordinates
  <2>1. a = FirstFound(CivicRungs(p, NoZone, NoRoads, ways))
    BY <1>2, <1>5, <2>0 DEF GetCoordinates
  <2>2. Geocoded[t] = FirstFound(CivicRungs(p, grid, xs, ways))
    BY <1>3, <1>5, <2>0 DEF GetCoordinates
  <2>3. p.house \in Seq(Digits) /\ IsFiniteSet(DOMAIN xs)
    BY AttemptsAre DEF ParseHouseAndStreet
  <2>4. a.place.kind = "parcel"
    BY DEF bare
  <2> HIDE DEF p, grid, xs, ways, a
  <2> QED
    BY <2>1, <2>2, <2>3, <2>4, LadderWithHints
<1> QED
  BY <1>4, <1>5

\* geocoder.py:257-267: hints take no parcel away.  The rungs before the one that
\* found the parcel without them answer nothing more with them.
THEOREM MoreSaidIsNeverWorse == Spec => []MoreSaidNeverWorse
<1>1. CallInv => MoreSaidNeverWorse
  <2> SUFFICES ASSUME CallInv PROVE MoreSaidNeverWorse
    OBVIOUS
  <2>1. \A t \in attempts : t \in Attempts
    BY DEF CallInv, Asked
  <2> QED
    BY <2>1, MoreSaidIsNoWorse DEF MoreSaidNeverWorse, NoRoads
<1> QED
  BY <1>1, CallInvHolds, PTL
=============================================================================
