-------------------------- MODULE JunctionResolution --------------------------
(***************************************************************************)
(* Intersections (gis_service/intersection_resolver.py): the junctions of  *)
(* an announced pair of streets, narrowed by the near roads and then by    *)
(* the announced grid.  Only an exact pair resolves by itself; whatever is *)
(* merely like it is offered for the operator to choose.                   *)
(***************************************************************************)
EXTENDS AddressResolution

CONSTANTS
    Spaced,          \* [wording with other spaces -> the wording it squashes to]
    SuggestionFloor, \* SUGGESTION_FLOOR
    Band             \* metres within which a near road tells no two junctions apart

ASSUME JunctionConstantsOK ==
    /\ SuggestionFloor \in 1..100
    /\ Band \in Nat
    /\ \A j \in Junctions : Cardinality(j.pair) = 2
    /\ \A j \in Junctions, p \in Parcels : j.id # p.id

Squash(words) == IF words \in DOMAIN Spaced THEN Spaced[words] ELSE words

Pairs == {j.pair : j \in Junctions}
KnownStreets == UNION Pairs

Match(j, score) == [junction |-> j, score |-> score]

\* The streets a heard one may be, each with how alike it is.
Likely(street) ==
    {x \in {<<k, ScoreStreet(street, k)>> : k \in KnownStreets} : x[2] >= SuggestionFloor}

\* The order in which the table happens to list the streets: it decides ties.
TableOrder == SetToSeq(KnownStreets)
Listed(street) == CHOOSE i \in DOMAIN TableOrder : TableOrder[i] = street

\* The streets most like the one heard: itself when it is known, else at most 4.
BestStreets(street) ==
    LET Before(y, x) == y[2] > x[2] \/ (y[2] = x[2] /\ Listed(y[1]) < Listed(x[1]))
    IN  IF street \in KnownStreets THEN {<<street, 100>>}
        ELSE {x \in Likely(street) : Cardinality({y \in Likely(street) : Before(y, x)}) < 4}

\* How alike the pair of the junction is to two lists of likely streets.
AsLike(j, as, bs) ==
    {Min({both[1][2], both[2][2]}) :
        both \in {p \in as \X bs : {p[1][1], p[2][1]} = j.pair}}

\* The best six, those of equal likeness in the order of the table.
TopSix(matches) ==
    LET Before(y, x) == \/ y.score > x.score
                        \/ y.score = x.score /\ y.junction.id < x.junction.id
    IN  {x \in matches : Cardinality({y \in matches : Before(y, x)}) < 6}

SuggestAmong(as, bs) ==
    TopSix({Match(j, Max(AsLike(j, as, bs))) :
                     j \in {k \in Junctions : AsLike(k, as, bs) # {}}})

\* Only pairs that meet somewhere are suggested, at most 6 junctions.
Suggest(a, b) == SuggestAmong(BestStreets(a), BestStreets(b))

NoLookup == [exact |-> FALSE, matches |-> {}]

Exactly(pairs) ==
    [exact |-> TRUE, matches |-> {Match(j, 100) : j \in {k \in Junctions : k.pair \in pairs}}]

\* The pairs meant: the one heard, else those that read the same without spaces.
PairsMeant(a, b) ==
    IF {a, b} \in Pairs THEN {{a, b}}
    ELSE {p \in Pairs : {Squash(k) : k \in p} = {Squash(a), Squash(b)}}

LookupPair(a, b, meant) ==
    CASE Cardinality(meant) = 1 -> Exactly(meant)
      [] Cardinality(meant) # 1 /\ a = b -> NoLookup
      [] OTHER -> [exact |-> FALSE, matches |-> Suggest(a, b)]

LookupStreets(a, b) == LookupPair(a, b, PairsMeant(a, b))

\* The pair itself; the one pair that reads the same without spaces; nothing for
\* a street named twice; else suggestions.  `loaded` is whether the table of
\* junctions could be read when the geocoder was made.
Lookup(first, second, loaded) ==
    IF loaded THEN LookupStreets(NormalizeStreetName(first), NormalizeStreetName(second))
    ELSE NoLookup

-----------------------------------------------------------------------------
(* Narrowing.  A filter that matches nothing leaves the candidates as they *)
(* are and says so.                                                        *)

\* The near roads found in public.roads, by their full name.
RoadsFound(xs) ==
    {NormalizeStreetName(xs[i]) : i \in {k \in DOMAIN xs : xs[k] # NoWords}} \cap CanonRoads

Closest(j, roads) == Min({Distance(j.id, r) : r \in roads})

\* What is left of the candidates, `nearest` the roads they are ordered by, none
\* when they stay in the order of the table; `aside` whether the roads told nothing.
Candidacy(matches, nearest, aside) ==
    [matches |-> matches, nearest |-> nearest, aside |-> aside]

KeptAlone(matches, kept, roads) ==
    IF roads = {} \/ kept = matches THEN Candidacy(matches, {}, TRUE)
    ELSE Candidacy(kept, roads, FALSE)

WithinBand(matches, roads) ==
    {m \in matches : \A o \in matches :
        Closest(m.junction, roads) - Closest(o.junction, roads) <= Band}

NarrowByRoads(matches, roads) == KeptAlone(matches, WithinBand(matches, roads), roads)

\* The candidates within Band of the nearest to any of the roads.
NarrowCandidates(matches, xs, down) ==
    IF Cardinality(matches) < 2 \/ (\A i \in DOMAIN xs : xs[i] = NoWords) \/ "narrowing" \in down
    THEN Candidacy(matches, {}, FALSE)
    ELSE NarrowByRoads(matches, RoadsFound(xs))

\* Zone lines run along roads: a junction lies in every zone it touches.
Touched(j) == j.touches \cup {j.zone}

\* By touch, and among several by the zone that contains the junction.
Touching(matches, grid) == {m \in matches : grid \in Touched(m.junction)}
Inside(matches, grid) == {m \in matches : m.junction.zone = grid}

KeptByGrid(matches, touching, inside) ==
    CASE touching = {} -> [matches |-> matches, conflict |-> TRUE]
      [] Cardinality(touching) > 1 /\ inside # {} -> [matches |-> inside, conflict |-> FALSE]
      [] OTHER -> [matches |-> touching, conflict |-> FALSE]

NarrowByGrid(matches, grid) ==
    IF grid = NoZone THEN [matches |-> matches, conflict |-> FALSE]
    ELSE KeptByGrid(matches, Touching(matches, grid), Inside(Touching(matches, grid), grid))

\* The one on top: the nearest to the roads, of equals the likest, then the first
\* of the table.
Ahead(m, o, roads) ==
    LET Far(x) == IF roads = {} THEN 0 ELSE Closest(x.junction, roads)
    IN  \/ Far(m) < Far(o)
        \/ /\ Far(m) = Far(o)
           /\ \/ m.score > o.score
              \/ m.score = o.score /\ m.junction.id <= o.junction.id

FirstMatch(matches, roads) == CHOOSE m \in matches : \A o \in matches : Ahead(m, o, roads)

Resolved(exact, matches, conflict) == exact /\ Cardinality(matches) = 1 /\ ~conflict

JunctionAnswer(m, said) ==
    [Answer("junction", Place("junction", m.junction.id, NoPart), NoHouse, said.street, 100)
     EXCEPT !.zone = m.junction.zone]

Noted(m, kind, matches, said) ==
    [JunctionAnswer(m, said) EXCEPT
        !.note = Stating(kind, NoHouse, said.street),
        !.candidates = {Place("junction", o.junction.id, NoPart) : o \in matches}]

Settled(m, exact, aside, matches, conflict, said) ==
    CASE Resolved(exact, matches, conflict) ->
             IF aside THEN Noted(m, "aside", matches, said) ELSE JunctionAnswer(m, said)
      [] exact /\ ~Resolved(exact, matches, conflict) ->
             [Noted(m, "choose", matches, said) EXCEPT !.ambiguous = TRUE]
      [] OTHER -> [Noted(m, "near miss", matches, said) EXCEPT
                      !.ambiguous = TRUE, !.conf = m.score]

FromNarrowed(exact, near, kept, said) ==
    Settled(FirstMatch(kept.matches, near.nearest), exact, near.aside, kept.matches,
            kept.conflict, said)

Narrowing(exact, near, said, grid) ==
    FromNarrowed(exact, near, NarrowByGrid(near.matches, grid), said)

ResolveCandidates(found, said, grid, xs, down) ==
    Narrowing(found.exact, NarrowCandidates(found.matches, xs, down), said, grid)
=============================================================================
