----------------------------- MODULE StreetNames -----------------------------
(***************************************************************************)
(* The wording of streets and addresses (gis_service/normalization.py and  *)
(* the head of address_resolver.py), and the municipal tables they are     *)
(* compared with.                                                          *)
(*                                                                         *)
(* A wording is a sequence of words in upper case, without punctuation.    *)
(* How alike two different wordings are (thefuzz) is the table Alike of    *)
(* the instance; a wording is 100 alike to itself.                         *)
(***************************************************************************)
EXTENDS Integers, FiniteSets, Sequences, SequencesExt, FiniteSetsExt

CONSTANTS
    Suffix,      \* [spelling of a street type -> its abbreviation] (vocabulary)
    Alike,       \* [pairs of different wordings -> 0..99]
    UnitWords,   \* words that a unit number looks like ("205", "204D")
    Parcels,     \* rows of public.parcels
    Segments,    \* rows of public.roads
    Junctions,   \* rows of public.intersections
    Metres,      \* [<<place, road name>> -> metres], absent where it never matters
    Threshold    \* street_confidence_threshold

NoZone == 0
NoHouse == <<>>
NoWords == <<>>

Digits == 0..9

ASSUME StreetNamesConstantsOK ==
    /\ Threshold \in 1..100
    /\ \A pair \in DOMAIN Alike : pair[1] # pair[2] /\ Alike[pair] \in 0..99
    /\ \A at \in DOMAIN Metres : Metres[at] \in Nat
    /\ IsFiniteSet(Parcels) /\ IsFiniteSet(Segments) /\ IsFiniteSet(Junctions)
    /\ \A row \in Parcels \cup Segments \cup Junctions : row.id \in Nat
    /\ \A p \in Parcels : p.house \in Seq(Digits)
    /\ \A a, b \in Parcels : a.id = b.id => a = b
    /\ \A a, b \in Segments : a.id = b.id => a = b
    /\ \A a, b \in Junctions : a.id = b.id => a = b

-----------------------------------------------------------------------------
(* Words.                                                                  *)

Noise == {"BLOCK", "BLK", "OF"}

Canonical(word) == IF word \in DOMAIN Suffix THEN Suffix[word] ELSE word

NormalizeStreetName(words) ==
    LET said == SelectSeq(words, LAMBDA w : w \notin Noise)
    IN  IF Len(said) > 1 THEN [said EXCEPT ![Len(said)] = Canonical(@)] ELSE said

SuffixTokens == DOMAIN Suffix \cup {Suffix[w] : w \in DOMAIN Suffix}

\* The words that name a street, its type left out.
StreetNameTokens(words) == SelectSeq(words, LAMBDA w : w \notin SuffixTokens)

\* The longest prefix that does not end in a unit number.
WithoutUnit(words) ==
    LET named == {i \in DOMAIN words : words[i] \notin UnitWords}
    IN  IF named = {} THEN NoWords
        ELSE SubSeq(words, 1, CHOOSE i \in named : \A j \in named : j <= i)

\* A word said twice in a row counts once.
Collapsed(words) ==
    FoldRight(LAMBDA w, out : IF out # <<>> /\ Head(out) = w THEN out ELSE <<w>> \o out,
              words, <<>>)

QueryStreet(raw, type) == Collapsed(WithoutUnit(NormalizeStreetName(raw \o type)))

ScoreStreet(heard, known) ==
    CASE heard = known -> 100
      [] <<heard, known>> \in DOMAIN Alike -> Alike[<<heard, known>>]
      [] OTHER -> 0

-----------------------------------------------------------------------------
(* A civic address as it is said: digits, a block flag, the street.        *)

Value(digits) == FoldLeft(LAMBDA n, d : 10 * n + d, 0, digits)

\* The digits without the zeros in front of them.
Lstrip(digits) ==
    LET first == {i \in DOMAIN digits : digits[i] # 0}
    IN  IF first = {} THEN NoHouse
        ELSE SubSeq(digits, CHOOSE i \in first : \A j \in first : i <= j, Len(digits))

\* The number with any one of its digits left out.
OneLess(digits) == {RemoveAt(digits, i) : i \in DOMAIN digits}

\* Every reading of a number of five or six digits with its surplus dropped.
OverlongReadings(digits) ==
    LET kept == CASE Len(digits) = 5 -> OneLess(digits)
                  [] Len(digits) = 6 -> UNION {OneLess(d) : d \in OneLess(digits)}
                  [] OTHER -> {}
    IN  {Lstrip(d) : d \in kept} \ {NoHouse}

\* A reading as a number: of four digits at most.
ReadingValue(reading) ==
    LET Digit(k) == IF k <= Len(reading) THEN reading[Len(reading) + 1 - k] ELSE 0
    IN  Digit(1) + 10 * Digit(2) + 100 * Digit(3) + 1000 * Digit(4)

\* By length, then by digits, which is by number: the one that is offered first.
FirstReading(readings) ==
    CHOOSE r \in readings : \A q \in readings : ReadingValue(r) <= ReadingValue(q)

\* parse_house_and_street: the street is its words without the last, and the
\* last word is taken for its type whatever it is; "Avenue" alone is a type.
ParseHouseAndStreet(said) ==
    LET words == SelectSeq(said.street, LAMBDA w : w \notin Noise)
        n == Len(words)
        bare == n = 1 /\ words[1] \notin DOMAIN Suffix
    IN  [house |-> said.house,
         block |-> said.block,
         raw |-> words,
         street |-> IF n = 0 \/ bare THEN words ELSE Front(words),
         type |-> IF n = 0 \/ bare THEN NoWords ELSE <<Canonical(words[n])>>]

Numbered(said) == said.house # NoHouse /\ said.other = NoWords
Paired(said) == said.other # NoWords

-----------------------------------------------------------------------------
(* Rows and how they are compared with a wording.                          *)

\* A parcel keeps its street and its abbreviated type apart; a road has both
\* and, as roadname, the bare name.
ParcelStreet(p) == p.street \o p.type

OnParcelStreet(p, street, type) == p.street = street /\ (type = NoWords \/ p.type = type)

FullName(s) == s.name \o s.type
OnRoad(s, street, type) == FullName(s) = street \o type \/ s.name = street

RoadNames == {s.name : s \in Segments}
CanonRoads == {NormalizeStreetName(FullName(s)) : s \in Segments}

Distance(place, name) ==
    IF <<place, name>> \in DOMAIN Metres THEN Metres[<<place, name>>] ELSE 10000

\* The announced near roads, by name without type; none unless every one is a
\* road of the city and there are two of them.
VerifiedXStreets(xs) ==
    LET Name(i) == StreetNameTokens(NormalizeStreetName(xs[i]))
        named == {i \in DOMAIN xs : xs[i] # NoWords /\ Name(i) # NoWords}
    IN  IF Cardinality(named) >= 2 /\ \A i \in named : Name(i) \in RoadNames
        THEN {Name(i) : i \in named}
        ELSE {}

\* Of one road or two, the nearer and the farther together rank as the average
\* does.
FarFrom(place, names) ==
    LET far == {Distance(place, w) : w \in names}
    IN  IF names = {} THEN 0 ELSE Min(far) + Max(far)
=============================================================================
