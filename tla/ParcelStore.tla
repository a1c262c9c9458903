------------------------------ MODULE ParcelStore ------------------------------
(***************************************************************************)
(* Table parcels: import_parcels.py, the two steps of import_gis_data.py   *)
(* that touch it, and the endpoints of routers/parcels.py.                 *)
(*                                                                         *)
(* A row stands for one record of the City's address layer (a City row) or *)
(* for a whole property of several (its base site).  The import deletes    *)
(* the City rows in one transaction, inserts them in another, and works    *)
(* over the table in several more; what a person enters is on the rows     *)
(* meanwhile, and the gateway reads them.                                  *)
(*                                                                         *)
(* A lot is a record of the address layer.  Of a row the model keeps whose *)
(* lots its outline covers, the editions of the zones and of the roads that *)
(* its grid and its front point come from, and the arrival point a person  *)
(* entered.                                                                *)
(***************************************************************************)
EXTENDS CityTables, FiniteSets

CONSTANTS
    Lots,         \* records of the address layer
    LotOf,        \* [Lots -> [prop, address, gis, outlined]]
    Extract,      \* [Editions -> Seq(Lots)]: the layer, in the order of the file
    Props,        \* what (house, street, streettype) may be
    Housed,       \* those with a house number
    StreetOf,     \* [Props -> Streets]
    BaseAddress,  \* [Props -> Addresses]: house, street and type put together
    Streets,
    RoadsIn,      \* [Editions -> SUBSET Streets]: the streets that have a road
    FullNames,    \* the streets whose type is written in both layers
    Addresses,
    Like,         \* [Addresses -> SUBSET Addresses]: those it is a part of
    GisIds,
    Batch,        \* rows of a chunk
    MaxRow        \* bound: row ids

NoProp == "none"
NoGisId == "none"

ASSUME ParcelConstantsOK ==
    /\ LotOf \in [Lots -> [prop : Props, address : Addresses, gis : GisIds, outlined : BOOLEAN]]
    /\ Extract \in [Editions -> Seq(Lots)]
    /\ Housed \subseteq Props /\ FullNames \subseteq Streets
    /\ StreetOf \in [Props -> Streets] /\ BaseAddress \in [Props -> Addresses]
    /\ RoadsIn \in [Editions -> SUBSET Streets]
    /\ Like \in [Addresses -> SUBSET Addresses]
    /\ {Batch, MaxRow} \subseteq Nat \ {0}
    /\ IsFiniteSet(Lots) /\ IsFiniteSet(Props)

\* A file lists each of its records once.  No gis id reads like an address: the lookup takes
\* either in one field.
ASSUME LayerOK ==
    /\ \A e \in Editions : \A m, n \in DOMAIN Extract[e] : Extract[e][m] = Extract[e][n] => m = n
    /\ NoGisId \in GisIds /\ Addresses \cap GisIds = {}

VARIABLES
    rows,        \* [ids -> rows]: table parcels
    nextId,      \* the next id of its sequence
    pointsOnly,  \* is column geom of type Point?
    imp,         \* import_parcels.py: the step it is at
    card,        \* the row id that the entrance card on the console names, 0: none
    rulings      \* arrival points entered so far

parcelVars == <<rows, nextId, pointsOnly, imp, card, rulings>>
dataVars == <<published, files, tableVars, gis>>
consoleVars == <<card, rulings>>

\* A row without geometry covers no lot; the City's column gives a polygon, a conversion
\* leaves a point of it.
CityRow(l) ==
    [base |-> FALSE, prop |-> LotOf[l].prop, address |-> LotOf[l].address, gis |-> LotOf[l].gis,
     site |-> IF LotOf[l].outlined THEN {l} ELSE {}, area |-> LotOf[l].outlined,
     centred |-> FALSE, grid |-> 0, front |-> 0, ruling |-> 0]

NoImport == [at |-> "idle", edition |-> 0, drop |-> FALSE, fronts |-> TRUE, todo |-> {},
             ok |-> TRUE, seen |-> {}]

ParcelsInit ==
    /\ rows = <<>>
    /\ nextId = 1
    /\ pointsOnly = FALSE
    /\ imp = NoImport
    /\ card = 0
    /\ rulings = 0

Ids == DOMAIN rows
CityIds == {i \in Ids : ~rows[i].base}
HasGeom(i) == rows[i].site # {}
FirstOf(S) == CHOOSE i \in S : \A j \in S : i <= j
Kept(S) == [i \in S |-> rows[i]]

-----------------------------------------------------------------------------
(***************************************************************************)
(* Which row an address means (routers/parcels.py).                        *)
(***************************************************************************)
\* Base sites first, then the lowest id.
\* Plausible bug: no base site first, as the endpoints were before.
Bug_Answer(S) == IF S = {} THEN 0 ELSE FirstOf(S)
Answer(S) ==
    LET base == {i \in S : rows[i].base} IN
    IF S = {} THEN 0 ELSE FirstOf(IF base # {} THEN base ELSE S)

Addressed(a) == {i \in Ids : rows[i].address = a}

AddressRow(a, fuzzy) ==
    LET exact == Addressed(a) \cup {i \in Ids : rows[i].gis = a} IN
    IF exact # {} THEN Answer(exact)
    ELSE IF fuzzy THEN Answer({i \in Ids : rows[i].address \in Like[a]}) ELSE 0

\* One row per property: its base site, or the rows no base site speaks for.
Searched(a) ==
    {i \in Ids : /\ rows[i].address \in Like[a]
                 /\ \/ rows[i].base
                    \/ ~\E b \in Ids : rows[b].base /\ rows[b].prop = rows[i].prop}

\* The row an arrival point belongs to, 0 when that is refused (404 and 409).
EntranceTarget(a, g) ==
    LET exact == Addressed(a)
        base == {i \in exact : rows[i].base}
        sharing == {i \in Ids : g # NoGisId /\ rows[i].gis = g}
        narrowed == exact \cap sharing
        Only(S) == IF Cardinality(S) = 1 THEN FirstOf(S) ELSE 0
    IN CASE Cardinality(exact) = 1 -> FirstOf(exact)
         [] Cardinality(exact) > 1 -> IF Only(base) # 0 THEN Only(base) ELSE Only(narrowed)
         [] OTHER -> Only(sharing)

-----------------------------------------------------------------------------
(***************************************************************************)
(* What people do at the console.                                          *)
(***************************************************************************)
\* The lookup or the search hands the card a row id, which it keeps.
OpenCard(a) ==
    /\ \E i \in {AddressRow(a, TRUE)} \cup Searched(a) : i # 0 /\ i # card /\ card' = i
    /\ Spend("card")
    /\ UNCHANGED <<rows, nextId, pointsOnly, imp, rulings, dataVars>>

Rule(i) ==
    /\ Spend("entrance")
    /\ rulings' = rulings + 1
    /\ rows' = [rows EXCEPT ![i].ruling = rulings + 1]

\* POST /entrance with the row id of the card; the row may be gone (404).
SaveCard ==
    /\ card \in Ids
    /\ Rule(card)
    /\ card' = 0
    /\ UNCHANGED <<nextId, pointsOnly, imp, dataVars>>

CardGone ==
    /\ card # 0 /\ card \notin Ids
    /\ card' = 0
    /\ UNCHANGED <<rows, nextId, pointsOnly, imp, rulings, dataVars, left>>

\* POST /entrance with an address and a gis id.
SaveAddressed(a, g) ==
    /\ EntranceTarget(a, g) # 0
    /\ Rule(EntranceTarget(a, g))
    /\ UNCHANGED <<nextId, pointsOnly, imp, card, dataVars>>

\* Latitude and longitude both null: the point is cleared, the note stays.
ClearCard ==
    /\ card # 0 /\ card \in Ids
    /\ rows[card].ruling # 0
    /\ rows' = [rows EXCEPT ![card].ruling = 0]
    /\ card' = 0
    /\ UNCHANGED <<nextId, pointsOnly, imp, rulings, dataVars, left>>

\* Ids are left for a whole import.
RoomForImport == nextId + Cardinality(Lots) + Cardinality(Props) <= MaxRow

\* POST /streetview for an address that no row has: a row of no property is made, with the
\* gis id that was sent along or the address in its place.  On a row that exists it sets the
\* view alone.
SaveStreetView(a, g) ==
    /\ AddressRow(a, FALSE) = 0
    /\ RoomForImport
    /\ Spend("entrance")
    /\ rows' = [i \in Ids \cup {nextId} |->
           IF i \in Ids THEN rows[i]
           ELSE [base |-> FALSE, prop |-> NoProp, address |-> a,
                 gis |-> IF g = NoGisId THEN a ELSE g, site |-> {}, area |-> FALSE,
                 centred |-> FALSE, grid |-> 0, front |-> 0, ruling |-> 0]]
    /\ nextId' = nextId + 1
    /\ UNCHANGED <<pointsOnly, imp, card, rulings, dataVars>>

-----------------------------------------------------------------------------
(***************************************************************************)
(* import_parcels.py                                                       *)
(***************************************************************************)
ImpAt(step) == imp' = [imp EXCEPT !.at = step]
Running == imp.at \notin {"idle", "done"}
ImportFrame == <<card, rulings, dataVars, left>>

\* The address layer is read whole; a folder that cannot be read ends the script.
StartImport ==
    /\ ~Running
    /\ RoomForImport
    /\ Spend("parcels")
    /\ folder[1] \in Editions
    /\ \E drop, fronts \in BOOLEAN :
         imp' = [NoImport EXCEPT !.at = "table", !.edition = folder[1], !.drop = drop,
                                 !.fronts = fronts]
    /\ UNCHANGED <<rows, nextId, pointsOnly, card, rulings, dataVars>>

\* --frontage-only
StartFrontage ==
    /\ ~Running
    /\ Spend("frontage")
    /\ imp' = [NoImport EXCEPT !.at = "front"]
    /\ UNCHANGED <<rows, nextId, pointsOnly, card, rulings, dataVars>>

\* --force-drop drops the table and its sequence; otherwise geom takes any geometry again.
CreateTable ==
    /\ imp.at = "table"
    /\ rows' = IF imp.drop THEN <<>> ELSE rows
    /\ nextId' = IF imp.drop THEN 1 ELSE nextId
    /\ pointsOnly' = FALSE
    /\ ImpAt("delete")
    /\ UNCHANGED ImportFrame

\* Plausible bug: DELETE without its WHERE.
Bug_NotReplaced == {}
NotReplaced == {i \in Ids : rows[i].base}

DeleteCityRows ==
    /\ imp.at = "delete"
    /\ rows' = Kept(NotReplaced)
    /\ ImpAt("insert")
    /\ UNCHANGED <<nextId, pointsOnly, ImportFrame>>

Members(p) == {i \in CityIds : rows[i].prop = p /\ HasGeom(i)}

SiteProps == {p \in Housed : Cardinality(Members(p)) > 1}

\* A polygon does not fit a column of points, and two sites of one address are two rows of one
\* statement for the same key, which ON CONFLICT does not take.
OneAddress == \E p, q \in SiteProps : p # q /\ BaseAddress[p] = BaseAddress[q]
Refused ==
    \/ imp.at = "insert" /\ pointsOnly /\ \E n \in DOMAIN Extract[imp.edition] :
                                                LotOf[Extract[imp.edition][n]].outlined
    \/ imp.at = "bases" /\ SiteProps # {} /\ (pointsOnly \/ OneAddress)

\* Every record of the layer, in one transaction.
InsertCityRows ==
    LET layer == Extract[imp.edition] IN
    /\ imp.at = "insert"
    /\ ~Refused
    /\ rows' = [i \in Ids \cup (nextId .. nextId + Len(layer) - 1) |->
                   IF i \in Ids THEN rows[i] ELSE CityRow(layer[i - nextId + 1])]
    /\ nextId' = nextId + Len(layer)
    /\ ImpAt("zones")
    /\ UNCHANGED <<pointsOnly, ImportFrame>>

\* set_lot_centres_and_grids: no City row with an outline, nothing to do; no zones, the script
\* ends there.
StartCentres ==
    LET lots == {i \in CityIds : HasGeom(i)} IN
    /\ imp.at = "zones"
    /\ imp' = CASE lots = {} -> [imp EXCEPT !.at = "bases"]
                [] lots # {} /\ tables[Zones] = 0 -> [imp EXCEPT !.at = "done", !.ok = FALSE]
                [] OTHER -> [imp EXCEPT !.at = "centres", !.todo = lots]
    /\ UNCHANGED <<rows, nextId, pointsOnly, ImportFrame>>

\* The next Batch rows of those that are left.
Chunk == {i \in imp.todo : Cardinality({j \in imp.todo : j < i}) < Batch}

CentreChunk ==
    /\ imp.at = "centres"
    /\ rows' = [i \in Ids |->
           IF i \in Chunk /\ i \in CityIds /\ HasGeom(i)
           THEN [rows[i] EXCEPT !.centred = TRUE, !.grid = tables[Zones]] ELSE rows[i]]
    /\ imp' = [imp EXCEPT !.todo = @ \ Chunk, !.at = IF imp.todo = Chunk THEN "bases" ELSE @]
    /\ UNCHANGED <<nextId, pointsOnly, ImportFrame>>

\* build_base_site_rows: one row per property of several outlined City rows.
BaseOf(p) == {i \in Ids : rows[i].base /\ rows[i].address = BaseAddress[p]}

\* ON CONFLICT (address) WHERE is_base_site: what the City knows is brought up to date, what a
\* person entered is not named, and the front point is left to the next step.
\* Plausible bug: geom is not named either, and a site that is there keeps what it has.
Bug_Derived(p, old) ==
    LET site == IF old.site = {} THEN UNION {rows[i].site : i \in Members(p)} ELSE old.site IN
    [old EXCEPT !.prop = p, !.site = site, !.area = old.site = {} \/ @,
                !.centred = TRUE, !.grid = tables[Zones]]
Derived(p, old) ==
    [old EXCEPT !.prop = p, !.site = UNION {rows[i].site : i \in Members(p)}, !.area = TRUE,
                !.centred = TRUE, !.grid = tables[Zones]]

NewBase(p) ==
    [base |-> TRUE, prop |-> p, address |-> BaseAddress[p], gis |-> NoGisId, site |-> {},
     area |-> FALSE, centred |-> FALSE, grid |-> 0, front |-> 0, ruling |-> 0]

BuildBaseSites ==
    LET fresh == {p \in SiteProps : BaseOf(p) = {}}
        given == CHOOSE f \in [fresh -> nextId .. nextId + Cardinality(fresh) - 1] :
                     \A p, q \in fresh : p # q => f[p] # f[q]
        PropAt(i) == CHOOSE p \in fresh : given[p] = i
    IN
    /\ imp.at = "bases"
    /\ ~Refused
    /\ rows' = [i \in Ids \cup {given[p] : p \in fresh} |->
           IF i \notin Ids THEN Derived(PropAt(i), NewBase(PropAt(i)))
           ELSE IF \E p \in SiteProps : i \in BaseOf(p)
                THEN Derived(CHOOSE p \in SiteProps : i \in BaseOf(p), rows[i])
           ELSE rows[i]]
    /\ nextId' = nextId + Cardinality(fresh)
    /\ ImpAt(IF imp.fronts THEN "front" ELSE "done")
    /\ UNCHANGED <<pointsOnly, ImportFrame>>

\* backfill_parcel_frontage: nothing is done without roads.
StartFronts ==
    LET candidates == {i \in Ids : rows[i].centred /\ HasGeom(i)} IN
    /\ imp.at = "front"
    /\ imp' = IF tables[Roads] = 0 \/ candidates = {}
              THEN [imp EXCEPT !.at = "done", !.ok = FALSE]
              ELSE [imp EXCEPT !.at = "fronts", !.todo = candidates]
    /\ UNCHANGED <<rows, nextId, pointsOnly, ImportFrame>>

HasRoad(i) ==
    tables[Roads] # 0 /\ rows[i].prop # NoProp /\ StreetOf[rows[i].prop] \in RoadsIn[tables[Roads]]

\* The nearest point of the road the address names, for the rows of a range of ids.
FrontChunk ==
    LET within == {i \in Ids : \E j, k \in Chunk : j <= i /\ i <= k} IN
    /\ imp.at = "fronts"
    /\ rows' = [i \in Ids |->
           IF i \in within /\ rows[i].centred /\ HasGeom(i) /\ HasRoad(i)
           THEN [rows[i] EXCEPT !.front = tables[Roads]] ELSE rows[i]]
    /\ imp' = [imp EXCEPT !.todo = @ \ Chunk, !.seen = @ \cup {tables[Roads]},
                          !.at = IF imp.todo = Chunk THEN "clear" ELSE @]
    /\ UNCHANGED <<nextId, pointsOnly, ImportFrame>>

\* A front point on a street that has no road any more is taken away.
\* Plausible bug: it is left alone, as it once was.
Bug_Cleared(i) == rows[i]
Cleared(i) == IF HasRoad(i) THEN rows[i] ELSE [rows[i] EXCEPT !.front = 0]

ClearFronts ==
    /\ imp.at = "clear"
    /\ rows' = [i \in Ids |-> Cleared(i)]
    /\ imp' = [imp EXCEPT !.at = "done", !.seen = @ \cup {tables[Roads]}]
    /\ UNCHANGED <<nextId, pointsOnly, ImportFrame>>

\* A transaction fails and is rolled back.  The base sites and the fronts are in try blocks;
\* anywhere else the script ends.
ImportStepFails ==
    /\ Running
    /\ Spend("fault")
    /\ imp' = [imp EXCEPT !.ok = FALSE,
                          !.at = IF imp.at = "bases" /\ imp.fronts THEN "front" ELSE "done"]
    /\ UNCHANGED <<rows, nextId, pointsOnly, card, rulings, dataVars>>

PolygonRefused ==
    /\ Refused
    /\ imp' = [imp EXCEPT !.ok = FALSE,
                          !.at = IF imp.at = "bases" /\ imp.fronts THEN "front" ELSE "done"]
    /\ UNCHANGED <<rows, nextId, pointsOnly, ImportFrame>>

-----------------------------------------------------------------------------
(***************************************************************************)
(* Steps 10 and 9 of import_gis_data.py                                    *)
(***************************************************************************)
\* Column geom becomes a column of points, each outline its centre; rows without one take
\* their centre point.
AddParcelGeom ==
    /\ gis.at = "outlines"
    /\ pointsOnly' = TRUE
    /\ rows' = [i \in Ids |-> [rows[i] EXCEPT !.area = FALSE]]
    /\ GisDone("outlines")
    /\ UNCHANGED <<nextId, imp, card, rulings, published, files, tableVars, left>>

\* Front points are filled in where there is none, on the road of the full name.
FillFronts ==
    /\ gis.at = "fronts"
    /\ rows' = [i \in Ids |->
           IF /\ rows[i].front = 0 /\ rows[i].centred
              /\ HasRoad(i) /\ StreetOf[rows[i].prop] \in FullNames
           THEN [rows[i] EXCEPT !.front = tables[Roads]] ELSE rows[i]]
    /\ GisDone("fronts")
    /\ UNCHANGED <<nextId, pointsOnly, imp, card, rulings, published, files, tableVars, left>>

ParcelsNext ==
    \/ \E a \in Addresses : OpenCard(a)
    \/ SaveCard \/ CardGone \/ ClearCard
    \/ \E a \in Addresses, g \in GisIds : SaveAddressed(a, g) \/ SaveStreetView(a, g)
    \/ StartImport
    \/ StartFrontage
    \/ CreateTable
    \/ DeleteCityRows
    \/ InsertCityRows
    \/ StartCentres
    \/ CentreChunk
    \/ BuildBaseSites
    \/ StartFronts
    \/ FrontChunk
    \/ ClearFronts
    \/ ImportStepFails
    \/ PolygonRefused
    \/ AddParcelGeom
    \/ FillFronts
=============================================================================
