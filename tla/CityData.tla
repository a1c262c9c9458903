-------------------------------- MODULE CityData --------------------------------
(***************************************************************************)
(* The City's data from its service to the console: the scripts that fetch *)
(* it (CityFiles), the tables they fill (CityTables), the parcels that      *)
(* people also write to (ParcelStore) and the tiles cut to the city's       *)
(* boundary (TileArchive).                                                 *)
(*                                                                         *)
(* Each script runs in one instance at a time; scripts of different kinds   *)
(* overlap with each other and with the console.                           *)
(***************************************************************************)
EXTENDS ParcelStore, TileArchive

vars == <<fileVars, tableVars, gis, parcelVars, tileVars>>

Init ==
    /\ FilesInit
    /\ TablesInit
    /\ ParcelsInit
    /\ TilesInit

Next ==
    \/ FilesNext /\ UNCHANGED <<tableVars, gis, parcelVars, tileVars>>
    \/ TablesNext /\ UNCHANGED <<parcelVars, tileVars>>
    \/ ParcelsNext /\ UNCHANGED tileVars
    \/ TilesNext /\ UNCHANGED parcelVars

Spec == Init /\ [][Next]_vars

-----------------------------------------------------------------------------
\* Every variable has its type, ids stay below the sequence, and an import is never working
\* on rows the table has not got the ids for.
CityDataTypeOK ==
    /\ FilesTypeOK
    /\ TablesTypeOK
    /\ TilesTypeOK
    /\ nextId \in 1..MaxRow + 1
    /\ Ids \subseteq 1 .. nextId - 1
    /\ \A i \in Ids : rows[i].site \subseteq Lots /\ rows[i].ruling <= rulings
    /\ imp.todo \subseteq 1 .. nextId - 1

\* What people add outlives the scripts: no step takes an arrival point off a base site, a
\* learned term out of the vocabulary or a placed junction off the map, except a person at
\* the console and --force-drop.
PersonWrites == rulings' # rulings \/ card' # card
TableDropped == imp.at = "table" /\ imp.drop
KeepsRulings ==
    /\ vocabulary \subseteq vocabulary'
    /\ junctions.manual \subseteq junctions'.manual
    /\ \/ PersonWrites
       \/ TableDropped
       \/ \A i \in Ids : rows[i].base =>
             i \in DOMAIN rows' /\ rows'[i].base /\ rows'[i].ruling = rows[i].ruling

RulingsSurvive == [][KeepsRulings]_vars

\* The arrival point that the console enters for an address that one row or one base site
\* bears is on the row that a dispatch to that address reads, at every step of an import.
\* (Of several rows without a base site the gis id picks one, and the lowest id is read.)
RulingIsRead ==
    \A a \in Addresses, g \in GisIds :
        LET i == EntranceTarget(a, g) IN
        i # 0 /\ i \in Addressed(a) /\ (rows[i].base \/ Addressed(a) = {i}) => AddressRow(a, FALSE) = i

\* After an import whose roads were not replaced meanwhile, the front point of every located
\* row is on a road of the edition in the table, and a row whose street has no road has none:
\* no point of an older edition is left, on a new row or on a base site that was kept.
\* (An empty table says nothing: it may have been filled and emptied again since.)
FrontsAreCurrent ==
    imp.at = "done" /\ imp.ok /\ imp.seen = {tables[Roads]} /\ tables[Roads] # 0 =>
        \A i \in Ids : rows[i].centred /\ HasGeom(i) =>
            rows[i].front = IF HasRoad(i) THEN tables[Roads] ELSE 0

\* A row has an outline where the column takes one.  It takes none once step 10 of
\* import_gis_data.py has run after the import made the column fit for outlines: every row is
\* then a point of what it stood for, until the next import.
IsArea(i) == rows[i].area \/ pointsOnly

\* After a whole import every property of several outlined lots has one base site, whose outline
\* covers the lots of that edition, no more and no less, and each outlined record of the layer is
\* the outline of one City row: whatever an earlier import left half done, and whatever step 10
\* had made of the base sites that were kept.
SiteMatchesLots ==
    imp.at = "done" /\ imp.ok /\ imp.edition # 0 =>
        LET layer == {Extract[imp.edition][n] : n \in DOMAIN Extract[imp.edition]}
            LotsAt(p) == {l \in layer : LotOf[l].prop = p /\ LotOf[l].outlined}
        IN
        /\ \A p \in Housed : Cardinality(LotsAt(p)) > 1 =>
             \E i \in BaseOf(p) : BaseOf(p) = {i} /\ rows[i].site = LotsAt(p) /\ IsArea(i)
        /\ \A l \in layer : LotOf[l].outlined =>
             \E i \in CityIds : {j \in CityIds : rows[j].site = {l}} = {i} /\ IsArea(i)
=============================================================================
