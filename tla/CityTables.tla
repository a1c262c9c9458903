------------------------------ MODULE CityTables ------------------------------
(***************************************************************************)
(* The municipal tables that import_gis_data.py fills from the staging     *)
(* files, the junctions derived from the roads (derive_intersections.py)   *)
(* and the hydrants that sync_hydrants.py keeps.                           *)
(*                                                                         *)
(* A table is replaced in one transaction (TRUNCATE and INSERT), and a     *)
(* step that fails is logged while the import goes on to the next one:     *)
(* tables of different editions may stand side by side.                    *)
(***************************************************************************)
EXTENDS CityFiles

CONSTANTS
    Hydrants,     \* OBJECTIDs of hydrants
    HydrantsIn,   \* [Editions -> SUBSET Hydrants]: what the City's service lists
    Terms,        \* vocabulary terms
    SeedTerms,    \* those of the seed migration
    Junctions     \* junctions that a person may place

ASSUME TablesConstantsOK ==
    /\ HydrantsIn \in [Editions -> SUBSET Hydrants]
    /\ SeedTerms \subseteq Terms

VARIABLES
    tables,     \* [1..4 -> editions]: roads, road_names, city_boundary, zones; 0: empty
    vocabulary, \* the terms of public.vocabulary
    junctions,  \* public.intersections: the edition of the roads they derive from, and
                \* the ones a person placed
    hydrants,   \* [Hydrants -> rows]: public.hydrants
    gis         \* import_gis_data.py: the step it is at

tableVars == <<tables, vocabulary, junctions, hydrants>>

Roads == 1
Boundary == 3
Zones == 4
StepOrder == <<"roads", "zones", "boundary", "names", "vocabulary", "junctions", "outlines",
               "fronts", "idle">>
TableOf == [roads |-> Roads, names |-> 2, boundary |-> Boundary, zones |-> Zones]

NoGis == [at |-> "idle", junctions |-> FALSE, parcels |-> FALSE]

TablesInit ==
    /\ \E n \in {0, 1} : tables = [d \in 1..4 |-> n]
    /\ vocabulary = SeedTerms
    /\ junctions = [derived |-> tables[Roads], manual |-> {}]
    /\ hydrants = [h \in Hydrants |-> [seen |-> 0, zone |-> 0]]
    /\ gis = NoGis

StartGisImport ==
    /\ gis.at = "idle"
    /\ Spend("gis")
    /\ \E j, p \in BOOLEAN : gis' = [at |-> "roads", junctions |-> j, parcels |-> p]
    /\ UNCHANGED <<published, files, tableVars>>

\* --skip-intersections and --skip-parcels leave steps out.
Skipped(step) ==
    \/ step = "junctions" /\ ~gis.junctions
    \/ step \in {"outlines", "fronts"} /\ ~gis.parcels

After(step) ==
    LET i == CHOOSE n \in DOMAIN StepOrder : StepOrder[n] = step
        later == {n \in DOMAIN StepOrder : n > i /\ ~Skipped(StepOrder[n])}
    IN StepOrder[CHOOSE n \in later : \A m \in later : n <= m]

GisDone(step) == gis' = IF After(step) = "idle" THEN NoGis ELSE [gis EXCEPT !.at = After(step)]

\* What a table holds once its file is read: a missing file and one that cannot be read leave
\* it alone, one without features empties it; of the boundary alone that is an error.
Loaded(d, content) ==
    CASE content \in Editions -> content
      [] content = Void /\ d # Boundary -> 0
      [] OTHER -> tables[d]

ImportTable(step) ==
    /\ gis.at = step
    /\ step \in DOMAIN TableOf
    /\ tables' = [tables EXCEPT ![TableOf[step]] = Loaded(TableOf[step], staging[TableOf[step]])]
    /\ GisDone(step)
    /\ UNCHANGED <<published, files, vocabulary, junctions, hydrants, left>>

\* The seed is applied again; no term is taken away.
\* Plausible bug: the table is emptied first, as the step once did.
Bug_Seeded == SeedTerms
Seeded == vocabulary \cup SeedTerms

ImportVocabulary ==
    /\ gis.at = "vocabulary"
    /\ vocabulary' = Seeded
    /\ GisDone("vocabulary")
    /\ UNCHANGED <<published, files, tables, junctions, hydrants, left>>

\* REBUILD_SQL, in one transaction: the derived rows are deleted and derived again from the
\* roads; a placed junction stays and is not derived over.
Rebuilt == [derived |-> tables[Roads], manual |-> junctions.manual]

ComputeJunctions ==
    /\ gis.at = "junctions"
    /\ junctions' = Rebuilt
    /\ GisDone("junctions")
    /\ UNCHANGED <<published, files, tables, vocabulary, hydrants, left>>

\* A step that fails writes nothing and the import goes on; the junctions alone stop it.
GisStepFails ==
    /\ gis.at # "idle"
    /\ Spend("fault")
    /\ IF gis.at = "junctions" THEN gis' = NoGis ELSE GisDone(gis.at)
    /\ UNCHANGED <<published, files, tableVars>>

\* Killed between two transactions.
GisKilled ==
    /\ gis.at # "idle"
    /\ Spend("fault")
    /\ gis' = NoGis
    /\ UNCHANGED <<published, files, tableVars>>

\* derive_intersections.py on its own; a dry run and a failure are rolled back.
DeriveJunctions ==
    /\ Spend("derive")
    /\ junctions' \in {Rebuilt, junctions}
    /\ UNCHANGED <<published, files, tables, vocabulary, hydrants, gis>>

\* sync_hydrants.py: rows are added and brought up to date, none is ever removed, and each
\* takes the grid of the zone it lies in.  Any page that fails writes nothing.
SyncHydrants ==
    /\ Spend("hydrants")
    /\ hydrants' = [h \in Hydrants |->
           LET seen == IF h \in HydrantsIn[published] THEN published ELSE hydrants[h].seen IN
           [seen |-> seen,
            zone |-> IF seen # 0 /\ tables[Zones] # 0 THEN tables[Zones] ELSE hydrants[h].zone]]
    /\ UNCHANGED <<published, files, tables, vocabulary, junctions, gis>>

\* What people add: incident types learned from corrected calls, and a junction pinned.
LearnTerm(t) ==
    /\ t \notin vocabulary
    /\ Spend("learn")
    /\ vocabulary' = vocabulary \cup {t}
    /\ UNCHANGED <<published, files, tables, junctions, hydrants, gis>>

PlaceJunction(j) ==
    /\ j \notin junctions.manual
    /\ Spend("place")
    /\ junctions' = [junctions EXCEPT !.manual = @ \cup {j}]
    /\ UNCHANGED <<published, files, tables, vocabulary, hydrants, gis>>

TablesNext ==
    \/ StartGisImport
    \/ \E step \in DOMAIN TableOf : ImportTable(step)
    \/ ImportVocabulary
    \/ ComputeJunctions
    \/ GisStepFails
    \/ GisKilled
    \/ DeriveJunctions
    \/ SyncHydrants
    \/ \E t \in Terms : LearnTerm(t)
    \/ \E j \in Junctions : PlaceJunction(j)

TablesTypeOK ==
    /\ tables \in [1..4 -> 0..MaxEdition]
    /\ vocabulary \subseteq Terms
    /\ junctions \in [derived : 0..MaxEdition, manual : SUBSET Junctions]
    /\ hydrants \in [Hydrants -> [seen : 0..MaxEdition, zone : 0..MaxEdition]]
    /\ gis.at \in {StepOrder[n] : n \in DOMAIN StepOrder}
=============================================================================
