------------------------------ MODULE TileArchive ------------------------------
(***************************************************************************)
(* The map tiles kept for use without a network: the polygon that selects   *)
(* them (export_tile_coverage.py), the two crawlers that fetch them         *)
(* (compile_mbtiles.py, crawl_cadastral_tiles.py), finalize_mbtiles.py and  *)
(* the gateway's tile proxy (routers/tiles.py).                             *)
(*                                                                         *)
(* A crawler fetches with many threads and inserts in batches of one        *)
(* transaction each; a run that is killed loses its open batch and the next *)
(* run takes up what the archive does not hold.  Opening an archive puts it *)
(* in WAL mode, in which the tile server, whose mount is read-only, cannot  *)
(* open it.                                                                *)
(***************************************************************************)
EXTENDS CityTables, FiniteSets

CONSTANTS
    Tiles,      \* tile coordinates
    TilesIn,    \* [Editions -> SUBSET Tiles]: those that touch the city
    Loose,      \* tiles in the directory of single files
    TileBatch   \* tiles of a transaction

ASSUME TileConstantsOK ==
    /\ TilesIn \in [Editions -> SUBSET Tiles]
    /\ Loose \subseteq Tiles
    /\ TileBatch \in Nat \ {0}

VARIABLES
    coverage,  \* the edition of the boundary in the coverage file, 0: no file
    archives,  \* [Layers -> [tiles, wal]]
    crawl      \* the crawler that runs, or how the last one ended

tileVars == <<coverage, archives, crawl>>
dbVars == <<published, files, tableVars, gis>>

Layers == {"ortho", "cadastral"}

NoCrawl == [layer |-> "ortho", at |-> "idle", wanted |-> {}, todo |-> {}, batch |-> {}, failed |-> 0]

TilesInit ==
    /\ coverage = 0
    /\ archives = [l \in Layers |-> [tiles |-> {}, wal |-> FALSE]]
    /\ crawl = NoCrawl

\* An empty boundary table exports nothing.
ExportCoverage ==
    /\ Spend("export")
    /\ coverage' = IF tables[Boundary] = 0 THEN coverage ELSE tables[Boundary]
    /\ UNCHANGED <<archives, crawl, dbVars>>

\* compile_mbtiles.py takes the loose files of its layer before it looks for the coverage;
\* --skip-downloads ends it there.  Without the coverage polygon a crawl stops: there is no
\* bounding box to fall back on.
StartOrtho(skip) ==
    LET held == archives["ortho"].tiles \cup Loose IN
    /\ crawl.at # "fetching"
    /\ Spend("ortho")
    /\ archives' = [archives EXCEPT !["ortho"] = [tiles |-> held, wal |-> TRUE]]
    /\ crawl' = IF skip \/ coverage = 0 THEN NoCrawl
                ELSE [layer |-> "ortho", at |-> "fetching", wanted |-> TilesIn[coverage],
                      todo |-> TilesIn[coverage] \ held, batch |-> {}, failed |-> 0]
    /\ UNCHANGED <<coverage, dbVars>>

\* crawl_cadastral_tiles.py: with nothing missing it closes the archive and returns.
StartCadastral ==
    LET held == archives["cadastral"].tiles
        wanted == TilesIn[coverage]
    IN
    /\ crawl.at # "fetching"
    /\ coverage # 0
    /\ Spend("cadastral")
    /\ archives' = [archives EXCEPT !["cadastral"].wal = TRUE]
    /\ crawl' = [layer |-> "cadastral", at |-> IF wanted \subseteq held THEN "ended" ELSE "fetching",
                 wanted |-> wanted, todo |-> wanted \ held, batch |-> {}, failed |-> 0]
    /\ UNCHANGED <<coverage, dbVars>>

\* A tile arrives, in whatever order; a full batch is committed.
Fetched(t) ==
    LET batch == crawl.batch \cup {t}
        full == Cardinality(batch) >= TileBatch
    IN
    /\ crawl.at = "fetching"
    /\ t \in crawl.todo
    /\ archives' = IF full THEN [archives EXCEPT ![crawl.layer].tiles = @ \cup batch] ELSE archives
    /\ crawl' = [crawl EXCEPT !.todo = @ \ {t}, !.batch = IF full THEN {} ELSE batch]
    /\ UNCHANGED <<coverage, dbVars, left>>

\* Its attempts are used up; it is counted.
NotFetched(t) ==
    /\ crawl.at = "fetching"
    /\ t \in crawl.todo
    /\ Spend("fault")
    /\ crawl' = [crawl EXCEPT !.todo = @ \ {t}, !.failed = @ + 1]
    /\ UNCHANGED <<coverage, archives, dbVars>>

\* What is left of the last batch is committed; the cadastral crawler takes its archive out of
\* WAL mode.
\* Plausible bug: the last batch, which is not full, is not committed.
Bug_LastBatch == {}
LastBatch == crawl.batch

EndCrawl ==
    /\ crawl.at = "fetching"
    /\ crawl.todo = {}
    /\ archives' = [archives EXCEPT
           ![crawl.layer] = [tiles |-> @.tiles \cup LastBatch, wal |-> crawl.layer = "ortho"]]
    /\ crawl' = [crawl EXCEPT !.at = "ended", !.batch = {}]
    /\ UNCHANGED <<coverage, dbVars, left>>

CrawlKilled ==
    /\ crawl.at = "fetching"
    /\ Spend("fault")
    /\ crawl' = NoCrawl
    /\ UNCHANGED <<coverage, archives, dbVars>>

\* finalize_mbtiles.py: every archive, one failing or not.
Finalize ==
    /\ crawl.at # "fetching"
    /\ Spend("finalize")
    /\ \E done \in SUBSET Layers :
         archives' = [l \in Layers |-> IF l \in done THEN [archives[l] EXCEPT !.wal = FALSE]
                                       ELSE archives[l]]
    /\ UNCHANGED <<coverage, crawl, dbVars>>

\* What the proxy answers for a tile: what the tile server has, else the loose file, else a
\* transparent pixel with status 200.
Served(l, t) ==
    IF t \in archives[l].tiles /\ ~archives[l].wal THEN "tile"
    ELSE IF l = "ortho" /\ t \in Loose THEN "file"
    ELSE "blank"

TilesNext ==
    \/ ExportCoverage
    \/ \E skip \in BOOLEAN : StartOrtho(skip)
    \/ StartCadastral
    \/ \E t \in Tiles : Fetched(t) \/ NotFetched(t)
    \/ EndCrawl
    \/ CrawlKilled
    \/ Finalize

TilesTypeOK ==
    /\ coverage \in 0..MaxEdition
    /\ archives \in [Layers -> [tiles : SUBSET Tiles, wal : BOOLEAN]]
    /\ crawl.todo \subseteq crawl.wanted

\* A crawl that ends without a failed tile leaves no tile of its selection out of the archive,
\* whatever earlier runs were killed in the middle of a batch.
CrawlIsComplete ==
    crawl.at = "ended" /\ crawl.failed = 0 => crawl.wanted \subseteq archives[crawl.layer].tiles
=============================================================================
