# TLA+ models of the fire dispatch system

The repository turns the radio traffic of a fire department into calls on apparatus-bay
displays: a host process listens for station tones, records the announcement, transcribes
and geocodes it, and broadcasts the result, early from a chunk (phase 1) and again from the
complete recording (phase 2). Around it stand a gateway with a database, a display, a feed of
road closures, and the scripts that fetch and import the City's open data. This directory
specifies the parts in which something can go wrong between two processes, two requests, two
events or two rules, checks them with TLC, and proves the safety of most of them with TLAPS.

Paths below are relative to `src/`; `CFR` stands for `backend/cfr_dispatch`, `GIS` for
`services/gis/src/gis_service`.

## 1. The system

### Components and their state

| Component | Code | State | Operations |
|---|---|---|---|
| Audio listener | `CFR/audio_listener.py`, `services/audio_analysis/.../sound_capture.py` | loop position, capture in progress, dispatch_id | hear, analyse a tone, capture, enqueue checks, enqueue the recording, stop |
| Dispatch queue | `.../dispatch_queue.py` | `multiprocessing.Queue(maxsize=10)` | `put_nowait`, displace the oldest, `put_nowait` again |
| Worker | `CFR/worker.py` | current task, session manager | boot, `get()`, phase 1, phase 2, exit on the pill |
| Supervisor | `CFR/worker_supervisor.py` | `_stop`, `gave_up`, `_restart_times`, `_process` | look every 15 s, respawn, give up |
| Shutdown | `CFR/shutdown.py`, `CFR/orchestration.py` | stop event | SIGTERM, `drain_and_stop`, exit handlers |
| Phase 1 / phase 2 | `CFR/pipeline/phase1.py`, `phase2.py` | none of their own | transcribe, compare, record, post or patch, publish, push, clean up |
| Payload builder | `CFR/pipeline/payload_builder.py`, `near_roads.py`, `map_grid_verification.py` | none | choose the candidate, place, route, grid, flags |
| GIS service | `GIS/geocoder.py`, `address_resolver.py`, `intersection_resolver.py`, `routing_engine.py`, `spatial_queries.py` | junctions read once per process | seven rungs of resolving a location; routing a unit |
| Session store | `CFR/session_store.py` | table `dispatch_sessions` | record, read, `is_triggered`, sweep by TTL, clean up |
| Notification clients | `services/dispatch_notifications/...` | none | HTTP with a 10 s timeout, MQTT, ntfy |
| Gateway, dispatches | `backend/api/routers/dispatches.py`, `mqtt.py` | table `dispatches` | POST (upsert), PATCH, DELETE, GET; each publishes |
| Gateway, parcels and tiles | `backend/api/routers/parcels.py`, `tiles.py` | tables `parcels`, street view; tile archives | address to row, search, entrance, street view, serve a tile |
| Kiosk queue | `frontend/src/hooks/useKioskQueue.js`, `useMqttListener.js` | `activeCall`, `queuedCalls`, `isReviewMode`, dismissed ids | insert, update, dismiss, advance, countdown, restore, replay |
| Review console | `frontend/src/components/DispatchReview.jsx` | the operator's copy of a record | load, save, delete, replay |
| Road closures | `backend/api/road_closure_service.py`, `routers/road_closures.py` | table `road_closures`, sync status, 60 s cache | ingest two feeds, deactivate, purge, serve, invalidate |
| City data on disk | `backend/scripts/download_gis_data.py`, `update_gis_data.py` | staging files, two shapefile folders and their backups, a timestamp | download, set aside, unpack, fix winding, revert |
| City data import | `backend/scripts/import_gis_data.py`, `derive_intersections.py`, `sync_hydrants.py` | tables of roads, names, boundary, zones, vocabulary, junctions, hydrants | ten steps, each a transaction of its own |
| Parcel import | `backend/scripts/import_parcels.py` | table `parcels` | delete, insert, centres, base sites, front points |
| Tile archives | `backend/scripts/compile_mbtiles.py`, `crawl_cadastral_tiles.py`, `finalize_mbtiles.py`, `export_tile_coverage.py` | two MBTiles files, a coverage polygon | select, fetch in batches, resume, finalise |
| Parser, STT | `CFR/parser`, `CFR/stt` | none | functions of their input |
| Others | `auth`, `hydrants`, `streetview` proxy, `vocabulary`, `evaluations`, other scripts, map presentation | none that is shared | reads, proxies, one-off jobs |

### How they interact

```
radio -> listener --put_nowait--> queue --get--> worker --HTTP--> gateway --SQL--> dispatches
              ^                     ^            | |  \                  \
           SIGTERM            pill  |            | |   +--MQTT--+         +--MQTT--> kiosks
              |                     |            | |             \                    ^ |
        main thread: drain_and_stop-+            | dispatch_     +--> kiosks         | | restore,
              |                                  | sessions              operator ---+ + replay
        supervisor thread --respawn--> worker    |                    (review console, entrances)
                                                 |                              |
                        geocoder, router <-------+                              |
                             | reads                                            v
   City --download, update--> files --import--> roads, zones, junctions, parcels <-- gateway
                                                      | boundary
                                                      +--> coverage --> crawlers --> archives
```

Shared state without a common lock: the queue (listener, worker, main thread, and the reader
lock inside it), the worker's process object (watch thread, main thread), the tables (worker
directly, gateway threads, scripts), the screen (MQTT callbacks, the answer of a request sent
earlier, a timer, taps), the folders and archives (scripts that are killed and run again).

### What is hard, and what must hold

* **Agent.** Displacement from a full queue races the worker's `get`; a crash may strike while
  the worker holds the queue's reader lock; SIGTERM may arrive in any state, and reaches a
  worker that has not yet ignored it; the watch thread may act while the main thread stops it.
  A recording must be in one place, settle once, in order; the listener must never block; the
  stop must end.
* **Pipeline.** Sessions may fail to be written, be swept or be unreadable; requests may fail,
  time out and still take effect; two publishers announce the same call. A call must be
  announced once, must end up stored with its recording, and must be shown as it is stored.
* **Placing a call.** Seven rungs answer, each worse than the one before, and any query may fail
  on the way down and be taken for "not found". The first minute may show only what is
  certain; phase 2 then overrides some keys of a record whose other keys belong to another
  place. A guess must carry its note, and routes and flags must belong to the place shown.
* **Gateway.** Requests interleave between the read of a row, the commit, the re-read and the
  publication. No write may erase what it is not about.
* **Kiosk.** Events come twice, late or not at all; the restore request and the replay request
  are answered into a screen that has changed. No call may double, vanish, or come back after
  it was dismissed.
* **Road closures.** Two feeds succeed or fail independently and share one table; the list and the
  outcome of its synchronisation are committed, read and cached separately; the daemon and the
  admin may synchronise at once. A list without a flag must be what the feeds give, and an
  incomplete one must carry the flag.
* **City data.** Scripts of many transactions fail in the middle, are killed and overlap, while the
  console writes to the rows they replace. What people entered must outlive them; a failed update
  must put back what it found; a script that ends well must leave one edition.

`PROJECT.json` lists the hazards with their lines and the properties that cover them.

## 2. The modules

| Module | Models | Uses |
|---|---|---|
| `CallLog` | what the agent promises: a log of calls, each settled once, finalised in order | - |
| `DispatchAgent` | listener, queue, worker, supervisor, main thread | `CallLog` (refinement) |
| `DispatchAgentProofs` | theorems about `DispatchAgent` | extends it, TLAPS |
| `DispatchLogProofs` | the proof that `DispatchAgent` implements `CallLog` | extends `DispatchAgentProofs` |
| `GatewayStore` | the dispatch endpoints, their table, the operator | - |
| `DispatchPipeline` | phase 1 and phase 2 step by step, the session store, the broadcasts | extends `GatewayStore` |
| `DispatchPipelineProofs` | theorems about types, sessions, announcements, writes | extends it, TLAPS |
| `DispatchRecordProofs` | theorems about complete records and what kiosks show of them | extends `DispatchPipelineProofs` |
| `StreetNames` | the normalisation of wordings, the municipal tables | - |
| `AddressResolution` | the rungs that answer from parcels and roads | extends `StreetNames` |
| `JunctionResolution` | intersections | extends `AddressResolution` |
| `Geocoder` | the ladder of rungs, questions about a point | extends `JunctionResolution` |
| `Routing` | home stations, the router, what is said when none answers | - |
| `CallRecord` | near roads, verified grids, payload, review flags | extends `Geocoder`, `Routing` |
| `CallPlacement` | a call from its first round to its final record | extends `CallRecord` |
| `CallPlacementProofs` | theorems about `CallPlacement` and the modules below it | extends it, TLAPS |
| `KioskQueue` | the display | - |
| `KioskQueueProofs` | theorems about `KioskQueue` | extends it, TLAPS |
| `ClosureSync` | the ingestion of road closures, its recorded outcome, the cache of the list | - |
| `ClosureSyncProofs` | theorems about `ClosureSync` | extends it, TLAPS |
| `CityFiles` | staging files and folders, download and update | - |
| `CityTables` | the import of the municipal tables, junctions, hydrants | extends `CityFiles` |
| `ParcelStore` | table `parcels`: the import and the endpoints | extends `CityTables` |
| `TileArchive` | coverage, the two crawlers, finalisation, what is served | extends `CityTables` |
| `CityData` | the composition of the four | extends `ParcelStore`, `TileArchive` |
| `CityDataProofs` | theorems about `CityData` | extends it, TLAPS |
| `MC...` | model values, small tables and plans for TLC | the module named |

### DispatchAgent

One variable per piece of state the code keeps: `lst`/`cap`/`checks` are the listener's place in
its loop, `queue` the tasks, `rlock` the reader lock inside `multiprocessing.Queue` (`"held"`
while the worker waits in `get()`, `"orphaned"` when it was killed there), `wk`/`cur` the worker,
`sup`/`supStop`/`gaveUp`/`recent`/`epoch` the supervisor (`epoch` tells which process
`_process` names, because `drain_and_stop` joins the one it saw), `term` the stop event,
`main`/`awaited`/`verdict` the main thread after the listener. `heard` and `stage` are history:
what became of each recording.

`enqueue_dispatch_task` of a phase 1 check is one action (`OfferPhase1`: one `put_nowait`); that
of a recording is three (`OfferPhase2`, `MakeRoom`, `RetryPhase2`), because the worker may take a
task between any two of its calls. The watch thread is split where it reads shared state: the
stop flag in `SupervisorWakes`, the process in the action after it. `drain_and_stop` is split
into `StopSupervisor`, `PutPill`, `CheckWorker`, `JoinReturns`. What multiprocessing and systemd
do is external: `TerminateChildren`, `Exit`, `WorkerCrashes`, `Killed`.

Audio, fingerprints and tone matching are a choice between `RejectTone` and `ConfirmTone`; what a
task does is `WorkerFinishes` here and all of `DispatchPipeline` there. A capture that yields
nothing does not occur: the analysis buffer that confirmed the tone starts it.

### GatewayStore and DispatchPipeline

A request is a record in `req`, one per gateway thread, with the row it read in `seen`; the
actions are the points at which another request can come in between (`ReadRecord`, `CommitInsert`,
`CommitUpdate`, `CommitDelete`, `RefreshRecord`, `PublishEvent`). `EventLost` is the publication that has no
client or fails: swallowed, answered 200, not sent again (`api/mqtt.py:38-39, 48-49`); `unsent` remembers the
calls whose latest event was lost that way, until one that carries the whole record comes through.
`Merge` writes only the columns whose
value differs from the one read, which is what the ORM does; `Settle` is `_settle_is_test`.
Of a record the model keeps what the properties tell apart: the place its `target` gives (phase
1's `"chunk"` or phase 2's `"full"`), the flag inside `target`, whether a recording is named,
whether an operator reviewed it. `shown` is what a display that hears every event shows.

The worker is `pc`, `call`, `awaited` (the thread that handles its request) and `form` (the branch
of phase 2). Every step that writes or sends is an action, in the order of the code: session,
request, answer or timeout, publication, push, clean-up. A request the worker gave up on goes on
in the gateway, for `"nobody"`. Tasks arrive as `DispatchAgent` delivers them: calls one after the
other, checks before the recording (`Phase1First` is what justifies it), any of them possibly
missing (`Phase2Lost`).

Left out: test calls (`is_test` tasks, which nothing under `src/` produces); a failed write of the
recording (its URL is returned all the same); `INTEGRATION_PAYLOAD_OPTION = 1` (the shipped value
is 2). `Phase2Raises` is possible before the update is sent: what follows it swallows its own errors.

### From StreetNames to CallPlacement

A wording is a sequence of words; how alike two different wordings are (thefuzz), distances and
travel times are tables of the instance (`Alike`, `Metres`, `Minutes`), since the code takes them from
a library, from PostGIS and from the router. Everything between is translated: which words are noise,
which candidates a rung considers and in which order, what a hint (grid, near roads) narrows, when a
rung declines, and what its note states. An answer says where the pin is (`place`), which wording is
shown, how sure it is and which rung gave it. Every rung opens a connection of its own and takes a
database error for "not found", so an attempt carries the set of rungs that fail (`down`); the index of
junctions is read once, when the process starts (`loaded`).

The candidates of a question are a set; where the code sorts a list and takes its head or its first few, the
model names the order (`Before`, `Ahead`, `FirstReading`, `TableOrder`) and takes what comes first in it. The readings of
an overlong number are what is left when digits are left out (`OneLess`, twice for six digits).

`GetCoordinates` is the ladder of `geocoder.py`. `CallPlacement` takes it as the constant `Geocoded`, a
function on `Attempts`, with an assumption that says it is `GetCoordinates`: TLC works it out once per
attempt, not once per state.

The state machine has a call's two phases: `Phase1` builds a record from a round that is whole (a
location, units, an incident); phase 2 is one of `Phase2Single` (no session), `Phase2Match` (the same place heard again),
`Phase2Correct` (another place, which the geocoder finds) and `Phase2Keep` (another place that it does not
find, or none). `DispatchPipeline` has the same branches as `form`: there the order of writes matters,
here the keys of the record. The number of a block is kept as it was said; the code rounds it down to
the hundred in the address it asks for again (`address_resolver.py:730`), as the rung itself does. Between the
phases the database and the router may have gone away or come back: each phase chooses its own outage.

### KioskQueue

`active`, `queued`, `reviewing` and `dismissed` are the hook's state; `wire` the events published and not yet
received; `fetch`/`answer` the restore request, `loading`/`copy` the replay request. A React handler is
atomic, a request is not: `ServerReads` and `Restore`, `AskReplay`, `ServerReadsReplay` and `ReplayLoads` are
separate actions. A row that the review console holds in full, from the events its own subscription brought,
is replayed at once as it is held (`ReplayCopy`): any version up to the stored one, since the two
subscriptions lose and deliver independently. A call is its id and the version of its record, since a merge is
about which of two versions wins. Clocks are abstracted to whether they run; `isTimerPaused` is never set; a
DELETE is ignored by the kiosk and so not modelled; dismissed ids do not expire in the model (in the code they
do, when the call is too old to be restored anyway); and a browser that refuses to store them
(`useKioskQueue.js:36-38, 50-51`, where the code accepts that a call is shown twice) is not modelled.

### ClosureSync

`table` is `road_closures` (of a row its dates, whether it is active and when it was updated), `status`
the single row of `road_closure_sync_status`, `published` what the two feeds give. An attempt of the
`"daemon"` or of the `"admin"` is a record in `sync`: it reads one feed, then the other, looks up the row
of each notice, commits, and records its outcome. `CommitClosures` is the whole transaction after the
lookups: the two bulk updates, the purge, the flush and the commit. The session does not flush by itself
(`autoflush=False`), so `Swept` (bulk updates and purge) is taken of the stored rows and `Flushed`
writes over it what differs from the rows as they were loaded (`seen`). A feed that fails half-way
leaves what it had given, and does not count as `reached`. A date that a notice does not give is a day
that never comes.

GET is `ReadList` and `ReadOutcome`, two queries of two transactions under the lock (`get`), and `cache`
is the pair it keeps; `Invalidate` waits for that lock. The daemon invalidates after each of its attempts, those
that raised included (the service catches the exception and answers FAILED), and POST /sync after one that
raised nothing; a daemon that cannot read the outcome back (`ReadBackFails`) does not come to it. A pair may
expire at any time. The fast path that reads a kept pair without the lock loads one reference and is not an
action.

`unread`, `unrecorded` and `unheard` are history, and so are `alone`, `found` and `now` of `status`. Left out:
the geometry filters and severities.

### CityFiles, CityTables, ParcelStore, TileArchive and CityData

Of a file, a folder, a table or a row the model keeps the *edition* of the City's data that it holds:
1, 2, or nothing, something torn, or something well formed and empty. `left` counts what the plan of a
behaviour has left of each kind of event (a bound of the models, not a state of the code).

* `CityFiles`: `upd` is the step at which `update_gis_data.py` is: fetch, then per folder set aside and
  unpack, fix the winding, drop the copies, mark the success. The archives are fetched one after the other
  and may be of two editions. Any step may raise (`UpdateFails`; then `Revert`, folder by folder, which may raise
  itself, `RevertFails`) or the script be killed there (`UpdateKilled`); `CutShort` is what such a step leaves of
  its folder and of the copy: `copytree` goes on after a file it cannot copy and raises at the end. `loose`
  (history) has the folders whose copy is not one that this run made whole. `dl` is the dataset at which the
  download is.
* `CityTables`: the steps of `import_gis_data.py` in order (`StepOrder`). A table is replaced in one
  transaction; a step that fails is logged and the next begins (`GisStepFails`); steps whose file is
  missing are skipped. Junctions keep the edition of the roads they derive from and those a person placed.
* `ParcelStore`: `imp` is the step of `import_parcels.py`, each a transaction: create, delete the City
  rows, insert them in another transaction, centres in chunks, base sites, fronts in chunks, clear.
  A row covers a set of lots; `rulings` numbers the arrival points that people enter, `card` is the one
  being entered: the console reads the row of an address and writes by its id later. A statement that the
  database refuses (`Refused`) fails its step: outlines into a column of points, or two sites of one address.
* `TileArchive`: `crawl` is the crawler that runs, with the tiles it wanted, those left, and the batch that
  is not committed; a kill loses the batch. `wal` is the journal mode the archive is left in.

`CityData` composes them: every action of one leaves the variables of the others alone, and what they share
(tables, `left`) interleaves. Each script runs in one instance at a time, as the timers and people
start them.

## 3. What is checked

All runs use `tlc -config <cfg> <module>`.

| Run | Module, cfg | Result | Shows |
|---|---|---|---|
| agent_safety | MCDispatchAgent, AgentSafety | passes, 0.8 M states | types; `OnePlace`; `Phase1First`; `PillMeansDrained`; `GracefulStop`; the agent implements `CallLog` |
| agent_live | MCDispatchAgent, AgentLive | passes | captures end; dead workers are noticed; accepted recordings settle; SIGTERM leads to the exit |
| agent_deaf_worker | MCDispatchAgent, AgentDeafWorker | violated | one crash inside `get()` leaves the agent deaf |
| pipeline_safety | MCDispatchPipeline, PipelineSafety | passes, 3.1 M states | announced once; session closed; final means complete; shown as stored; nothing erased |
| pipeline_live | MCDispatchPipeline, PipelineLive | passes | the worker gets back to its queue |
| pipeline_record | MCDispatchPipeline, PipelineRecord | violated | a call phase 2 finished is in no table |
| call_placement | MCCallPlacement, CallPlacement | passes, 8 k states | types; no quiet guess; more said is never worse; the first minute shows what was heard; routes and flags follow the record |
| call_approximation | MCCallPlacement, CallApproximation | violated | a call that phase 2 corrects to an approximation carries no note |
| kiosk_safety | MCKioskQueue, KioskSafety | passes, 2.2 M states | no call doubles, vanishes, returns dismissed or stays behind |
| closure_safety | MCClosureSync, ClosureSafety | passes, 2.7 M states | types; the list follows the feeds; no removal goes unnoticed; the cached pair follows the attempts |
| closure_extended | MCClosureSync, ClosureExtended | violated | a closure whose end was moved is taken off the list, without a flag |
| city_data | MCCityData, CityData | passes, 0.5 M states | failed updates revert; crawls are complete; what people entered survives and is what is read; fronts and base sites are of one edition |

Every property of a passing run has a mutant in `PROJECT.json`: a plausible bug (operators named
`Bug_...`, next to the definition they stand in for) under which TLC finds that property violated.

### Disagreements between the code and what it says

Four runs end in a violation. Each checks one sentence of the repository; `findings` in
`PROJECT.json` quotes it.

1. *agent_deaf_worker.* `worker_supervisor.py:40-42`: a one-off crash "always recovers". Not one that
   strikes inside `get()`: the lock stays taken, and the new worker is alive and deaf.
2. *pipeline_record.* `dispatch_queue.py:22-26`: phase 2 "is what persists and broadcasts the dispatch".
   When phase 1 stored its session and its POST failed, phase 2 PATCHes a record that is not there.
3. *call_approximation.* `geocoder.py:149-151`: every approximation "sets resolution_note", which raises
   the banner. A place that phase 2 corrects takes over address and coordinates, not the note.
4. *closure_extended.* `routers/road_closures.py:147-148`: "no flag and no closures means the source was
   reached and the City has none". A closure stays active past its end until the next attempt; when
   that attempt reads a later end, the bulk update still sees the old one and deactivates it
   (`road_closure_service.py:787-792`), and the flush does not write `active`, which had not changed.

### Observations

Met while reading or modelling; some are behaviours of the models that a property excepts, none is
checked by a run of its own.

* `dispatch_queue.py:28-29`: a recording displaces an older task "rather than being dropped itself".
  The worker's `get()` may drain the queue between `Full` and `get_nowait`, or hold the reader
  lock, so that nothing is displaced, and the queue may be full again: it is dropped (`RetryPhase2`).
* `useKioskQueue.js:225-227`: five records are restored so as not to drop "the one the crew is
  actually on"; an INSERT that beats the answer makes it drop the older of two.
* The replay of a record that the console read, or got, before the call's last UPDATE shows the older record,
  and nothing corrects it when the display has received that UPDATE already.
* A replay whose record loads after a live call arrived turns the review mode on over it.
* `import_parcels.py:729-731`: City rows "carry NO operator data". `POST /entrance` writes to a
  City row when the address is that of a single lot (`routers/parcels.py:499-500`), and the next import
  deletes it.
* `routers/parcels.py:509-513`: of several rows of an address without a base site the gis id picks the one
  that is written; the resolver reads the one with the lowest id.
* A base site whose property shrank to one lot keeps the outline of the older edition and is the first to
  answer for its address; one whose property is gone stays too.
* `import_gis_data.py:625`: step 10 makes the geometry column one of points. An import of parcels under way
  cannot insert outlines after that and fails with the City rows already deleted; after an import every outline is
  a point until the next one.
* A download that is well formed and empty empties the table it is imported into; grids that parcels
  and hydrants store stay those of older zones; a hydrant that the City removed is never removed.
* `update_gis_data.py:173-181`: the except clause takes any `*_backup` for a whole copy. A `copytree` that raises
  (100) leaves part of one beside an intact folder, which is then wiped and replaced by that part; a copy that a
  killed run left half written is put back when a later run fails before it sets that folder aside. A copy
  that cannot be dropped (167) has been emptied in part and is put back over the new folder; when the first copy
  is gone already, its folder stays new and the other is put back old. An exception in the clause itself ends the
  script with the second folder not put back.
* `crawl_cadastral_tiles.py:407-410`: a resumed crawl that misses nothing returns before the archive leaves
  WAL mode, in which the tile server, whose mount is read-only, cannot open it.
* `routers/road_closures.py:258-272`: a POST /sync that raises does not drop the cached pair, though it has recorded
  its failure; the flag reaches the kiosk up to 60 s late. The same holds of a daemon whose query for the outcome
  fails (`road_closure_service.py:859`), where the comment at 282-287 of the router wants every attempt heard.
* `phase2.py:227-230`: the units of the final record are those of the first candidate that has an address, of
  each phase. Units that only another wording of the announcement named are lost; when there are no others the
  record has no units and the flag `NO_UNITS`, and keeps the routes phase 1 worked out for them.
* With the router down in phase 2 the ETA of phase 1 is lost where the units changed; a database that is
  away for a moment makes the note say "not in City records".
* `location_pending` is not cleared where phase 2 keeps phase 1's record.
* The engine of the session store has no timeout; a recording that could not be written still gets a
  URL in the record.

### Bounds, and why they are enough

* *Agent.* `QMax = 2` with three calls and one check each: the queue fills, a recording displaces a
  check and another recording, and a third is refused. `MaxRestarts = 1` with two faults reaches the
  ceiling. The liveness run has two calls (it is without symmetry). `FaultPoints` names the worker's
  states in which it may be killed; the liveness run leaves out `"reading"`, which run
  agent_deaf_worker is about, and `"ready"`, which differs from `"booting"` in nothing a fair
  respawn depends on.
* *Pipeline.* One call is enough for what two requests, an operator and two faults do to it: the
  code shares nothing between calls but the sweep, and the liveness run has two. Two threads are the
  least at which requests interleave. Two checks: one that records a session and one that finds it.
* *Placement.* A city made for the rules: two streets that sound alike with a lot of the same number on each,
  a number that no lot has between two that exist, a number with a digit too many, a block of a
  divided road, a pair of streets that meets twice, a road without lots. Eleven locations, with and without near
  roads and grids, heard once or twice; three outages (none, the first rung, the later rungs with
  one query of the overlong readings), a process with and without junctions, a router that
  answers or not. A phase hears one announcement, or two that differ in what they name and in who is sent.
* *Kiosk.* Two calls (one shown, one waiting), two events under way, one repetition, one reload, one
  replay, of a record or of a copy of any version; the two calls are symmetric. The restore's `limit=5` is not reached.
* *Closures.* One closure of each feed: the code treats the closures of a feed alike, and what matters is
  which feed was read. Two pairs of dates: one that ends in between, one that starts in
  between. `Retention = 0` days lets the purge happen on the second day. `Plans` has three attempts with two
  upsets (changes of the feeds, failures, restarts) and no reader, and two attempts with one upset and
  two reads that find no pair.
* *City data.* Two editions: all that a script can mix is an older and a newer one. A property of one lot that
  grows to two, one of two that shrinks to one, a street that loses its road, a row of each kind in a chunk
  of three (`Batch`). Two tiles, one wanted by both editions. No plan reaches `MaxRow = 22`,
  the ids for a whole import that `RoomForImport` keeps free. The scripts together have too many
  interleavings for one instance, and a hazard needs two or three of them: `MCPlans` has one plan for each
  thing that may go wrong.

### Fairness

* *Agent.* Weak fairness of each thread of control: an analysis lasts 3.5 s, a capture at most 75 s,
  the handlers of the worker return (see `TaskEnds`), the watch thread wakes every 15 s, and
  the main thread proceeds when it can. Nothing obliges sound to arrive, SIGTERM to be sent,
  faults to happen or restarts to age, and nothing frees an orphaned lock.
* *Pipeline.* Weak fairness of each step of the worker: its requests have timeouts. The session
  store's engine has none; it is assumed to answer or refuse. None for the gateway.
* *Placement*, *Kiosk*, *Closures*, *City data.* None: no liveness is checked. The countdown, the hourly
  attempt and the scripts are in the models, and nothing obliges a crew, a broker, a feed or a person to
  do anything.

Runs say `CHECK_DEADLOCK FALSE` because the agent stops, tasks stop arriving, calls become final
or stop coming, and the bounds on attempts and scripts are used up.

### What the properties exclude, and why

* `FinalMeansComplete` leaves out calls with a step that was cut short or never answered (`missed`); that the
  record exists is asked only while the operator has made no request (`edits = 0`), who may delete it.
  `ShownIsStored` leaves out besides calls two requests were handled for at once (`contended`), calls the
  operator wrote to while the worker was on them (`crossed`), and calls whose latest event the gateway could not
  publish (`unsent`): there the code makes no promise. An event lost earlier is no excuse: each carries the
  whole record, so the next one that comes through must put the screen right.
* `AnnouncedOnce` leaves out calls whose session could not be written, read or kept (`blind`): a second
  announcement is then what the code chooses over none.
* `ShowsLatest` leaves out calls an event of which was lost or met an older record on its way: an UPDATE while a
  restore awaits its answer, an UPDATE later than the record read for a replay, and a replay of the console's
  copy when the UPDATE is past (`missed`). What the replay shows then is older than the record, for good.
* `StopReachesExit` assumes that the main thread is not for ever at `put(None)` with a dead worker and a full
  queue: `drain_and_stop` blocks there until systemd kills it.
* `ListFollowsFeeds`, `NoQuietRemoval` and `AllClearIsTrue` speak of states whose outcome was written by the attempt
  that last changed the table and that ran beside no other (`Settled`). An attempt without notices keeps the
  table on purpose. `CacheFollowsAttempts` speaks of states in which no attempt stands between its commit and
  its invalidation, and leaves out a pair that was read before a POST /sync that raised, or before an attempt of the
  daemon whose outcome it could not read back (`unheard`): neither drops the pair.
* `RoutesFollowPlace` asks for a route per unit only of records that have units; that every route leads to the
  place of the record it asks of all of them.
* `FailedUpdateReverts` leaves out, folder by folder, a copy that the run found and had not yet replaced, one it
  left half made or half dropped or had already dropped, and a folder whose putting back failed (`loose`).
* `SiteMatchesLots` asks for outlines unless step 10 of `import_gis_data.py` has run since the import made the column
  fit for them (`pointsOnly`): every row is a point then.
* `RulingsSurvive` allows what a person does at the console and `--force-drop`, and speaks of base sites.
  `RulingIsRead` leaves out addresses of several rows without a base site. `FrontsAreCurrent` speaks of
  imports during which the roads were not replaced, and of a table of roads that is not empty.

The history variables only record these events; no guard reads them.

## 4. What is proved

From the named assumptions on constants alone, that is for every set of calls, threads, closures,
lots, tiles, streets and hearings, and every bound: all invariants and action properties that the passing runs
check, and the refinement. The assumptions on the layer (`LayerOK`) are that a file lists a record
once and that no gis id reads like an address, which the lookup of both in one field relies on. Those on the
city and on what is heard say that tables are finite, ids and distances are numbers, house numbers are digits and what
the parser hands on has its fields; `GeocodedIsTheLadder` says that the constant `Geocoded` is the ladder.

| Module | Theorem | States |
|---|---|---|
| `DispatchAgentProofs` | `TypeCorrect` | `TypeOK`; the queue never exceeds its capacity |
| | `OnePlaceCorrect` | a recording is in exactly one of listener, queue and worker |
| | `Phase1FirstCorrect` | no check of a call waits behind, or runs after, its phase 2 |
| | `PillMeansDrainedCorrect` | a worker that exits on the pill leaves nothing behind |
| | `GracefulStopCorrect` | a stop without faults costs no accepted recording |
| `DispatchLogProofs` | `RefinesCallLogCorrect` | the agent implements `CallLog`: each call is settled once, and finalised in the order of capture |
| `DispatchPipelineProofs` | `PipelineTypeCorrect` | types; the worker awaits only a thread that is on its request |
| | `SessionClosedCorrect` | phase 2 leaves no session behind |
| | `AnnouncedOnceCorrect` | a call is announced once |
| | `NothingErasedCorrect` | no write erases a recording, a review or a test flag |
| `DispatchRecordProofs` | `FinalMeansCompleteCorrect` | a call whose phase 2 ended normally is stored with its recording and announced |
| | `ShownIsStoredCorrect` | once a call's requests are answered, a kiosk shows it where its record has it |
| `CallPlacementProofs` | `CallTypeCorrect` | types; only what was heard or withheld is asked of the geocoder |
| | `RoutesFollow` | a route leads to the place of the record, or to an end of its stretch |
| | `FlagsFollow` | the flags state what the record itself has |
| | `MismatchIsFlagged` | the action property: a grid that was shown is not replaced without a flag |
| | `ShownWasHeard` | phase 1 shows a number it heard or a junction of the streets it heard |
| | `QuietIsNoGuess` | a location without a note is no guess, whatever queries fail |
| | `MoreSaidIsNeverWorse` | a grid and near roads take no parcel away |
| `KioskQueueProofs` | `KioskTypeCorrect` | types |
| | `NoCallTwiceCorrect` | a call neither waits twice nor behind itself |
| | `NoneLostCorrect` | what was taken in is on show, dismissed, or wiped by a reload or a replay |
| | `StaysDismissedCorrect` | a dismissed call comes back only with another INSERT |
| | `ShowsLatestCorrect` | a call is shown as it is stored once its events have arrived, unless one was lost or met an older answer or copy |
| `ClosureSyncProofs` | `ClosureTypeCorrect` | types |
| | `CacheFollowsAttemptsCorrect` | the cached pair is that of the last attempt, unless that one ended without dropping it |
| | `NoQuietRemovalCorrect` | nothing is taken off the list in silence while its feed is unread |
| | `ListFollowsFeedsCorrect` | after a success the list holds what the feeds gave |
| `CityDataProofs` | `CityDataTypeCorrect` | types; ids stay below the sequence, and an import works on such ids |
| | `RulingIsReadCorrect` | what the console enters is on the row a dispatch reads |
| | `FrontsAreCurrentCorrect` | an import leaves front points of the edition of the roads it saw |
| | `SiteMatchesLotsCorrect` | an import leaves the rows and the base sites of its layer, with their outlines unless step 10 came after |
| | `FailedUpdateRevertsCorrect` | a failed update leaves each folder as found, unless its copy was not whole or its putting back failed |
| | `CrawlIsCompleteCorrect` | a crawl that ends without failures has every tile it wanted |
| | `RulingsSurviveCorrect` | the action property: no script takes off what people entered |

Each proof goes action by action over an inductive invariant that TLC was asked about first.

* *Agent.* None but the first is inductive. That the pill drains the queue needs that the pill is the last
  task, which needs that nobody puts anything after it, which needs that the listener is done once the
  main thread is past `"listening"`; that a displaced recording leaves the queue needs that it stood there
  once; that `"exited"` means drained needs all of them. `Bookkeeping` states how the threads' program
  counters constrain what they share; the invariant is `TypeInv`, `Bookkeeping` and, per call, `Placed`.
  Lemmas state once what `Append` and `Tail` do to the positions of a task. `GracefulStop` adds `StopInv`:
  without faults only `SIGTERM` kills a worker that has not booted, which is on no task.
* *Refinement.* A step of `DispatchAgent` is one of `CallLog` or a stutter: `ConfirmTone` captures, `WorkerFinishes` on a
  recording finalises, `WorkerDies`, `MakeRoom`, a refusal, `ListenerRaises` and `Killed` lose, and the rest changes
  no outcome. Only the order needs more than the state of one call. `Order` says that `heard` names every captured
  call once, that what the listener has in hand is its last, and, of any call and a later one (`Precedes`), that the
  queue holds them in that order and that the later reaches the worker only when the earlier is settled.
* *Pipeline.* `Type` has, besides the types, which request the awaited thread is on. `OnItsWay` says that a call
  which phase 1 or the head of phase 2 is on is still open; with it `SessionClosed` is inductive. `Once` adds that an
  announced call has a session, or has ended, or is in a phase 2 past reading it. `FlagsInv` says that every
  stored record, request and copy of the console has a flag in its target: `Settle` then always writes it
  back, `Merge` only adds recordings and reviews, and `NothingErased`, an action property, follows.
* *Complete records.* `Clients` says whose the requests are: one the worker gave up on belongs to a call with a
  step that missed. `Way` says of every other call what its request has read and will write (`Read`, `Request`),
  what its session means (`Opened`: phase 1 stored and announced it), how far phase 2 has come (`Progress`),
  and what remains at the end (`Stored`). A step of the gateway keeps or inserts a row and keeps what is said of the
  awaited request; an operator's request is another thread's.
* *What kiosks show.* `ShownInv` adds to it, of a call whose requests never overlapped: at most one request of it is
  in the gateway; between two requests a kiosk shows the row's place, unless the latest event was lost; while one
  is under way its thread holds what is stored, or what it will store and publish. The worker's own INSERT comes before its
  request and names the place that the request leaves stored. `PlaceInv` says that places that are stored, sent or
  shown are real ones, so that a kiosk that shows none has not got the call yet. An event that lands leaves the
  screen in step whatever was lost before it, because `Turn` keeps the row in `seen` until it is published.
* *Placement.* `CallInv` has one disjunct per stage (`Unheard`, `FirstShown`, `LastShown`). At both later ones
  the record is `Consistent`: routes are measured, lead to its place and cover its units, flags hold of it, its grid has a
  source. Phase 2 starts from phase 1's record, so that is not enough: `FirstRound` adds that what phase 1 shows has no ends
  and no routes to a stretch (a correction keeps `ends`), that a withheld location has no place yet, and that a grid
  comes from the parcel or its history, which is what makes `Derived` the grid that was shown. Units, routes, grid
  and flags have a lemma each for what `Filled` and `Refilled` make of any record.
* *Ladder.* `attempts` are questions the geocoder was asked, so `NoQuietGuess` and `MoreSaidNeverWorse` are statements
  about `GetCoordinates`. Each rung has a lemma for what it may answer (`EachRungAnswers`, `PairFinds`): only the exact rung
  and a resolved junction leave a note out, and the exact rung does so for a parcel that is `Singled` out. With
  hints (`RungsWithHints`) the exact rung, the readings and the nearest number still find what they found, and the block and the
  interpolation take no hints; `FirstFound` takes the first that answers.
* *Display.* `KioskInv` has five parts. `PlacesInv` strengthens `NoCallTwice`: behind a replay nothing waits, and no
  replay waits, unless a restore or a replay came back to an occupied screen; that is why `TakesOver` finds the
  queue empty. A restore keeps this because an answer names each call once (`AnswersInv`) and `Without` keeps its
  records at places of their own; that these are the first numbers needs a least-number argument (`Least`,
  `CountsUp`). `TakenInv` and `DismissedInv` speak of the entries on show that are no replays. `WireInv` and
  `LatestInv` give `ShowsLatest`: what is on the wire, on show, in an answer or read for a replay is the stored
  version, or a correction stands behind it on the wire; a correction that arrives while an answer is on its way, or
  has arrived before an older copy is replayed, makes the call one of `missed`.
* *Closures.* `CacheInv`: with no attempt between commit and invalidation, a list read under the lock is the one in
  the table, and a kept pair is the table's list with the outcome beside it, or is `unheard`. `OutcomeInv`: what the commit of an
  attempt that ran alone established is still so when it records its outcome and until the next commit.
* *City data.* `CopiesInv` gives, for each step of the update, which folder has been reached and which copy is
  whole: `Firm` says it of the folders that are not `loose`, and `KeptInv` that no folder is gone together with its copy. `CrawlInv` says that what a crawl wanted is in the archive, in the open batch, still to do, or counted
  as failed. `Shape` has the few facts about `imp` and the rows that `RulingsSurvive` needs.
* *Parcels.* `RowsOK` types the rows and says that no two base sites have one address: `RulingIsRead` follows
  from it. Only five actions make rows or take them away (`Makes`); all others keep what a row stands for
  (`Identity`, `RowsStay`). The new base sites get ids of their own because there are as many ids as sites
  (`GivenFacts`). `RoomInv` counts what an import may still insert. `RoadsInv` says that editions of the roads only
  go up, from the City to the staging file to the table: an edition that is over never comes back, and `FrontsInv`
  says of the rows that an import is through with which front point they have of the edition it saw. `SitesInv`
  matches City rows and outlined lots one to one from the INSERT on, and base sites from the derivation on; that a
  property of several lots has several rows is an argument about cardinalities (`MoreThanOne`). `AreasInv` says
  from which step on the City rows, and the base sites, have outlines or step 10 has been there.

### What stays with TLC

* Liveness under fairness and `ENABLED`, which the provers do not handle.
* What the recursive functions and folds of the library compute for every input; the proofs use none of it. Where the
  code sorts a list to take what comes first, the models name the order, so that no proof needs to know what sorting does.
* The four sentences of the repository that the code does not keep: their runs end in a violation.

No module declares a RECURSIVE operator.

## 5. What is not modelled

* *Parser* (`CFR/parser`) and *speech recognition*: functions of their input, made of wording. What they hand on
  is enumerated. `round_comparison.py` is called by tests alone.
* *Admin sessions*: a signed token with an expiry. *Other routers* (hydrants, vocabulary, evaluations, the street
  view proxy): reads and proxies without state.
* *Heartbeat and health watchdog*: a property of wall-clock time.
* *Map presentation*, and of the closures `closure_spatial.py`: geometry over PostGIS.
* In the GIS service the radius query for closures on a route and the statistics of the vocabulary; in the
  scripts `export_routing_polygon.py` (one file from one query), the pacing and retries of one tile,
  `extract_training_data.py` but for its write to the vocabulary, migrations and tools run once by hand.
* Formatting, logging, chimes, clocks that only show a time.

## 6. Plan

1. The heartbeat of the listener against the health endpoint, with a clock in ticks.
2. An abstract specification of one call's placement (heard, shown, settled) that `CallPlacement` implements.
3. Two instances of a script at a time, where nothing prevents them.
