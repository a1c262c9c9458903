----------------------------- MODULE CityDataProofs -----------------------------
(***************************************************************************)
(* Proofs about CityData, for every number of editions, every layer, every *)
(* size of a batch and every plan of events: the update of the folders, the *)
(* crawls, and what people add to the tables.                              *)
(***************************************************************************)
EXTENDS CityData, TLAPS, FiniteSetTheorems, NaturalsInduction, WellFoundedInduction

(***************************************************************************)
(* The update of the folders.  A folder that was not reached is as it was  *)
(* found and has no copy; one that was has a copy of what was found; and   *)
(* of every folder that is not loose this is so until it is put back.      *)
(***************************************************************************)

Places == {idle, failed, marking, Step("fetch", 1), Step("fetch", 2),
           Step("copy", 1), Step("copy", 2), Step("unpack", 1), Step("unpack", 2),
           Step("wind", 1), Step("wind", 2), Step("clean", 1), Step("clean", 2),
           Step("revert", 1), Step("revert", 2)}

\* The steps by how far the first and the second folder have got.
Before1 == {Step("fetch", 1), Step("fetch", 2), Step("copy", 1)}
Before2 == Before1 \cup {Step("unpack", 1), Step("copy", 2)}
After1 == {Step("copy", 2), Step("unpack", 2), Step("wind", 1), Step("wind", 2),
           Step("clean", 1), Step("clean", 2)}
After2 == {Step("wind", 1), Step("wind", 2), Step("clean", 1), Step("clean", 2)}

UpdType == [at : Places, from : [1..2 -> {0} \cup Editions], before : [1..2 -> Contents],
            loose : SUBSET (1..2)]

UpdateType ==
    /\ published \in Editions
    /\ folder \in [1..2 -> Contents]
    /\ backup \in [1..2 -> Contents]
    /\ upd \in UpdType
    /\ upd.at \in Before2 \cup {Step("unpack", 2)} =>
          /\ upd.at # Step("fetch", 1) => upd.from[1] \in Editions
          /\ upd.at \notin {Step("fetch", 1), Step("fetch", 2)} => upd.from[2] \in Editions

\* A folder is never gone with its copy.
KeptInv ==
    /\ \A f \in 1..2 : folder[f] # Absent \/ backup[f] # Absent
    /\ \A f \in 1..2 : upd.at = Step("unpack", f) => backup[f] # Absent
    /\ upd.at \in After1 => folder[1] # Absent
    /\ upd.at \in After2 => folder[2] # Absent

Untouched(f) == backup[f] = Absent /\ folder[f] = upd.before[f]
Saved(f) == backup[f] = upd.before[f] /\ upd.before[f] # Absent

Firm(f) ==
    /\ upd.at \in Before1 => Untouched(f)
    /\ upd.at \in {Step("unpack", 1), Step("copy", 2)} => IF f = 1 THEN Saved(f) ELSE Untouched(f)
    /\ upd.at \in After2 \cup {Step("unpack", 2)} => Saved(f)
    /\ upd.at = Step("revert", 1) => Untouched(f) \/ Saved(f)
    /\ upd.at = Step("revert", 2) =>
          IF f = 1 THEN folder[f] = upd.before[f] ELSE Untouched(f) \/ Saved(f)
    /\ upd.at = failed => folder[f] = upd.before[f]

CopiesInv ==
    /\ KeptInv
    /\ upd.at \in Before1 => folder[1] = upd.before[1]
    /\ upd.at \in Before2 => folder[2] = upd.before[2]
    /\ \A f \in 1..2 : f \in upd.loose \/ Firm(f)

LEMMA ContentsFacts ==
    /\ Editions \subseteq Contents /\ {Absent, Torn, Void} \subseteq Contents
    /\ Torn # Absent /\ Absent \notin {0} \cup Editions
    /\ 1 \in Editions
    /\ \A n \in Editions : n < MaxEdition => n + 1 \in Editions
  BY FilesConstantsOK DEF Contents, Editions, Absent, Torn, Void

\* Steps are told apart by their name and their folder.
LEMMA StepFacts ==
    /\ \A m, n, f, g : Step(m, f) = Step(n, g) <=> m = n /\ f = g
    /\ \A n, f : Step(n, f)[1] = n /\ Step(n, f)[2] = f
  BY DEF Step

LEMMA NotUpdatingType == NotUpdating \in UpdType /\ NotUpdating.at = idle /\ NotUpdating.loose = {}
<1>1. <<Absent, Absent>> \in [1..2 -> Contents] /\ <<0, 0>> \in [1..2 -> {0} \cup Editions]
  BY ContentsFacts
<1> QED
  BY <1>1 DEF NotUpdating, UpdType, Places

LEMMA InitUpdate == Init => UpdateType /\ CopiesInv
<1> SUFFICES ASSUME FilesInit PROVE UpdateType /\ CopiesInv
  BY DEF Init
<1>1. folder = [f \in 1..2 |-> 1] /\ upd = NotUpdating /\ backup = [f \in 1..2 |-> Absent]
  BY DEF FilesInit
<1>2. NotUpdating \in UpdType /\ NotUpdating.at = idle
  BY NotUpdatingType
<1>3. UpdateType
  BY <1>1, <1>2, ContentsFacts, StepFacts DEF FilesInit, UpdateType, Before1, Before2, idle
<1>4. CopiesInv
  BY <1>1, <1>2, ContentsFacts, StepFacts
  DEF CopiesInv, KeptInv, Firm, Before1, Before2, After1, After2, idle, failed
<1> QED
  BY <1>3, <1>4

\* What the update reads and writes.
updateVars == <<published, folder, backup, upd>>

LEMMA StutterUpdate == UpdateType /\ CopiesInv /\ UNCHANGED updateVars => UpdateType' /\ CopiesInv'
  BY DEF updateVars, UpdateType, CopiesInv, KeptInv, Firm, Untouched, Saved

LEMMA OutsideFiles == TablesNext \/ ParcelsNext \/ TilesNext => UNCHANGED <<published, files>>
<1>1. TablesNext => UNCHANGED <<published, files>>
  BY DEF TablesNext, StartGisImport, ImportTable, ImportVocabulary, ComputeJunctions, GisStepFails,
     GisKilled, DeriveJunctions, SyncHydrants, LearnTerm, PlaceJunction
<1>2. ParcelsNext => UNCHANGED <<published, files>>
  BY DEF ParcelsNext, OpenCard, SaveStreetView, SaveCard, CardGone, ClearCard, SaveAddressed,
     StartImport, StartFrontage, CreateTable, DeleteCityRows, InsertCityRows, StartCentres,
     CentreChunk, BuildBaseSites, StartFronts, FrontChunk, ClearFronts, ImportStepFails,
     PolygonRefused, AddParcelGeom, FillFronts, ImportFrame, dataVars
<1>3. TilesNext => UNCHANGED <<published, files>>
  BY DEF TilesNext, ExportCoverage, StartOrtho, StartCadastral, Fetched, NotFetched, EndCrawl,
     CrawlKilled, Finalize, dbVars
<1> QED
  BY <1>1, <1>2, <1>3

\* A step changes the place, and which folders are loose.
LEMMA UpdMoves ==
    ASSUME upd \in UpdType, NEW a \in Places, NEW l \in SUBSET (1..2),
           upd' = [upd EXCEPT !.at = a, !.loose = l]
    PROVE  /\ upd' \in UpdType /\ upd'.at = a /\ upd'.loose = l
           /\ upd'.from = upd.from /\ upd'.before = upd.before
  BY DEF UpdType

LEMMA NextUpdate == UpdateType /\ CopiesInv /\ [Next]_vars => UpdateType' /\ CopiesInv'
<1> SUFFICES ASSUME UpdateType, CopiesInv, [Next]_vars
             PROVE  UpdateType' /\ CopiesInv'
  OBVIOUS
<1>a. (\A f : f \in 1..2 <=> f = 1 \/ f = 2) /\ KeptInv
  BY DEF CopiesInv
<1>b. CASE UNCHANGED updateVars
  BY <1>b, StutterUpdate
<1>1. CASE Publish
  <2>1. UpdateType'
    BY <1>1, <1>a, ContentsFacts, StepFacts, NotUpdatingType
    DEF Publish, files, UpdateType, KeptInv, UpdType, Places, At, Before1, Before2, After1, After2, idle, failed, marking
  <2>2. KeptInv'
    BY <1>1, <1>a, ContentsFacts, StepFacts, NotUpdatingType
    DEF Publish, files, UpdateType, KeptInv, UpdType, At, Before1, Before2, After1, After2, idle, failed, marking
  <2>3. CopiesInv'
    BY <1>1, <1>a, <2>2, ContentsFacts, StepFacts, NotUpdatingType
    DEF Publish, files, UpdateType, KeptInv, UpdType, CopiesInv, Firm, Untouched, Saved, At, Before1, Before2, After1, After2, idle, failed, marking
  <2> QED
    BY <2>1, <2>3
<1>2. CASE StartUpdate
  <2>1. UpdateType'
    BY <1>2, <1>a, ContentsFacts, StepFacts, NotUpdatingType
    DEF StartUpdate, UpdateType, KeptInv, UpdType, Places, At, Before1, Before2, After1, After2, idle, failed, marking
  <2>2. KeptInv'
    BY <1>2, <1>a, ContentsFacts, StepFacts, NotUpdatingType
    DEF StartUpdate, UpdateType, KeptInv, UpdType, At, Before1, Before2, After1, After2, idle, failed, marking
  <2>3. CopiesInv'
    BY <1>2, <1>a, <2>2, ContentsFacts, StepFacts, NotUpdatingType
    DEF StartUpdate, UpdateType, KeptInv, UpdType, CopiesInv, Firm, Untouched, Saved, At, Before1, Before2, After1, After2, idle, failed, marking
  <2> QED
    BY <2>1, <2>3
<1>3. ASSUME NEW f \in 1..2, Fetch(f)
      PROVE  UpdateType' /\ CopiesInv'
  <2>1. /\ upd'.at = IF f = 1 THEN Step("fetch", 2) ELSE Step("copy", 1)
        /\ upd'.from = [upd.from EXCEPT ![f] = published]
        /\ upd'.before = upd.before /\ upd'.loose = upd.loose /\ upd' \in UpdType
    BY <1>3, <1>a DEF Fetch, UpdateType, UpdType, Places
  <2>2. UNCHANGED <<published, folder, backup>> /\ upd.at = Step("fetch", f)
    BY <1>3 DEF Fetch
  <2>3. UpdateType'
    BY <2>1, <2>2, <1>a, StepFacts DEF UpdateType, UpdType, Before1, Before2
  <2>4. KeptInv'
    BY <2>1, <2>2, <1>a, StepFacts DEF KeptInv, Before1, Before2, After1, After2, idle, failed, marking
  <2>5. CopiesInv'
    BY <2>1, <2>2, <2>4, <1>a, StepFacts DEF CopiesInv, Firm, Untouched, Saved, Before1, Before2, After1, After2, idle, failed, marking
  <2> QED
    BY <2>3, <2>5
<1>4. ASSUME NEW f \in 1..2, SetAside(f)
      PROVE  UpdateType' /\ CopiesInv'
  <2>1. /\ upd'.at = Step("unpack", f) /\ upd'.from = upd.from /\ upd'.before = upd.before
        /\ upd' \in UpdType
        /\ upd'.loose = IF folder[f] = Absent THEN upd.loose ELSE upd.loose \ {f}
    <3>1. Step("unpack", f) \in Places
      BY <1>a DEF Places
    <3>2. CASE folder[f] = Absent
      BY <1>4, <3>1, <3>2 DEF SetAside, At, UpdateType, UpdType
    <3>3. CASE folder[f] # Absent
      <4>1. upd' = [upd EXCEPT !.at = Step("unpack", f), !.loose = upd.loose \ {f}]
        BY <1>4, <3>3 DEF SetAside
      <4>2. upd \in UpdType /\ upd.loose \ {f} \in SUBSET (1..2)
        BY DEF UpdateType, UpdType
      <4> QED
        BY <3>1, <3>3, <4>1, <4>2, UpdMoves
    <3> QED
      BY <3>2, <3>3
  <2>2. /\ UNCHANGED <<published, folder>> /\ upd.at = Step("copy", f)
        /\ backup' = IF folder[f] = Absent THEN backup ELSE [backup EXCEPT ![f] = folder[f]]
    BY <1>4 DEF SetAside
  <2>3. UpdateType'
    BY <2>1, <2>2, <1>a, StepFacts DEF UpdateType, UpdType, Before1, Before2
  <2>4. KeptInv'
    BY <2>1, <2>2, <1>a, StepFacts DEF UpdateType, KeptInv, Before1, Before2, After1, After2, idle, failed, marking
  <2>5. CopiesInv'
    BY <2>1, <2>2, <2>4, <1>a, StepFacts DEF UpdateType, CopiesInv, Firm, Untouched, Saved, KeptInv, Before1, Before2, After1, After2, idle, failed, marking
  <2> QED
    BY <2>3, <2>5
<1>5. ASSUME NEW f \in 1..2, Unpack(f)
      PROVE  UpdateType' /\ CopiesInv'
  <2>1. UpdateType'
    BY <1>5, <1>a, ContentsFacts, StepFacts, NotUpdatingType
    DEF Unpack, UpdateType, KeptInv, UpdType, Places, At, Before1, Before2, After1, After2, idle, failed, marking
  <2>2. KeptInv'
    BY <1>5, <1>a, ContentsFacts, StepFacts, NotUpdatingType
    DEF Unpack, UpdateType, KeptInv, UpdType, At, Before1, Before2, After1, After2, idle, failed, marking
  <2>3. CopiesInv'
    BY <1>5, <1>a, <2>2, ContentsFacts, StepFacts, NotUpdatingType
    DEF Unpack, UpdateType, KeptInv, UpdType, CopiesInv, Firm, Untouched, Saved, At, Before1, Before2, After1, After2, idle, failed, marking
  <2> QED
    BY <2>1, <2>3
<1>6. ASSUME NEW f \in 1..2, FixWinding(f)
      PROVE  UpdateType' /\ CopiesInv'
  <2>1. UpdateType'
    BY <1>6, <1>a, ContentsFacts, StepFacts, NotUpdatingType
    DEF FixWinding, UpdateType, KeptInv, UpdType, Places, At, Before1, Before2, After1, After2, idle, failed, marking
  <2>2. KeptInv'
    BY <1>6, <1>a, ContentsFacts, StepFacts, NotUpdatingType
    DEF FixWinding, UpdateType, KeptInv, UpdType, At, Before1, Before2, After1, After2, idle, failed, marking
  <2>3. CopiesInv'
    BY <1>6, <1>a, <2>2, ContentsFacts, StepFacts, NotUpdatingType
    DEF FixWinding, UpdateType, KeptInv, UpdType, CopiesInv, Firm, Untouched, Saved, At, Before1, Before2, After1, After2, idle, failed, marking
  <2> QED
    BY <2>1, <2>3
<1>7. ASSUME NEW f \in 1..2, WindingFails(f)
      PROVE  UpdateType' /\ CopiesInv'
  <2>1. UpdateType'
    BY <1>7, <1>a, ContentsFacts, StepFacts, NotUpdatingType
    DEF WindingFails, UpdateType, KeptInv, UpdType, Places, At, Before1, Before2, After1, After2, idle, failed, marking
  <2>2. KeptInv'
    BY <1>7, <1>a, ContentsFacts, StepFacts, NotUpdatingType
    DEF WindingFails, UpdateType, KeptInv, UpdType, At, Before1, Before2, After1, After2, idle, failed, marking
  <2>3. CopiesInv'
    BY <1>7, <1>a, <2>2, ContentsFacts, StepFacts, NotUpdatingType
    DEF WindingFails, UpdateType, KeptInv, UpdType, CopiesInv, Firm, Untouched, Saved, At, Before1, Before2, After1, After2, idle, failed, marking
  <2> QED
    BY <2>1, <2>3
<1>8. ASSUME NEW f \in 1..2, DropCopy(f)
      PROVE  UpdateType' /\ CopiesInv'
  <2>1. /\ upd'.at = (IF f = 1 THEN Step("clean", 2) ELSE marking) /\ upd'.from = upd.from
        /\ upd'.before = upd.before /\ upd' \in UpdType /\ upd'.loose = upd.loose \cup {f}
    <3>1. (IF f = 1 THEN Step("clean", 2) ELSE marking) \in Places
      BY <1>a DEF Places
    <3>2. upd \in UpdType /\ upd.loose \cup {f} \in SUBSET (1..2)
      BY DEF UpdateType, UpdType
    <3> QED
      BY <1>8, <3>1, <3>2, UpdMoves DEF DropCopy
  <2>2. /\ UNCHANGED <<published, folder>> /\ upd.at = Step("clean", f)
        /\ backup' = [backup EXCEPT ![f] = Absent]
    BY <1>8 DEF DropCopy
  <2>3. UpdateType'
    BY <2>1, <2>2, <1>a, StepFacts, ContentsFacts DEF UpdateType, UpdType, Before1, Before2, After1, After2, idle, failed, marking
  <2>4. KeptInv'
    BY <2>1, <2>2, <1>a, StepFacts DEF UpdateType, KeptInv, Before1, Before2, After1, After2, idle, failed, marking
  <2>5. CopiesInv'
    BY <2>1, <2>2, <2>4, <1>a, StepFacts DEF UpdateType, CopiesInv, Firm, Untouched, Saved, KeptInv, Before1, Before2, After1, After2, idle, failed, marking
  <2> QED
    BY <2>3, <2>5
<1>9. CASE MarkSuccess
  <2>1. UpdateType'
    BY <1>9, <1>a, ContentsFacts, StepFacts, NotUpdatingType
    DEF MarkSuccess, UpdateType, KeptInv, UpdType, Places, At, Before1, Before2, After1, After2, idle, failed, marking
  <2>2. KeptInv'
    BY <1>9, <1>a, ContentsFacts, StepFacts, NotUpdatingType
    DEF MarkSuccess, UpdateType, KeptInv, UpdType, At, Before1, Before2, After1, After2, idle, failed, marking
  <2>3. CopiesInv'
    BY <1>9, <1>a, <2>2, ContentsFacts, StepFacts, NotUpdatingType
    DEF MarkSuccess, UpdateType, KeptInv, UpdType, CopiesInv, Firm, Untouched, Saved, At, Before1, Before2, After1, After2, idle, failed, marking
  <2> QED
    BY <2>1, <2>3
<1>10. ASSUME NEW f \in 1..2, Revert(f)
      PROVE  UpdateType' /\ CopiesInv'
  <2>1. UpdateType'
    BY <1>10, <1>a, ContentsFacts, StepFacts, NotUpdatingType
    DEF Revert, Reverted, UpdateType, KeptInv, UpdType, Places, At, Before1, Before2, After1, After2, idle, failed, marking
  <2>2. KeptInv'
    BY <1>10, <1>a, ContentsFacts, StepFacts, NotUpdatingType
    DEF Revert, Reverted, UpdateType, KeptInv, UpdType, At, Before1, Before2, After1, After2, idle, failed, marking
  <2>3. CopiesInv'
    BY <1>10, <1>a, <2>2, ContentsFacts, StepFacts, NotUpdatingType
    DEF Revert, Reverted, UpdateType, KeptInv, UpdType, CopiesInv, Firm, Untouched, Saved, At, Before1, Before2, After1, After2, idle, failed, marking
  <2> QED
    BY <2>1, <2>3
<1>11. ASSUME NEW f \in 1..2, NEW part \in Parts, UpdateFails(f, part)
      PROVE  UpdateType' /\ CopiesInv'
  <2> DEFINE nowLoose == CASE part = "copy" -> upd.loose \cup {f}
                           [] part = "gone" -> upd.loose \ {f}
                           [] OTHER -> upd.loose
  <2>1. /\ upd'.at = Step("revert", 1) /\ upd'.from = upd.from
        /\ upd'.before = upd.before /\ upd' \in UpdType /\ upd'.loose = nowLoose
    <3>1. Step("revert", 1) \in Places
      BY DEF Places
    <3>2. upd \in UpdType /\ nowLoose \in SUBSET (1..2)
      BY DEF UpdateType, UpdType
    <3>3. upd' = [upd EXCEPT !.at = Step("revert", 1), !.loose = nowLoose]
      BY <1>11 DEF UpdateFails
    <3> QED
      BY <3>1, <3>2, <3>3, UpdMoves
  <2>2. /\ published' = published /\ CutShort(f, part)
        /\ upd.at[1] \in {"fetch", "copy", "unpack", "clean"}
    BY <1>11 DEF UpdateFails
  <2>3. UpdateType'
    BY <2>1, <2>2, <1>a, StepFacts, ContentsFacts DEF CutShort, UpdateType, UpdType, Before1, Before2, After1, After2, idle, failed, marking
  <2>4. KeptInv'
    BY <2>1, <2>2, <1>a, StepFacts, ContentsFacts DEF CutShort, UpdateType, KeptInv, Before1, Before2, After1, After2, idle, failed, marking
  <2>5. CASE part = "none"
    BY <2>1, <2>2, <2>3, <2>4, <2>5, <1>a, StepFacts, ContentsFacts
    DEF CutShort, UpdateType, UpdType, Places, CopiesInv, Firm, Untouched, Saved, KeptInv, Before1, Before2, After1, After2, idle, failed, marking
  <2>6. CASE part = "folder"
    BY <2>1, <2>2, <2>3, <2>4, <2>6, <1>a, StepFacts, ContentsFacts
    DEF CutShort, UpdateType, UpdType, Places, CopiesInv, Firm, Untouched, Saved, KeptInv, Before1, Before2, After1, After2, idle, failed, marking
  <2>7. CASE part = "copy"
    BY <2>1, <2>2, <2>3, <2>4, <2>7, <1>a, StepFacts, ContentsFacts
    DEF CutShort, UpdateType, UpdType, Places, CopiesInv, Firm, Untouched, Saved, KeptInv, Before1, Before2, After1, After2, idle, failed, marking
  <2>8. CASE part = "gone"
    BY <2>1, <2>2, <2>3, <2>4, <2>8, <1>a, StepFacts, ContentsFacts
    DEF CutShort, UpdateType, UpdType, Places, CopiesInv, Firm, Untouched, Saved, KeptInv, Before1, Before2, After1, After2, idle, failed, marking
  <2> QED
    BY <2>5, <2>6, <2>7, <2>8 DEF Parts
<1>12. ASSUME NEW f \in 1..2, NEW part \in Parts, RevertFails(f, part)
      PROVE  UpdateType' /\ CopiesInv'
  <2> DEFINE nowLoose == upd.loose \cup {g \in f..2 : g = f => part # "copy"}
  <2>1. /\ upd'.at = failed /\ upd'.from = upd.from
        /\ upd'.before = upd.before /\ upd' \in UpdType /\ upd'.loose = nowLoose
    <3>1. failed \in Places
      BY DEF Places
    <3>2. upd \in UpdType /\ nowLoose \in SUBSET (1..2)
      BY <1>a DEF UpdateType, UpdType
    <3>3. upd' = [upd EXCEPT !.at = failed, !.loose = nowLoose]
      BY <1>12 DEF RevertFails
    <3> QED
      BY <3>1, <3>2, <3>3, UpdMoves
  <2>2. /\ published' = published /\ CutShort(f, part)
        /\ upd.at = Step("revert", f) /\ backup[f] # Absent
    BY <1>12 DEF RevertFails
  <2>3. UpdateType'
    BY <2>1, <2>2, <1>a, StepFacts, ContentsFacts
    DEF CutShort, Reverted, UpdateType, UpdType, Before1, Before2, After1, After2, idle, failed, marking
  <2>4. KeptInv'
    BY <2>1, <2>2, <1>a, StepFacts, ContentsFacts DEF CutShort, Reverted, UpdateType, KeptInv, Before1, Before2, After1, After2, idle, failed, marking
  <2>5. CopiesInv'
    BY <2>1, <2>2, <2>3, <2>4, <1>a, StepFacts, ContentsFacts
    DEF CutShort, Reverted, UpdateType, UpdType, CopiesInv, Firm, Untouched, Saved, KeptInv, Before1, Before2, After1, After2, idle, failed, marking
  <2> QED
    BY <2>3, <2>5
<1>13. ASSUME NEW f \in 1..2, NEW part \in Parts, UpdateKilled(f, part)
      PROVE  UpdateType' /\ CopiesInv'
  <2>1. UpdateType'
    BY <1>13, <1>a, ContentsFacts, StepFacts, NotUpdatingType
    DEF UpdateKilled, CutShort, Reverted, UpdateType, KeptInv, UpdType, Places, At, Before1, Before2, After1, After2, idle, failed, marking
  <2>2. KeptInv'
    BY <1>13, <1>a, ContentsFacts, StepFacts, NotUpdatingType
    DEF UpdateKilled, CutShort, Reverted, UpdateType, KeptInv, UpdType, At, Before1, Before2, After1, After2, idle, failed, marking
  <2>3. CopiesInv'
    BY <1>13, <1>a, <2>2, ContentsFacts, StepFacts, NotUpdatingType
    DEF UpdateKilled, CutShort, Reverted, UpdateType, KeptInv, UpdType, CopiesInv, Firm, Untouched, Saved, At, Before1, Before2, After1, After2, idle, failed, marking
  <2> QED
    BY <2>1, <2>3
<1>c. \/ Publish \/ StartUpdate \/ MarkSuccess
      \/ \E f \in 1..2 :
            \/ Fetch(f) \/ SetAside(f) \/ Unpack(f) \/ FixWinding(f) \/ WindingFails(f)
            \/ DropCopy(f) \/ Revert(f)
            \/ \E part \in Parts :
                  UpdateFails(f, part) \/ RevertFails(f, part) \/ UpdateKilled(f, part)
      \/ UNCHANGED updateVars
  <2>1. FilesNext \/ UNCHANGED <<published, files>>
    BY OutsideFiles DEF Next, vars, fileVars
  <2> QED
    BY <2>1 DEF FilesNext, StartDownload, DownloadDataset, DownloadEnds, WeekPasses, files, updateVars
<1> QED
  BY <1>b, <1>c, <1>1, <1>2, <1>3, <1>4, <1>5, <1>6, <1>7, <1>8, <1>9, <1>10, <1>11, <1>12, <1>13

\* FailedUpdateReverts, for every plan: an update that fails at any step leaves each folder as it
\* found it, but for the folders that had no whole copy of this run's when they were put back, and
\* those whose putting back failed (update_gis_data.py, extract_and_clean and main).
THEOREM FailedUpdateRevertsCorrect == Spec => []FailedUpdateReverts
<1>1. CopiesInv => FailedUpdateReverts
  BY DEF CopiesInv, Firm, FailedUpdateReverts
<1> QED
  BY InitUpdate, NextUpdate, <1>1, PTL DEF Spec

(***************************************************************************)
(* The crawls.  A tile that is wanted is in the archive, in the open batch, *)
(* still to be fetched, or was given up and counted.                       *)
(***************************************************************************)

CrawlType ==
    /\ \A l \in Layers : archives[l] \in [tiles : {archives[l].tiles}, wal : {archives[l].wal}]
    /\ archives = [l \in Layers |-> archives[l]]
    /\ crawl \in [layer : Layers, at : {crawl.at}, wanted : {crawl.wanted}, todo : {crawl.todo},
                 batch : {crawl.batch}, failed : Nat]

NoneForgotten ==
    crawl.at # "idle" /\ crawl.failed = 0 =>
        crawl.wanted \subseteq archives[crawl.layer].tiles \cup crawl.todo \cup crawl.batch

NothingOpen == crawl.at = "ended" => crawl.todo = {} /\ crawl.batch = {}

CrawlInv == CrawlType /\ NoneForgotten /\ NothingOpen

LEMMA InitCrawl == Init => CrawlInv
<1> SUFFICES ASSUME TilesInit PROVE CrawlInv
  BY DEF Init
<1>1. CrawlType
  BY DEF TilesInit, NoCrawl, Layers, CrawlType
<1>2. NoneForgotten /\ NothingOpen
  BY DEF TilesInit, NoCrawl, NoneForgotten, NothingOpen
<1> QED
  BY <1>1, <1>2 DEF CrawlInv

LEMMA NextCrawl == CrawlInv /\ [Next]_vars => CrawlInv'
<1> SUFFICES ASSUME CrawlInv, [Next]_vars PROVE CrawlInv'
  OBVIOUS
<1> USE DEF CrawlInv, CrawlType, NoneForgotten, NothingOpen, Layers
<1>1. CASE UNCHANGED tileVars
  BY <1>1 DEF tileVars
<1>2. CASE ExportCoverage
  BY <1>2 DEF ExportCoverage
<1>3. ASSUME NEW skip \in BOOLEAN, StartOrtho(skip) PROVE CrawlInv'
  BY <1>3 DEF StartOrtho, NoCrawl
<1>4. CASE StartCadastral
  BY <1>4 DEF StartCadastral
<1>5. ASSUME NEW t \in Tiles, Fetched(t) PROVE CrawlInv'
  <2> DEFINE batch == crawl.batch \cup {t}
  <2>1. CASE Cardinality(batch) >= TileBatch
    <3>1. /\ archives' = [archives EXCEPT ![crawl.layer].tiles = @ \cup batch]
          /\ crawl' = [crawl EXCEPT !.todo = @ \ {t}, !.batch = {}]
      BY <1>5, <2>1 DEF Fetched
    <3>2. crawl.at = "fetching"
      BY <1>5 DEF Fetched
    <3>5. /\ archives' = [l \in Layers |-> archives'[l]]
          /\ \A l \in Layers : archives'[l] \in [tiles : {archives'[l].tiles}, wal : {archives'[l].wal}]
      BY <3>1
    <3>6. CrawlType' /\ NothingOpen'
      BY <3>1, <3>2, <3>5
    <3>3. archives'[crawl'.layer].tiles = archives[crawl.layer].tiles \cup batch
      BY <3>1
    <3>4. NoneForgotten'
      BY <3>1, <3>3
    <3> QED
      BY <3>6, <3>4
  <2>2. CASE ~(Cardinality(batch) >= TileBatch)
    <3>1. archives' = archives /\ crawl' = [crawl EXCEPT !.todo = @ \ {t}, !.batch = batch]
      BY <1>5, <2>2 DEF Fetched
    <3> QED
      BY <1>5, <3>1 DEF Fetched
  <2> QED
    BY <2>1, <2>2
<1>6. ASSUME NEW t \in Tiles, NotFetched(t) PROVE CrawlInv'
  <2>1. archives' = archives /\ crawl' = [crawl EXCEPT !.todo = @ \ {t}, !.failed = @ + 1]
    BY <1>6 DEF NotFetched
  <2>2. crawl'.failed = crawl.failed + 1 /\ crawl'.failed \in Nat /\ crawl'.failed # 0
    BY <2>1
  <2> QED
    BY <1>6, <2>1, <2>2 DEF NotFetched
<1>7. CASE EndCrawl
  BY <1>7 DEF EndCrawl, LastBatch
<1>8. CASE CrawlKilled
  BY <1>8 DEF CrawlKilled, NoCrawl
<1>9. CASE Finalize
  <2>1. crawl' = crawl /\ \A l \in Layers : archives'[l].tiles = archives[l].tiles
    BY <1>9 DEF Finalize
  <2>2. ASSUME NEW l \in Layers
        PROVE  archives'[l] \in [tiles : {archives'[l].tiles}, wal : {archives'[l].wal}]
    <3>1. archives'[l] = [archives[l] EXCEPT !.wal = FALSE] \/ archives'[l] = archives[l]
      BY <1>9 DEF Finalize
    <3> QED
      BY <3>1
  <2>3. archives' = [l \in Layers |-> archives'[l]]
    BY <1>9 DEF Finalize
  <2> QED
    BY <2>1, <2>2, <2>3
<1>10. TilesNext \/ UNCHANGED tileVars
  BY DEF Next, vars, TablesNext, ParcelsNext
<1> QED
  BY <1>1, <1>2, <1>3, <1>4, <1>5, <1>6, <1>7, <1>8, <1>9, <1>10 DEF TilesNext

\* CrawlIsComplete, for every set of tiles, size of a batch and history of killed runs: a crawl
\* that ends without a failed tile has committed every tile it wanted (compile_mbtiles.py and
\* crawl_cadastral_tiles.py).
THEOREM CrawlIsCompleteCorrect == Spec => []CrawlIsComplete
<1>1. CrawlInv => CrawlIsComplete
  BY DEF CrawlInv, NoneForgotten, NothingOpen, CrawlIsComplete
<1> QED
  BY InitCrawl, NextCrawl, <1>1, PTL DEF Spec

(***************************************************************************)
(* What people add.  It needs to know the fields of a row, since an update *)
(* of one of them must leave the others.                                   *)
(***************************************************************************)

RowShape(r) ==
    r \in [base : {r.base}, prop : {r.prop}, address : {r.address}, gis : {r.gis}, site : {r.site},
           area : {r.area}, centred : {r.centred}, grid : {r.grid}, front : {r.front},
           ruling : {r.ruling}]

Shape ==
    /\ rows = [i \in Ids |-> rows[i]]
    /\ \A i \in Ids : RowShape(rows[i])
    /\ junctions \in [derived : {junctions.derived}, manual : {junctions.manual}]
    /\ rulings \in Nat

LEMMA EmptyRows == <<>> = [i \in DOMAIN <<>> |-> <<>>[i]] /\ DOMAIN <<>> = {}
  OBVIOUS

LEMMA InitShape == Init => Shape
  BY EmptyRows DEF Init, ParcelsInit, TablesInit, Shape, Ids

LEMMA NextShape == Shape /\ [Next]_vars => Shape' /\ (KeepsRulings \/ UNCHANGED vars)
<1> SUFFICES ASSUME Shape, [Next]_vars PROVE Shape' /\ (KeepsRulings \/ UNCHANGED vars)
  OBVIOUS
<1>1. CASE UNCHANGED vars
  BY <1>1 DEF vars, tableVars, parcelVars, Shape, Ids
<1> USE DEF Ids
\* Nothing people add is touched.
<1>2. CASE UNCHANGED <<rows, vocabulary, junctions, rulings>>
  BY <1>2 DEF Shape, KeepsRulings
\* The parcels are, and every base site keeps its arrival point.
<1>3. ASSUME UNCHANGED <<vocabulary, junctions>>,
             rows' = [i \in DOMAIN rows' |-> rows'[i]],
             \A i \in DOMAIN rows' : RowShape(rows'[i]),
             rulings' \in Nat,
             \/ PersonWrites
             \/ TableDropped
             \/ \A i \in Ids : rows[i].base =>
                    i \in DOMAIN rows' /\ rows'[i].base /\ rows'[i].ruling = rows[i].ruling
      PROVE  Shape' /\ KeepsRulings
  BY <1>3 DEF Shape, KeepsRulings
<1>4. CASE TablesNext /\ UNCHANGED parcelVars
  <2>1. rows' = rows /\ rulings' = rulings
    BY <1>4 DEF parcelVars
  <2>2. /\ vocabulary \subseteq vocabulary'
        /\ junctions.manual \subseteq junctions'.manual
        /\ junctions' \in [derived : {junctions'.derived}, manual : {junctions'.manual}]
    BY <1>4 DEF Shape, TablesNext, StartGisImport, ImportTable, ImportVocabulary, Seeded,
       ComputeJunctions, Rebuilt, GisStepFails, GisKilled, DeriveJunctions, SyncHydrants, LearnTerm,
       PlaceJunction, tableVars
  <2> QED
    BY <2>1, <2>2 DEF Shape, KeepsRulings
<1>5. CASE FilesNext /\ UNCHANGED <<tableVars, gis, parcelVars, tileVars>>
  BY <1>5, <1>2 DEF tableVars, parcelVars
<1>6. CASE TilesNext /\ UNCHANGED parcelVars
  BY <1>6, <1>2 DEF TilesNext, ExportCoverage, StartOrtho, StartCadastral, Fetched, NotFetched,
     EndCrawl, CrawlKilled, Finalize, dbVars, tableVars, parcelVars
<1>7. CASE ParcelsNext
  <2>0. UNCHANGED <<vocabulary, junctions>> /\ rulings' \in {rulings, rulings + 1}
    BY <1>7 DEF ParcelsNext, OpenCard, SaveStreetView, SaveCard, CardGone, ClearCard, SaveAddressed,
       StartImport, StartFrontage, CreateTable, DeleteCityRows, InsertCityRows, StartCentres,
       CentreChunk, BuildBaseSites, StartFronts, FrontChunk, ClearFronts, ImportStepFails,
       PolygonRefused, AddParcelGeom, FillFronts, ImportFrame, dataVars, tableVars,
       Rule
  <2>10. rulings' \in Nat
    BY <2>0 DEF Shape
  <2>1. CASE rows' = rows
    BY <2>0, <2>1, <2>10 DEF Shape, KeepsRulings
  <2>2. ASSUME NEW i, Rule(i) PROVE Shape' /\ KeepsRulings
    <3>1. rows' = [rows EXCEPT ![i].ruling = rulings + 1] /\ rulings' = rulings + 1
      BY <2>2 DEF Rule
    <3>2. DOMAIN rows' = Ids /\ rows' = [j \in Ids |-> rows'[j]]
      BY <3>1
    <3>3. ASSUME NEW j \in Ids PROVE RowShape(rows'[j])
      BY <3>1 DEF Shape, RowShape
    <3>4. PersonWrites
      BY <3>1 DEF PersonWrites, Shape
    <3> QED
      BY <2>0, <2>10, <3>2, <3>3, <3>4, <1>3
  <2>3. CASE ClearCard
    <3>1. rows' = [rows EXCEPT ![card].ruling = 0] /\ card \in Ids
      BY <2>3 DEF ClearCard
    <3>2. DOMAIN rows' = Ids /\ rows' = [j \in Ids |-> rows'[j]]
      BY <3>1
    <3>3. ASSUME NEW j \in Ids PROVE RowShape(rows'[j])
      BY <3>1 DEF Shape, RowShape
    <3>4. PersonWrites
      BY <2>3 DEF ClearCard, PersonWrites
    <3> QED
      BY <2>0, <2>10, <3>2, <3>3, <3>4, <1>3
  <2>4. ASSUME NEW a \in Addresses, NEW g \in GisIds, SaveStreetView(a, g)
        PROVE  Shape' /\ KeepsRulings
    <3>1. rows' = [i \in DOMAIN rows' |-> rows'[i]] /\ DOMAIN rows' = Ids \cup {nextId}
      BY <2>4 DEF SaveStreetView
    <3>2. \A i \in Ids : rows'[i] = rows[i]
      BY <2>4 DEF SaveStreetView
    <3>3. nextId \notin Ids => RowShape(rows'[nextId])
      BY <2>4 DEF SaveStreetView, RowShape
    <3>4. \A i \in DOMAIN rows' : RowShape(rows'[i])
      BY <3>1, <3>2, <3>3 DEF Shape
    <3> QED
      BY <2>0, <2>10, <3>1, <3>2, <3>4, <1>3
  <2>5. CASE CreateTable
    <3>1. CASE imp.drop
      <4>1. TableDropped /\ rows' = <<>>
        BY <2>5, <3>1 DEF CreateTable, TableDropped
      <4>2. rows' = [i \in DOMAIN rows' |-> rows'[i]] /\ \A i \in DOMAIN rows' : RowShape(rows'[i])
        BY <4>1, EmptyRows
      <4> QED
        BY <2>0, <2>10, <4>1, <4>2, <1>3
    <3>2. CASE ~imp.drop
      BY <2>1, <2>5, <3>2 DEF CreateTable
    <3> QED
      BY <3>1, <3>2
  <2>6. CASE DeleteCityRows
    BY <2>0, <2>10, <2>6, <1>3 DEF DeleteCityRows, Kept, NotReplaced, Shape
  <2>7. CASE InsertCityRows
    BY <2>0, <2>10, <2>7, <1>3 DEF InsertCityRows, CityRow, Shape, RowShape
  <2>8. CASE CentreChunk \/ FrontChunk \/ ClearFronts \/ AddParcelGeom \/ FillFronts
    <3>1. rows' = [i \in Ids |-> rows'[i]]
      BY <2>8 DEF CentreChunk, FrontChunk, ClearFronts, AddParcelGeom, FillFronts
    <3>2. ASSUME NEW i \in Ids
          PROVE  RowShape(rows'[i]) /\ rows'[i].base = rows[i].base /\ rows'[i].ruling = rows[i].ruling
      <4>1. RowShape(rows[i])
        BY DEF Shape
      <4>2. \/ rows'[i] = rows[i]
            \/ rows'[i] = [rows[i] EXCEPT !.area = FALSE]
            \/ \E v : rows'[i] = [rows[i] EXCEPT !.front = v]
            \/ \E v : rows'[i] = [rows[i] EXCEPT !.centred = TRUE, !.grid = v]
        BY <2>8 DEF CentreChunk, FrontChunk, ClearFronts, Cleared, AddParcelGeom, FillFronts
      <4> QED
        BY <4>1, <4>2 DEF RowShape
    <3> QED
      BY <2>0, <2>10, <3>1, <3>2, <1>3
  <2>9. CASE BuildBaseSites
    <3>1. rows' = [i \in DOMAIN rows' |-> rows'[i]]
      <4> DEFINE fresh == {p \in SiteProps : BaseOf(p) = {}}
                 given == CHOOSE f \in [fresh -> nextId .. nextId + Cardinality(fresh) - 1] :
                              \A p, q \in fresh : p # q => f[p] # f[q]
                 PropAt(i) == CHOOSE p \in fresh : given[p] = i
                 New(i) == IF i \notin Ids THEN Derived(PropAt(i), NewBase(PropAt(i)))
                           ELSE IF \E p \in SiteProps : i \in BaseOf(p)
                                THEN Derived(CHOOSE p \in SiteProps : i \in BaseOf(p), rows[i])
                           ELSE rows[i]
                 Held == Ids \cup {given[p] : p \in fresh}
      <4>1. rows' = [i \in Held |-> New(i)]
        BY <2>9 DEF BuildBaseSites
      <4> HIDE DEF New, Held
      <4> QED
        BY <4>1
    <3>2. \A i \in DOMAIN rows' : IF i \in Ids THEN rows'[i] = rows[i] \/ \E p : rows'[i] = Derived(p, rows[i])
                                 ELSE \E p : rows'[i] = Derived(p, NewBase(p))
      BY <2>9 DEF BuildBaseSites
    <3>3. Ids \subseteq DOMAIN rows'
      BY <2>9 DEF BuildBaseSites
    <3>4. \A p : RowShape(NewBase(p))
      BY DEF NewBase, RowShape
    <3>5. ASSUME NEW i \in DOMAIN rows' PROVE RowShape(rows'[i])
      <4>1. \/ i \in Ids /\ rows'[i] = rows[i]
            \/ \E p : i \in Ids /\ rows'[i] = Derived(p, rows[i])
            \/ \E p : rows'[i] = Derived(p, NewBase(p))
        BY <3>2
      <4> QED
        BY <4>1, <3>4 DEF Shape, Derived, RowShape
    <3>6. ASSUME NEW i \in Ids PROVE rows'[i].base = rows[i].base /\ rows'[i].ruling = rows[i].ruling
      <4>1. rows'[i] = rows[i] \/ \E p : rows'[i] = Derived(p, rows[i])
        BY <3>2, <3>3
      <4> QED
        BY <4>1 DEF Shape, Derived, RowShape
    <3> QED
      BY <2>0, <2>10, <3>1, <3>3, <3>5, <3>6, <1>3
  <2>11. ASSUME SaveCard \/ \E a \in Addresses, g \in GisIds : SaveAddressed(a, g)
         PROVE  \E i : Rule(i)
    BY <2>11 DEF SaveCard, SaveAddressed
  <2> QED
    BY <1>7, <2>1, <2>2, <2>3, <2>4, <2>5, <2>6, <2>7, <2>8, <2>9, <2>11
    DEF ParcelsNext, OpenCard, CardGone, StartImport, StartFrontage,
        StartCentres, StartFronts, ImportStepFails, PolygonRefused
<1> QED
  BY <1>1, <1>4, <1>5, <1>6, <1>7 DEF Next

\* RulingsSurvive, for every layer, batch and plan: no script takes away what people add,
\* --force-drop apart (import_parcels.py, import_gis_data.py, derive_intersections.py).
THEOREM RulingsSurviveCorrect == Spec => RulingsSurvive
<1>1. KeepsRulings \/ UNCHANGED vars => [KeepsRulings]_vars
  OBVIOUS
<1> QED
  BY InitShape, NextShape, <1>1, PTL DEF Spec, RulingsSurvive

(***************************************************************************)
(* Types.  The files, the tables and the tiles first.                      *)
(***************************************************************************)

Less == {z \in Nat \X Nat : z[1] < z[2]}

\* A nonempty set of numbers has a least one.
LEMMA Least ==
    ASSUME NEW T \in SUBSET Nat, T # {}
    PROVE  \E m \in T : \A k \in T : m <= k
<1>1. OpToRel(<, Nat) = Less
  BY DEF OpToRel, Less
<1>2. IsWellFoundedOn(Less, Nat)
  BY <1>1, NatLessThanWellFounded
<1>3. PICK m \in T : \A k \in T : ~ (<<k, m>> \in Less)
  BY <1>2, WFMin
<1>4. ASSUME NEW k \in T, k < m PROVE <<k, m>> \in Less
  BY <1>4 DEF Less
<1>5. \A k \in T : ~(k < m)
  BY <1>3, <1>4
<1>6. \A k \in T : m <= k
  BY <1>5
<1> QED
  BY <1>6

StepNames == {StepOrder[n] : n \in DOMAIN StepOrder}

\* Every step of import_gis_data.py but the last is followed by one that is not skipped.
LEMMA AfterType ==
    ASSUME NEW step \in StepNames, step # "idle"
    PROVE  After(step) \in StepNames
<1> DEFINE i == CHOOSE n \in DOMAIN StepOrder : StepOrder[n] = step
           later == {n \in DOMAIN StepOrder : n > i /\ ~Skipped(StepOrder[n])}
           next == CHOOSE n \in later : \A m \in later : n <= m
<1>1. DOMAIN StepOrder = 1..9 /\ StepOrder[9] = "idle"
  BY DEF StepOrder
<1>2. i \in 1..9 /\ StepOrder[i] = step
  <2>1. \E n \in DOMAIN StepOrder : StepOrder[n] = step
    BY DEF StepNames
  <2> QED
    BY <1>1, <2>1
<1> HIDE DEF i
<1>3. 9 \in later
  <2>1. i # 9
    BY <1>1, <1>2
  <2>2. 9 > i
    BY <1>2, <2>1
  <2>3. ~Skipped("idle")
    BY DEF Skipped
  <2> QED
    BY <1>1, <2>2, <2>3
<1>4. later \in SUBSET Nat /\ later # {}
  <2>1. later \subseteq 1..9
    BY <1>1
  <2> HIDE DEF later
  <2>2. later # {}
    BY <1>3
  <2> QED
    BY <2>1, <2>2
<1> HIDE DEF later
<1>5. \E n \in later : \A m \in later : n <= m
  BY <1>4, Least
<1>6. next \in later
  BY <1>5
<1>7. StepOrder[next] \in StepNames
  BY <1>6 DEF later, StepNames
<1> QED
  BY <1>7 DEF After, later, i

LEMMA SpendType ==
    ASSUME left \in [Kinds -> Nat], NEW kind \in Kinds, Spend(kind)
    PROVE  left' \in [Kinds -> Nat]
<1>1. left[kind] \in Nat /\ left[kind] > 0
  BY DEF Spend
<1>2. left[kind] - 1 \in Nat
  BY <1>1
<1> QED
  BY <1>2 DEF Spend

\* A step takes an event from the plan or leaves the plan alone.
LEMMA LeftType ==
    ASSUME left \in [Kinds -> Nat], [Next]_vars
    PROVE  left' \in [Kinds -> Nat]
<1>0. Kinds = {"publish", "download", "update", "gis", "derive", "hydrants", "learn", "place",
          "parcels", "frontage", "card", "entrance", "export", "ortho", "cadastral", "finalize",
          "fault"}
  BY DEF Kinds
<1>1. FilesNext => left' = left \/ \E kind \in Kinds : Spend(kind)
  BY <1>0 DEF FilesNext, Publish, StartDownload, DownloadDataset, DownloadEnds, StartUpdate, Fetch,
     SetAside, Unpack, FixWinding, WindingFails, DropCopy, MarkSuccess, UpdateFails,
     Revert, RevertFails, UpdateKilled, WeekPasses, files
<1>2. TablesNext => left' = left \/ \E kind \in Kinds : Spend(kind)
  BY <1>0 DEF TablesNext, StartGisImport, ImportTable, ImportVocabulary, ComputeJunctions,
     GisStepFails, GisKilled, DeriveJunctions, SyncHydrants, LearnTerm, PlaceJunction
<1>3. ParcelsNext => left' = left \/ \E kind \in Kinds : Spend(kind)
  BY <1>0 DEF ParcelsNext, OpenCard, SaveStreetView, SaveCard, CardGone, ClearCard, SaveAddressed,
     StartImport, StartFrontage, CreateTable, DeleteCityRows, InsertCityRows, StartCentres,
     CentreChunk, BuildBaseSites, StartFronts, FrontChunk, ClearFronts, ImportStepFails,
     PolygonRefused, AddParcelGeom, FillFronts, ImportFrame, Rule
<1>4. TilesNext => left' = left \/ \E kind \in Kinds : Spend(kind)
  BY <1>0 DEF TilesNext, ExportCoverage, StartOrtho, StartCadastral, Fetched, NotFetched, EndCrawl,
     CrawlKilled, Finalize
<1>5. left' = left \/ \E kind \in Kinds : Spend(kind)
  BY <1>1, <1>2, <1>3, <1>4 DEF Next, vars, fileVars
<1> QED
  BY <1>5, SpendType

DataType ==
    /\ UpdateType
    /\ FilesTypeOK
    /\ TablesTypeOK
    /\ TilesTypeOK
    /\ gis \in [at : StepNames, junctions : BOOLEAN, parcels : BOOLEAN]
    /\ crawl.layer \in Layers /\ crawl.batch \subseteq Tiles

LEMMA InitData == Init => DataType
<1> SUFFICES ASSUME Init PROVE DataType
  OBVIOUS
<1>0. published \in Editions /\ Absent \in Contents /\ 0 \in 0..MaxEdition /\ 1 \in 0..MaxEdition
      /\ Editions \subseteq Contents /\ 1 \in Editions
  BY ContentsFacts, FilesConstantsOK DEF Init, FilesInit, Editions
<1>1. FilesTypeOK
  <2>1. staging \in [1..4 -> Contents]
    BY <1>0 DEF Init, FilesInit
  <2>2. left \in [Kinds -> Nat]
    BY FilesConstantsOK DEF Init, FilesInit
  <2>3. folder \in [1..2 -> Contents] /\ backup \in [1..2 -> Contents]
    BY <1>0 DEF Init, FilesInit
  <2>4. stamp \in BOOLEAN
    BY DEF Init, FilesInit
  <2>6. dl \in 0..4
    BY DEF Init, FilesInit
  <2>5. upd.from \in [1..2 -> {0} \cup Editions]
    BY InitUpdate DEF UpdateType, UpdType
  <2> QED
    BY <1>0, <2>1, <2>2, <2>3, <2>4, <2>5, <2>6 DEF FilesTypeOK
<1>2. TablesTypeOK /\ gis \in [at : StepNames, junctions : BOOLEAN, parcels : BOOLEAN]
  <2>0. Init => gis = [at |-> "idle", junctions |-> FALSE, parcels |-> FALSE]
    BY DEF Init, TablesInit, NoGis
  <2>1. "idle" \in StepNames
    BY DEF StepNames, StepOrder
  <2>2. tables \in [1..4 -> 0..MaxEdition]
    BY <1>0 DEF Init, TablesInit
  <2>3. junctions \in [derived : 0..MaxEdition, manual : SUBSET Junctions]
    BY <2>2 DEF Init, TablesInit, Roads
  <2>4. hydrants \in [Hydrants -> [seen : 0..MaxEdition, zone : 0..MaxEdition]]
    BY <1>0 DEF Init, TablesInit
  <2>5. vocabulary \subseteq Terms
    BY TablesConstantsOK DEF Init, TablesInit
  <2>6. gis = [at |-> "idle", junctions |-> FALSE, parcels |-> FALSE]
    BY <2>0
  <2> QED
    BY <2>1, <2>2, <2>3, <2>4, <2>5, <2>6 DEF TablesTypeOK, StepNames
<1>3. TilesTypeOK /\ crawl.layer \in Layers /\ crawl.batch \subseteq Tiles
  BY <1>0 DEF Init, TilesInit, TilesTypeOK, NoCrawl, Layers
<1> QED
  BY <1>1, <1>2, <1>3, InitUpdate DEF DataType

LEMMA FilesData ==
    ASSUME DataType, FilesNext
    PROVE  staging' \in [1..4 -> Contents] /\ stamp' \in BOOLEAN /\ dl' \in 0..4
<1>0. Torn \in Contents /\ Void \in Contents /\ published \in Contents
  BY ContentsFacts DEF DataType, FilesTypeOK
<1>1. ASSUME NEW got \in {published, Void}, DownloadDataset(got)
      PROVE  staging' \in [1..4 -> Contents] /\ stamp' \in BOOLEAN /\ dl' \in 0..4
  <2>1. NextDataset \in 0..4
    <3>1. Len(Datasets) = 4
      BY DEF Datasets
    <3> QED
      BY <3>1 DEF NextDataset, DataType, FilesTypeOK
  <2> QED
    BY <1>0, <1>1, <2>1 DEF DownloadDataset, DataType, FilesTypeOK
<1>2. ASSUME NEW half \in BOOLEAN, DownloadEnds(half)
      PROVE  staging' \in [1..4 -> Contents] /\ stamp' \in BOOLEAN /\ dl' \in 0..4
  BY <1>0, <1>2 DEF DownloadEnds, DataType, FilesTypeOK
<1>3. CASE UNCHANGED <<staging, dl>> /\ stamp' \in BOOLEAN
  BY <1>3 DEF DataType, FilesTypeOK
<1>4. CASE StartDownload
  BY <1>4 DEF StartDownload, DataType, FilesTypeOK
<1>5. \/ \E got \in {published, Void} : DownloadDataset(got)
      \/ \E half \in BOOLEAN : DownloadEnds(half)
      \/ StartDownload
      \/ UNCHANGED <<staging, dl>> /\ stamp' \in BOOLEAN
  BY DEF DataType, FilesTypeOK, FilesNext, Publish, StartUpdate, Fetch,
     SetAside, Unpack, FixWinding, WindingFails, DropCopy, MarkSuccess, UpdateFails,
     Revert, RevertFails, UpdateKilled, WeekPasses, files
<1> QED
  BY <1>1, <1>2, <1>3, <1>4, <1>5

GisType == gis \in [at : StepNames, junctions : BOOLEAN, parcels : BOOLEAN]

LEMMA GisDoneType ==
    ASSUME GisType, NEW step \in StepNames, step # "idle", GisDone(step)
    PROVE  GisType'
<1>1. After(step) \in StepNames
  BY AfterType
<1>2. NoGis \in [at : StepNames, junctions : BOOLEAN, parcels : BOOLEAN]
  <2>1. "idle" \in StepNames
    BY DEF StepNames, StepOrder
  <2> QED
    BY <2>1 DEF NoGis
<1> QED
  BY <1>1, <1>2 DEF GisDone, GisType

LEMMA GisMoves ==
    ASSUME DataType, [Next]_vars
    PROVE  GisType'
<1>0. GisType
  BY DEF DataType, GisType
<1>a. /\ "idle" \in StepNames /\ "roads" \in StepNames
      /\ \A s \in {"vocabulary", "junctions", "outlines", "fronts", "roads", "names", "boundary", "zones"} :
            s \in StepNames /\ s # "idle"
      /\ DOMAIN TableOf = {"roads", "names", "boundary", "zones"}
  <2>1. DOMAIN StepOrder = 1..9
    BY DEF StepOrder
  <2>2. \A n \in 1..9 : StepOrder[n] \in StepNames
    BY <2>1 DEF StepNames
  <2>3. /\ StepOrder[1] = "roads" /\ StepOrder[2] = "zones" /\ StepOrder[3] = "boundary"
        /\ StepOrder[4] = "names" /\ StepOrder[5] = "vocabulary" /\ StepOrder[6] = "junctions"
        /\ StepOrder[7] = "outlines" /\ StepOrder[8] = "fronts" /\ StepOrder[9] = "idle"
    BY DEF StepOrder
  <2>4. DOMAIN TableOf = {"roads", "names", "boundary", "zones"}
    BY DEF TableOf
  <2> QED
    BY <2>2, <2>3, <2>4
<1>1. NoGis \in [at : StepNames, junctions : BOOLEAN, parcels : BOOLEAN]
  BY <1>a DEF NoGis
<1>2. CASE \E step \in StepNames : step # "idle" /\ GisDone(step)
  BY <1>0, <1>2, GisDoneType
<1>3. CASE gis' = gis
  BY <1>0, <1>3 DEF GisType
<1>4. CASE StartGisImport
  BY <1>4, <1>a DEF StartGisImport, GisType
<1>5. CASE gis' = NoGis
  BY <1>1, <1>5 DEF GisType
<1>6. FilesNext /\ UNCHANGED <<tableVars, gis, parcelVars, tileVars>> => gis' = gis
  OBVIOUS
<1>7. TilesNext => gis' = gis
  BY DEF TilesNext, ExportCoverage, StartOrtho, StartCadastral, Fetched, NotFetched, EndCrawl,
     CrawlKilled, Finalize, dbVars
<1>8. TablesNext => \/ \E step \in StepNames : step # "idle" /\ GisDone(step)
                    \/ gis' = gis \/ StartGisImport \/ gis' = NoGis
  <2>1. gis.at \in StepNames
    BY <1>0 DEF GisType
  <2> QED
    BY <2>1, <1>a DEF TablesNext, ImportTable, ImportVocabulary, ComputeJunctions,
     GisStepFails, GisKilled, DeriveJunctions, SyncHydrants, LearnTerm, PlaceJunction
<1>9. ParcelsNext => gis' = gis \/ \E step \in StepNames : step # "idle" /\ GisDone(step)
  BY <1>a DEF ParcelsNext, OpenCard, SaveStreetView, SaveCard, CardGone, ClearCard, SaveAddressed,
     StartImport, StartFrontage, CreateTable, DeleteCityRows, InsertCityRows, StartCentres,
     CentreChunk, BuildBaseSites, StartFronts, FrontChunk, ClearFronts, ImportStepFails,
     PolygonRefused, AddParcelGeom, FillFronts, ImportFrame, Rule, dataVars
<1>10. UNCHANGED vars => gis' = gis
  BY DEF vars
<1> QED
  BY <1>2, <1>3, <1>4, <1>5, <1>6, <1>7, <1>8, <1>9, <1>10 DEF Next

Numbers == 0..MaxEdition

LEMMA TablesData ==
    ASSUME DataType, [Next]_vars
    PROVE  /\ tables' \in [1..4 -> Numbers]
           /\ vocabulary' \subseteq Terms
           /\ junctions' \in [derived : Numbers, manual : SUBSET Junctions]
           /\ hydrants' \in [Hydrants -> [seen : Numbers, zone : Numbers]]
<1> DEFINE TypeNow == /\ tables \in [1..4 -> Numbers]
                      /\ vocabulary \subseteq Terms
                      /\ junctions \in [derived : Numbers, manual : SUBSET Junctions]
                      /\ hydrants \in [Hydrants -> [seen : Numbers, zone : Numbers]]
<1>0. TypeNow /\ staging \in [1..4 -> Contents] /\ published \in Numbers /\ Editions \subseteq Numbers
      /\ 0 \in Numbers
  BY FilesConstantsOK DEF DataType, TablesTypeOK, FilesTypeOK, Numbers, Editions
<1> SUFFICES TypeNow'
  OBVIOUS
<1>1. CASE UNCHANGED tableVars
  BY <1>0, <1>1 DEF tableVars
<1>2. ASSUME NEW step \in DOMAIN TableOf, ImportTable(step) PROVE TypeNow'
  <2> DEFINE d == TableOf[step]
  <2>1. d \in 1..4
    BY DEF TableOf, Roads, Boundary, Zones
  <2> HIDE DEF d
  <2>2. Loaded(d, staging[d]) \in Numbers
    BY <1>0, <2>1 DEF Loaded
  <2>3. tables' = [tables EXCEPT ![d] = Loaded(d, staging[d])] /\ UNCHANGED <<vocabulary, junctions, hydrants>>
    BY <1>2 DEF ImportTable, d
  <2> QED
    BY <1>0, <2>1, <2>2, <2>3
<1>3. CASE ImportVocabulary
  BY <1>0, <1>3, TablesConstantsOK DEF ImportVocabulary, Seeded
<1>4. CASE ComputeJunctions \/ DeriveJunctions
  <2>1. Rebuilt \in [derived : Numbers, manual : SUBSET Junctions]
    BY <1>0 DEF Rebuilt, Roads
  <2> QED
    BY <1>0, <1>4, <2>1 DEF ComputeJunctions, DeriveJunctions
<1>5. CASE SyncHydrants
  <2>1. tables[Zones] \in Numbers
    BY <1>0 DEF Zones
  <2>2. UNCHANGED <<tables, vocabulary, junctions>>
    BY <1>5 DEF SyncHydrants
  <2>3. hydrants' = [h \in Hydrants |->
           [seen |-> IF h \in HydrantsIn[published] THEN published ELSE hydrants[h].seen,
            zone |-> IF (IF h \in HydrantsIn[published] THEN published ELSE hydrants[h].seen) # 0 /\ tables[Zones] # 0
                     THEN tables[Zones] ELSE hydrants[h].zone]]
    BY <1>5 DEF SyncHydrants
  <2>4. hydrants' \in [Hydrants -> [seen : Numbers, zone : Numbers]]
    BY <1>0, <2>1, <2>3
  <2> QED
    BY <1>0, <2>2, <2>4
<1>6. ASSUME NEW t \in Terms, LearnTerm(t) PROVE TypeNow'
  BY <1>0, <1>6 DEF LearnTerm
<1>7. ASSUME NEW j \in Junctions, PlaceJunction(j) PROVE TypeNow'
  BY <1>0, <1>7 DEF PlaceJunction
<1>8. TablesNext => \/ UNCHANGED tableVars
                    \/ \E step \in DOMAIN TableOf : ImportTable(step)
                    \/ ImportVocabulary \/ ComputeJunctions \/ DeriveJunctions \/ SyncHydrants
                    \/ \E t \in Terms : LearnTerm(t)
                    \/ \E j \in Junctions : PlaceJunction(j)
  BY DEF TablesNext, StartGisImport, GisStepFails, GisKilled
<1>9. ParcelsNext \/ TilesNext => UNCHANGED tableVars
  <2>1. ParcelsNext => UNCHANGED tableVars
    BY DEF ParcelsNext, OpenCard, SaveStreetView, SaveCard, CardGone, ClearCard, SaveAddressed,
     StartImport, StartFrontage, CreateTable, DeleteCityRows, InsertCityRows, StartCentres,
     CentreChunk, BuildBaseSites, StartFronts, FrontChunk, ClearFronts, ImportStepFails,
     PolygonRefused, AddParcelGeom, FillFronts, ImportFrame, dataVars
  <2>2. TilesNext => UNCHANGED tableVars
    BY DEF TilesNext, ExportCoverage, StartOrtho, StartCadastral, Fetched, NotFetched, EndCrawl,
     CrawlKilled, Finalize, dbVars
  <2> QED
    BY <2>1, <2>2
<1>10. UNCHANGED vars => UNCHANGED tableVars
  BY DEF vars
<1> HIDE DEF TypeNow
<1> QED
  BY <1>1, <1>2, <1>3, <1>4, <1>5, <1>6, <1>7, <1>8, <1>9, <1>10 DEF Next

LEMMA TilesData ==
    ASSUME DataType, [Next]_vars
    PROVE  TilesTypeOK' /\ (crawl.layer \in Layers /\ crawl.batch \subseteq Tiles)'
<1> DEFINE Held == TilesTypeOK /\ crawl.layer \in Layers /\ crawl.batch \subseteq Tiles
<1>0. Held /\ tables[Boundary] \in 0..MaxEdition
  BY DEF DataType, TablesTypeOK, Boundary
<1>a. coverage # 0 => TilesIn[coverage] \subseteq Tiles
  BY <1>0, TileConstantsOK DEF TilesTypeOK, Editions
<1> USE DEF TilesTypeOK
<1> SUFFICES Held'
  OBVIOUS
<1>1. CASE UNCHANGED tileVars
  BY <1>0, <1>1 DEF tileVars
<1>2. CASE ExportCoverage
  BY <1>0, <1>2 DEF ExportCoverage
<1>3. ASSUME NEW skip \in BOOLEAN, StartOrtho(skip) PROVE Held'
  <2>1. archives' \in [Layers -> [tiles : SUBSET Tiles, wal : BOOLEAN]]
    <3>1. archives["ortho"].tiles \cup Loose \in SUBSET Tiles
      BY <1>0, TileConstantsOK DEF Layers
    <3> QED
      BY <1>0, <1>3, <3>1 DEF StartOrtho
  <2> QED
    BY <1>0, <1>3, <2>1 DEF StartOrtho, NoCrawl, Layers
<1>4. CASE StartCadastral
  <2>1. archives' \in [Layers -> [tiles : SUBSET Tiles, wal : BOOLEAN]]
    BY <1>0, <1>4 DEF StartCadastral
  <2> QED
    BY <1>0, <1>4, <2>1 DEF StartCadastral, Layers
<1>5. ASSUME NEW t \in Tiles, Fetched(t) PROVE Held'
  <2> DEFINE batch == crawl.batch \cup {t}
             full == Cardinality(batch) >= TileBatch
  <2>1. batch \subseteq Tiles
    BY <1>0
  <2>2. /\ archives' = IF full THEN [archives EXCEPT ![crawl.layer].tiles = @ \cup batch] ELSE archives
        /\ crawl' = [crawl EXCEPT !.todo = @ \ {t}, !.batch = IF full THEN {} ELSE batch]
        /\ coverage' = coverage
    BY <1>5 DEF Fetched
  <2> HIDE DEF batch, full
  <2>3. archives' \in [Layers -> [tiles : SUBSET Tiles, wal : BOOLEAN]]
    BY <1>0, <2>1, <2>2
  <2>4. crawl'.todo \subseteq crawl'.wanted /\ crawl'.layer = crawl.layer /\ crawl'.batch \subseteq Tiles
    BY <1>0, <2>1, <2>2
  <2> QED
    BY <1>0, <2>2, <2>3, <2>4
<1>6. ASSUME NEW t \in Tiles, NotFetched(t) PROVE Held'
  BY <1>0, <1>6 DEF NotFetched
<1>7. CASE EndCrawl
  <2>1. archives' \in [Layers -> [tiles : SUBSET Tiles, wal : BOOLEAN]]
    BY <1>0, <1>7 DEF EndCrawl, LastBatch
  <2> QED
    BY <1>0, <1>7, <2>1 DEF EndCrawl
<1>8. CASE CrawlKilled
  BY <1>0, <1>8 DEF CrawlKilled, NoCrawl, Layers
<1>9. CASE Finalize
  <2>1. archives' \in [Layers -> [tiles : SUBSET Tiles, wal : BOOLEAN]]
    BY <1>0, <1>9 DEF Finalize
  <2> QED
    BY <1>0, <1>9, <2>1 DEF Finalize
<1>10. TilesNext \/ UNCHANGED tileVars
  BY DEF Next, vars, TablesNext, ParcelsNext
<1> HIDE DEF Held
<1> QED
  BY <1>1, <1>2, <1>3, <1>4, <1>5, <1>6, <1>7, <1>8, <1>9, <1>10 DEF TilesNext

LEMMA NextData == DataType /\ CopiesInv /\ [Next]_vars => DataType'
<1> SUFFICES ASSUME DataType, CopiesInv, [Next]_vars PROVE DataType'
  OBVIOUS
<1>1. UpdateType'
  BY NextUpdate DEF DataType
<1>2. staging' \in [1..4 -> Contents] /\ stamp' \in BOOLEAN /\ dl' \in 0..4
  <2>1. CASE FilesNext
    BY <2>1, FilesData
  <2>2. CASE UNCHANGED files
    BY <2>2 DEF files, DataType, FilesTypeOK
  <2> QED
    BY <2>1, <2>2, OutsideFiles DEF Next, vars, fileVars
<1>3. FilesTypeOK'
  <2>1. left' \in [Kinds -> Nat]
    BY LeftType DEF DataType, FilesTypeOK
  <2> QED
    BY <1>1, <1>2, <2>1 DEF FilesTypeOK, UpdateType, UpdType
<1>4. GisType'
  BY GisMoves
<1>5. TablesTypeOK'
  BY <1>4, TablesData DEF TablesTypeOK, Numbers, GisType, StepNames
<1>6. TilesTypeOK' /\ (crawl.layer \in Layers /\ crawl.batch \subseteq Tiles)'
  BY TilesData
<1> QED
  BY <1>1, <1>3, <1>4, <1>5, <1>6 DEF DataType, GisType

(***************************************************************************)
(* The rows.                                                               *)
(***************************************************************************)

ImportSteps == {"idle", "table", "delete", "insert", "zones", "centres", "bases", "front",
                "fronts", "clear", "done"}

ImportType ==
    imp \in [at : ImportSteps, edition : Numbers, drop : BOOLEAN, fronts : BOOLEAN,
             todo : SUBSET Nat, ok : BOOLEAN, seen : SUBSET Numbers]

Row == [base : BOOLEAN, prop : Props \cup {NoProp}, address : Addresses, gis : GisIds \cup Addresses,
        site : SUBSET Lots, area : BOOLEAN, centred : BOOLEAN, grid : Numbers, front : Numbers,
        ruling : Nat]

OneBaseEach ==
    \A i, j \in Ids : rows[i].base /\ rows[j].base /\ rows[i].address = rows[j].address => i = j

RowsOK ==
    /\ rows \in [Ids -> Row]
    /\ nextId \in Nat \ {0} /\ Ids \subseteq 1 .. nextId - 1
    /\ OneBaseEach
    /\ \A i \in Ids : rows[i].gis \in GisIds \/ rows[i].gis = rows[i].address
    /\ rulings \in Nat /\ \A i \in Ids : rows[i].ruling <= rulings

\* What no step but the ones that make rows decides.
Identity(r, s) ==
    r.base = s.base /\ r.prop = s.prop /\ r.address = s.address /\ r.gis = s.gis /\ r.site = s.site

LEMMA IdentitySelf == ASSUME NEW r PROVE Identity(r, r)
  BY DEF Identity

LEMMA RulingUpdate ==
    ASSUME NEW r \in Row, NEW n \in Nat
    PROVE  LET s == [r EXCEPT !.ruling = n] IN s \in Row /\ Identity(s, r) /\ s.ruling = n
  BY DEF Row, Identity

LEMMA FrontUpdate ==
    ASSUME NEW r \in Row, NEW n \in Numbers
    PROVE  LET s == [r EXCEPT !.front = n] IN s \in Row /\ Identity(s, r) /\ s.ruling = r.ruling
  BY DEF Row, Identity

LEMMA CentreUpdate ==
    ASSUME NEW r \in Row, NEW n \in Numbers
    PROVE  LET s == [r EXCEPT !.centred = TRUE, !.grid = n]
           IN  s \in Row /\ Identity(s, r) /\ s.ruling = r.ruling
  BY DEF Row, Identity

LEMMA AreaUpdate ==
    ASSUME NEW r \in Row
    PROVE  LET s == [r EXCEPT !.area = FALSE] IN s \in Row /\ Identity(s, r) /\ s.ruling = r.ruling
  BY DEF Row, Identity

\* A step that keeps every row and what it stands for.
RowsStay ==
    /\ rows' \in [Ids -> Row] /\ nextId' = nextId
    /\ rulings' \in Nat
    /\ \A i \in Ids : Identity(rows'[i], rows[i]) /\ rows'[i].ruling <= rulings'

LEMMA StayOK == ASSUME RowsOK, RowsStay PROVE RowsOK' /\ Ids' = Ids
<1>1. Ids' = Ids /\ DOMAIN rows' = Ids
  BY DEF RowsStay, Ids
<1>2. \A i \in Ids : rows'[i].base = rows[i].base /\ rows'[i].address = rows[i].address /\ rows'[i].gis = rows[i].gis
  BY DEF RowsStay, Identity
<1>3. OneBaseEach'
  BY <1>1, <1>2 DEF RowsOK, OneBaseEach
<1>4. \A i \in Ids : rows'[i].gis \in GisIds \/ rows'[i].gis = rows'[i].address
  BY <1>2 DEF RowsOK
<1> QED
  BY <1>1, <1>3, <1>4 DEF RowsOK, RowsStay

\* The five actions that make rows or take them away.
Makes == \/ \E a \in Addresses, g \in GisIds : SaveStreetView(a, g)
         \/ CreateTable \/ DeleteCityRows \/ InsertCityRows \/ BuildBaseSites

\* What a row-by-row update may do to a row.
Updates(r) == {r, [r EXCEPT !.area = FALSE]} \cup {[r EXCEPT !.front = n] : n \in Numbers}
              \cup {[r EXCEPT !.centred = TRUE, !.grid = n] : n \in Numbers}

LEMMA UpdatesStay ==
    ASSUME RowsOK, NEW f, rows' = [i \in Ids |-> f[i]], \A i \in Ids : f[i] \in Updates(rows[i]),
           nextId' = nextId, rulings' = rulings
    PROVE  RowsStay
<1>1. ASSUME NEW i \in Ids
      PROVE  rows'[i] \in Row /\ Identity(rows'[i], rows[i]) /\ rows'[i].ruling <= rulings'
  <2>1. rows[i] \in Row /\ rows[i].ruling <= rulings /\ rows'[i] = f[i] /\ f[i] \in Updates(rows[i])
    BY DEF RowsOK
  <2>2. \/ f[i] = rows[i] \/ f[i] = [rows[i] EXCEPT !.area = FALSE]
        \/ \E n \in Numbers : f[i] = [rows[i] EXCEPT !.front = n]
        \/ \E n \in Numbers : f[i] = [rows[i] EXCEPT !.centred = TRUE, !.grid = n]
    BY <2>1 DEF Updates
  <2>3. f[i] \in Row /\ Identity(f[i], rows[i]) /\ f[i].ruling = rows[i].ruling
    <3>1. CASE f[i] = rows[i]
      BY <2>1, <3>1, IdentitySelf
    <3>2. CASE f[i] = [rows[i] EXCEPT !.area = FALSE]
      BY <2>1, <3>2, AreaUpdate
    <3>3. ASSUME NEW n \in Numbers, f[i] = [rows[i] EXCEPT !.front = n]
          PROVE  f[i] \in Row /\ Identity(f[i], rows[i]) /\ f[i].ruling = rows[i].ruling
      BY <2>1, <3>3, FrontUpdate
    <3>4. ASSUME NEW n \in Numbers, f[i] = [rows[i] EXCEPT !.centred = TRUE, !.grid = n]
          PROVE  f[i] \in Row /\ Identity(f[i], rows[i]) /\ f[i].ruling = rows[i].ruling
      BY <2>1, <3>4, CentreUpdate
    <3> QED
      BY <2>2, <3>1, <3>2, <3>3, <3>4
  <2> QED
    BY <2>1, <2>3
<1> QED
  BY <1>1 DEF RowsStay, RowsOK

\* The three actions that work over the table in chunks.
LEMMA ChunksStay ==
    ASSUME DataType, RowsOK, CentreChunk \/ FrontChunk \/ ClearFronts
    PROVE  RowsStay
<1>b. tables[Zones] \in Numbers /\ tables[Roads] \in Numbers /\ 0 \in Numbers
  BY FilesConstantsOK DEF DataType, TablesTypeOK, Numbers, Zones, Roads
<1>4. CASE CentreChunk
  <2> DEFINE f == [i \in Ids |-> IF i \in Chunk /\ i \in CityIds /\ HasGeom(i)
                                 THEN [rows[i] EXCEPT !.centred = TRUE, !.grid = tables[Zones]] ELSE rows[i]]
  <2>1. rows' = f /\ nextId' = nextId /\ rulings' = rulings
    BY <1>4 DEF CentreChunk, ImportFrame
  <2>2. \A i \in Ids : f[i] \in Updates(rows[i])
    BY <1>b DEF Updates
  <2>3. rows' = [i \in Ids |-> f[i]]
    BY <2>1
  <2> HIDE DEF f
  <2> QED
    BY <2>1, <2>2, <2>3, UpdatesStay
<1>5. CASE FrontChunk
  <2> DEFINE within == {i \in Ids : \E j, k \in Chunk : j <= i /\ i <= k}
             f == [i \in Ids |-> IF i \in within /\ rows[i].centred /\ HasGeom(i) /\ HasRoad(i)
                                 THEN [rows[i] EXCEPT !.front = tables[Roads]] ELSE rows[i]]
  <2>1. rows' = f /\ nextId' = nextId /\ rulings' = rulings
    BY <1>5 DEF FrontChunk, ImportFrame
  <2>2. \A i \in Ids : f[i] \in Updates(rows[i])
    BY <1>b DEF Updates
  <2>3. rows' = [i \in Ids |-> f[i]]
    BY <2>1
  <2> HIDE DEF f
  <2> QED
    BY <2>1, <2>2, <2>3, UpdatesStay
<1>6. CASE ClearFronts
  <2> DEFINE f == [i \in Ids |-> Cleared(i)]
  <2>1. rows' = f /\ nextId' = nextId /\ rulings' = rulings
    BY <1>6 DEF ClearFronts, ImportFrame
  <2>2. \A i \in Ids : f[i] \in Updates(rows[i])
    BY <1>b DEF Updates, Cleared
  <2>3. rows' = [i \in Ids |-> f[i]]
    BY <2>1
  <2> HIDE DEF f
  <2> QED
    BY <2>1, <2>2, <2>3, UpdatesStay
<1> QED
  BY <1>4, <1>5, <1>6

LEMMA OthersStay == ASSUME DataType, RowsOK, [Next]_vars PROVE RowsStay \/ Makes
<1>a. /\ \A i \in Ids : rows[i] \in Row /\ rows[i].ruling <= rulings /\ rows[i].ruling \in Nat
      /\ rows = [i \in Ids |-> rows[i]] /\ rulings \in Nat /\ rows \in [Ids -> Row]
  BY DEF RowsOK, Row
<1>b. tables[Zones] \in Numbers /\ tables[Roads] \in Numbers /\ 0 \in Numbers
  BY FilesConstantsOK DEF DataType, TablesTypeOK, Numbers, Zones, Roads
<1>1. CASE UNCHANGED <<rows, nextId, rulings>>
  BY <1>a, <1>1, IdentitySelf DEF RowsStay
<1>2. ASSUME NEW t, Rule(t), nextId' = nextId PROVE RowsStay
  <2>1. rulings' = rulings + 1 /\ rows' = [rows EXCEPT ![t].ruling = rulings + 1]
    BY <1>2 DEF Rule
  <2>2. ASSUME NEW i \in Ids
        PROVE  rows'[i] \in Row /\ Identity(rows'[i], rows[i]) /\ rows'[i].ruling <= rulings'
    <3>1. rows'[i] = IF i = t THEN [rows[i] EXCEPT !.ruling = rulings + 1] ELSE rows[i]
      BY <2>1, <1>a
    <3>2. rulings + 1 \in Nat /\ rulings <= rulings + 1
      BY <1>a
    <3>3. CASE i = t
      <4>1. rows'[i] = [rows[i] EXCEPT !.ruling = rulings + 1]
        BY <3>1, <3>3
      <4> QED
        BY <4>1, <3>2, <2>1, <1>a, RulingUpdate
    <3>4. CASE i # t
      <4>1. rows[i].ruling <= rulings + 1
        BY <1>a
      <4> QED
        BY <3>1, <3>4, <2>1, <4>1, <1>a, IdentitySelf
    <3> QED
      BY <3>3, <3>4
  <2>3. DOMAIN rows' = Ids /\ rows' = [i \in Ids |-> rows'[i]]
    BY <2>1, <1>a
  <2>4. rows' \in [Ids -> Row]
    BY <2>2, <2>3
  <2>5. rulings' \in Nat
    BY <1>a, <2>1
  <2> QED
    BY <1>2, <2>2, <2>4, <2>5 DEF RowsStay
<1>3. CASE ClearCard
  <2>1. rulings' = rulings /\ nextId' = nextId /\ rows' = [rows EXCEPT ![card].ruling = 0]
    BY <1>3 DEF ClearCard
  <2>2. ASSUME NEW i \in Ids
        PROVE  rows'[i] \in Row /\ Identity(rows'[i], rows[i]) /\ rows'[i].ruling <= rulings'
    <3>1. rows'[i] = IF i = card THEN [rows[i] EXCEPT !.ruling = 0] ELSE rows[i]
      BY <2>1, <1>a
    <3>2. 0 \in Nat /\ 0 <= rulings
      BY <1>a
    <3>3. CASE i = card
      <4>1. rows'[i] = [rows[i] EXCEPT !.ruling = 0]
        BY <3>1, <3>3
      <4> QED
        BY <4>1, <3>2, <2>1, <1>a, RulingUpdate
    <3> QED
      BY <3>1, <3>3, <2>1, <1>a, IdentitySelf
  <2>3. DOMAIN rows' = Ids /\ rows' = [i \in Ids |-> rows'[i]]
    BY <2>1, <1>a
  <2> QED
    BY <1>a, <2>1, <2>2, <2>3 DEF RowsStay
<1>4. CASE CentreChunk \/ FrontChunk \/ ClearFronts
  BY <1>4, ChunksStay
<1>7. CASE AddParcelGeom
  <2> DEFINE f == [i \in Ids |-> [rows[i] EXCEPT !.area = FALSE]]
  <2>1. rows' = f /\ nextId' = nextId /\ rulings' = rulings
    BY <1>7 DEF AddParcelGeom
  <2>2. \A i \in Ids : f[i] \in Updates(rows[i])
    BY DEF Updates
  <2>3. rows' = [i \in Ids |-> f[i]]
    BY <2>1
  <2> HIDE DEF f
  <2> QED
    BY <2>1, <2>2, <2>3, UpdatesStay
<1>8. CASE FillFronts
  <2> DEFINE f == [i \in Ids |->
           IF /\ rows[i].front = 0 /\ rows[i].centred
              /\ HasRoad(i) /\ StreetOf[rows[i].prop] \in FullNames
           THEN [rows[i] EXCEPT !.front = tables[Roads]] ELSE rows[i]]
  <2>1. rows' = f /\ nextId' = nextId /\ rulings' = rulings
    BY <1>8 DEF FillFronts
  <2>2. \A i \in Ids : f[i] \in Updates(rows[i])
    BY <1>b DEF Updates
  <2>3. rows' = [i \in Ids |-> f[i]]
    BY <2>1
  <2> HIDE DEF f
  <2> QED
    BY <2>1, <2>2, <2>3, UpdatesStay
<1>9. ParcelsNext => \/ UNCHANGED <<rows, nextId, rulings>> \/ ClearCard \/ CentreChunk \/ FrontChunk
                     \/ ClearFronts \/ AddParcelGeom \/ FillFronts \/ Makes
                     \/ \E t : Rule(t) /\ nextId' = nextId
  BY DEF ParcelsNext, OpenCard, SaveCard, CardGone, SaveAddressed, StartImport, StartFrontage,
     StartCentres, StartFronts, ImportStepFails, PolygonRefused, ImportFrame, Makes
<1>10. ParcelsNext \/ UNCHANGED <<rows, nextId, rulings>>
  <2>1. TilesNext /\ UNCHANGED parcelVars => UNCHANGED <<rows, nextId, rulings>>
    BY DEF parcelVars
  <2> QED
    BY <2>1 DEF Next, vars, parcelVars
<1> QED
  BY <1>1, <1>2, <1>3, <1>4, <1>7, <1>8, <1>9, <1>10

(***************************************************************************)
(* The base sites that are new, and the ids they are given.                *)
(***************************************************************************)

Fresh == {p \in SiteProps : BaseOf(p) = {}}
Given == CHOOSE f \in [Fresh -> nextId .. nextId + Cardinality(Fresh) - 1] :
             \A p, q \in Fresh : p # q => f[p] # f[q]

LEMMA FreshFinite ==
    /\ IsFiniteSet(Fresh) /\ Cardinality(Fresh) \in Nat /\ Cardinality(Props) \in Nat
    /\ Cardinality(Fresh) <= Cardinality(Props)
<1>1. Fresh \in SUBSET Props /\ IsFiniteSet(Props)
  BY ParcelConstantsOK DEF Fresh, SiteProps
<1> QED
  BY <1>1, FS_Subset, FS_CardinalityType

\* There are as many ids as new sites, and each site gets its own.
LEMMA GivenFacts ==
    ASSUME RowsOK
    PROVE  /\ Given \in [Fresh -> nextId .. nextId + Cardinality(Fresh) - 1]
           /\ \A p, q \in Fresh : p # q => Given[p] # Given[q]
<1> DEFINE n == Cardinality(Fresh)
<1>1. n \in Nat /\ ExistsBijection(1..n, Fresh)
  BY FreshFinite, FS_CardinalityType
<1> HIDE DEF n
<1>2. PICK b : b \in Bijection(1..n, Fresh)
  BY <1>1 DEF ExistsBijection
<1>3. /\ b \in [1..n -> Fresh]
      /\ \A p \in Fresh : \E k \in 1..n : b[k] = p
  BY <1>2 DEF Bijection, Surjection
<1> DEFINE place(p) == CHOOSE k \in 1..n : b[k] = p
<1>4. \A p \in Fresh : place(p) \in 1..n /\ b[place(p)] = p
  BY <1>3
<1> HIDE DEF place
<1> DEFINE f == [p \in Fresh |-> nextId - 1 + place(p)]
<1>5. nextId \in Nat \ {0}
  BY DEF RowsOK
<1>6. ASSUME NEW p \in Fresh PROVE f[p] \in nextId .. nextId + n - 1
  <2>1. place(p) \in Nat /\ 1 <= place(p) /\ place(p) <= n
    BY <1>1, <1>4
  <2> QED
    BY <1>1, <1>5, <2>1
<1>7. ASSUME NEW p \in Fresh, NEW q \in Fresh, p # q PROVE f[p] # f[q]
  <2>1. place(p) # place(q) /\ place(p) \in Nat /\ place(q) \in Nat
    BY <1>1, <1>4, <1>7
  <2> QED
    BY <1>5, <2>1
<1>8. f \in [Fresh -> nextId .. nextId + n - 1]
  BY <1>6
<1> HIDE DEF f
<1>9. \E g \in [Fresh -> nextId .. nextId + n - 1] : \A p, q \in Fresh : p # q => g[p] # g[q]
  BY <1>7, <1>8
<1> QED
  BY <1>9 DEF Given, n

Named(i) == CHOOSE p \in Fresh : Given[p] = i
SiteOf(i) == CHOOSE p \in SiteProps : i \in BaseOf(p)

\* What the step does to the table.
LEMMA BuildFacts ==
    ASSUME RowsOK, BuildBaseSites
    PROVE  /\ \A p \in Fresh : Given[p] \in Nat /\ Given[p] >= nextId /\ Given[p] < nextId + Cardinality(Fresh)
           /\ Ids \cap {Given[p] : p \in Fresh} = {}
           /\ Ids' = Ids \cup {Given[p] : p \in Fresh}
           /\ rows' = [i \in Ids' |-> rows'[i]]
           /\ \A p \in Fresh : rows'[Given[p]] = Derived(p, NewBase(p))
           /\ \A i \in Ids : IF \E p \in SiteProps : i \in BaseOf(p)
                             THEN rows'[i] = Derived(SiteOf(i), rows[i])
                             ELSE rows'[i] = rows[i]
           /\ nextId' = nextId + Cardinality(Fresh)
           /\ rulings' = rulings
           /\ \A p, q \in SiteProps : BaseAddress[p] = BaseAddress[q] => p = q
<1> DEFINE New(i) == IF i \notin Ids THEN Derived(Named(i), NewBase(Named(i)))
                     ELSE IF \E p \in SiteProps : i \in BaseOf(p)
                          THEN Derived(SiteOf(i), rows[i])
                     ELSE rows[i]
           Held == Ids \cup {Given[p] : p \in Fresh}
<1>1. rows' = [i \in Held |-> New(i)] /\ nextId' = nextId + Cardinality(Fresh) /\ rulings' = rulings
  BY DEF BuildBaseSites, Fresh, Given, Named, SiteOf, ImportFrame
<1>2. nextId \in Nat \ {0} /\ Ids \subseteq 1 .. nextId - 1 /\ Cardinality(Fresh) \in Nat
  BY FreshFinite DEF RowsOK
<1>3. \A p \in Fresh : Given[p] \in nextId .. nextId + Cardinality(Fresh) - 1
  BY GivenFacts
<1>4. \A p \in Fresh : Given[p] \in Nat /\ Given[p] >= nextId /\ Given[p] < nextId + Cardinality(Fresh)
  BY <1>2, <1>3
<1>5. \A p \in Fresh : Given[p] \notin Ids
  BY <1>2, <1>4
<1>6. \A p \in Fresh : Named(Given[p]) = p
  BY GivenFacts DEF Named
<1> HIDE DEF New
<1>7. Ids' = Held /\ rows' = [i \in Ids' |-> rows'[i]] /\ \A i \in Held : rows'[i] = New(i)
  BY <1>1 DEF Ids
<1>8. ASSUME NEW p \in Fresh PROVE rows'[Given[p]] = Derived(p, NewBase(p))
  <2>1. rows'[Given[p]] = New(Given[p])
    BY <1>7
  <2> QED
    BY <2>1, <1>5, <1>6 DEF New
<1>9. ASSUME NEW i \in Ids
      PROVE  IF \E p \in SiteProps : i \in BaseOf(p)
             THEN rows'[i] = Derived(SiteOf(i), rows[i])
             ELSE rows'[i] = rows[i]
  <2>1. rows'[i] = New(i)
    BY <1>7
  <2> QED
    BY <2>1 DEF New
<1>10. \A p, q \in SiteProps : BaseAddress[p] = BaseAddress[q] => p = q
  BY DEF BuildBaseSites, Refused, OneAddress
<1> HIDE DEF Held
<1>11. Ids \cap {Given[p] : p \in Fresh} = {}
  BY <1>5
<1> QED
  BY <1>1, <1>4, <1>7, <1>8, <1>9, <1>10, <1>11 DEF Held

\* A site's outline is made of its members' lots.
LEMMA DerivedType ==
    ASSUME DataType, RowsOK, NEW p \in SiteProps, NEW r \in Row
    PROVE  /\ Derived(p, r) \in Row
           /\ Derived(p, r).base = r.base /\ Derived(p, r).address = r.address
           /\ Derived(p, r).gis = r.gis /\ Derived(p, r).ruling = r.ruling
           /\ Derived(p, r).prop = p
           /\ Derived(p, r).site = UNION {rows[i].site : i \in Members(p)}
<1>1. \A i \in Members(p) : rows[i].site \subseteq Lots
  BY DEF Members, CityIds, RowsOK, Row
<1>2. UNION {rows[i].site : i \in Members(p)} \in SUBSET Lots
  BY <1>1
<1>3. tables[Zones] \in Numbers
  BY DEF DataType, TablesTypeOK, Numbers, Zones
<1>4. p \in Props
  BY ParcelConstantsOK DEF SiteProps
<1> DEFINE site == UNION {rows[i].site : i \in Members(p)}
<1>5. Derived(p, r) = [r EXCEPT !.prop = p, !.site = site, !.area = TRUE,
                                !.centred = TRUE, !.grid = tables[Zones]]
  BY DEF Derived
<1>6. site \in SUBSET Lots
  BY <1>2
<1> HIDE DEF site
<1> QED
  BY <1>3, <1>4, <1>5, <1>6 DEF Row, site

LEMMA NewBaseType ==
    ASSUME NEW p \in SiteProps
    PROVE  /\ NewBase(p) \in Row /\ NewBase(p).base = TRUE /\ NewBase(p).address = BaseAddress[p]
           /\ NewBase(p).gis = NoGisId /\ NewBase(p).ruling = 0
<1>1. p \in Props /\ BaseAddress[p] \in Addresses /\ 0 \in Numbers /\ NoGisId \in GisIds
  BY ParcelConstantsOK, LayerOK, FilesConstantsOK DEF SiteProps, Numbers
<1> QED
  BY <1>1 DEF NewBase, Row


(***************************************************************************)
(* The five actions that make rows or take them away.                      *)
(***************************************************************************)
ImportInv ==
    /\ ImportType
    /\ imp.at \in {"table", "delete", "insert"} => imp.edition \in Editions

LEMMA LayerFacts ==
    ASSUME ImportInv, imp.at = "insert"
    PROVE  /\ Extract[imp.edition] \in Seq(Lots)
           /\ Len(Extract[imp.edition]) \in Nat
           /\ DOMAIN Extract[imp.edition] = 1..Len(Extract[imp.edition])
           /\ \A n \in 1..Len(Extract[imp.edition]) : Extract[imp.edition][n] \in Lots
           /\ Len(Extract[imp.edition]) <= Cardinality(Lots)
<1> DEFINE layer == Extract[imp.edition]
<1>1. layer \in Seq(Lots) /\ \A m, n \in DOMAIN layer : layer[m] = layer[n] => m = n
  BY ParcelConstantsOK, LayerOK DEF ImportInv
<1> HIDE DEF layer
<1>2. Len(layer) \in Nat /\ DOMAIN layer = 1..Len(layer) /\ layer \in [1..Len(layer) -> Lots]
  BY <1>1
<1>3. layer \in Injection(1..Len(layer), Lots)
  BY <1>1, <1>2 DEF Injection, IsInjective
<1>4. IsFiniteSet(Lots)
  BY ParcelConstantsOK
<1>5. Cardinality(1..Len(layer)) <= Cardinality(Lots)
  BY <1>3, <1>4, FS_Injection
<1>6. Cardinality(1..Len(layer)) = Len(layer)
  <2>1. Cardinality(1..Len(layer)) = IF 1 > Len(layer) THEN 0 ELSE Len(layer) - 1 + 1
    BY <1>2, FS_Interval
  <2> QED
    BY <1>2, <2>1
<1> QED
  BY <1>1, <1>2, <1>5, <1>6 DEF layer

LEMMA CityRowType ==
    ASSUME NEW l \in Lots
    PROVE  /\ CityRow(l) \in Row /\ CityRow(l).base = FALSE /\ CityRow(l).gis \in GisIds
           /\ CityRow(l).ruling = 0 /\ CityRow(l).prop = LotOf[l].prop
           /\ CityRow(l).site = IF LotOf[l].outlined THEN {l} ELSE {}
<1>1. LotOf[l] \in [prop : Props, address : Addresses, gis : GisIds, outlined : BOOLEAN] /\ 0 \in Numbers
  BY ParcelConstantsOK, FilesConstantsOK DEF Numbers
<1> QED
  BY <1>1 DEF CityRow, Row

\* The City's rows, one for each record, at the ids that follow.
LEMMA InsertFacts ==
    ASSUME RowsOK, ImportInv, InsertCityRows
    PROVE  LET layer == Extract[imp.edition] IN
           /\ Ids' = Ids \cup (nextId .. nextId + Len(layer) - 1)
           /\ rows' = [i \in Ids' |-> rows'[i]]
           /\ \A i \in Ids : rows'[i] = rows[i]
           /\ \A i \in nextId .. nextId + Len(layer) - 1 :
                 /\ i \notin Ids
                 /\ i - nextId + 1 \in 1..Len(layer)
                 /\ rows'[i] = CityRow(layer[i - nextId + 1])
           /\ nextId' = nextId + Len(layer) /\ rulings' = rulings
<1> DEFINE layer == Extract[imp.edition]
           New(i) == IF i \in Ids THEN rows[i] ELSE CityRow(layer[i - nextId + 1])
           Held == Ids \cup (nextId .. nextId + Len(layer) - 1)
<1>1. rows' = [i \in Held |-> New(i)] /\ nextId' = nextId + Len(layer) /\ rulings' = rulings
  BY DEF InsertCityRows, ImportFrame
<1>2. Len(layer) \in Nat
  BY LayerFacts DEF InsertCityRows
<1>3. nextId \in Nat \ {0} /\ Ids \subseteq 1 .. nextId - 1
  BY DEF RowsOK
<1> HIDE DEF layer
<1>4. \A i \in nextId .. nextId + Len(layer) - 1 : i \notin Ids /\ i - nextId + 1 \in 1..Len(layer)
  BY <1>2, <1>3
<1> HIDE DEF New
<1>5. Ids' = Held /\ rows' = [i \in Ids' |-> rows'[i]] /\ \A i \in Held : rows'[i] = New(i)
  BY <1>1 DEF Ids
<1>6. \A i \in Ids : rows'[i] = rows[i]
  BY <1>5 DEF New
<1>7. \A i \in nextId .. nextId + Len(layer) - 1 : rows'[i] = CityRow(layer[i - nextId + 1])
  BY <1>4, <1>5 DEF New
<1> QED
  BY <1>1, <1>4, <1>5, <1>6, <1>7 DEF layer

LEMMA MakesOK == ASSUME DataType, ImportInv, RowsOK, Makes PROVE RowsOK'
<1>a. /\ rows \in [Ids -> Row] /\ rulings \in Nat /\ nextId \in Nat \ {0}
      /\ Ids \subseteq 1 .. nextId - 1
      /\ \A i \in Ids : rows[i].ruling <= rulings
  BY DEF RowsOK
\* It is enough to know the rows one by one.
<1>b. ASSUME rows' = [i \in Ids' |-> rows'[i]], rulings' = rulings, nextId' \in Nat \ {0},
             Ids' \subseteq 1 .. nextId' - 1, OneBaseEach',
             \A i \in Ids' : /\ rows'[i] \in Row /\ rows'[i].ruling <= rulings
                             /\ rows'[i].gis \in GisIds \/ rows'[i].gis = rows'[i].address
      PROVE  RowsOK'
  BY <1>a, <1>b DEF RowsOK
<1>1. ASSUME NEW a \in Addresses, NEW g \in GisIds, SaveStreetView(a, g) PROVE RowsOK'
  <2> DEFINE new == [base |-> FALSE, prop |-> NoProp, address |-> a,
                     gis |-> IF g = NoGisId THEN a ELSE g, site |-> {}, area |-> FALSE,
                     centred |-> FALSE, grid |-> 0, front |-> 0, ruling |-> 0]
  <2>1. rows' = [i \in Ids \cup {nextId} |-> IF i \in Ids THEN rows[i] ELSE new]
        /\ nextId' = nextId + 1 /\ rulings' = rulings
    BY <1>1 DEF SaveStreetView
  <2>2. new \in Row /\ new.base = FALSE /\ new.ruling = 0 /\ (new.gis \in GisIds \/ new.gis = new.address)
    BY FilesConstantsOK DEF Row, Numbers
  <2> HIDE DEF new
  <2>3. Ids' = Ids \cup {nextId} /\ rows' = [i \in Ids' |-> rows'[i]]
    BY <2>1 DEF Ids
  <2>4. ASSUME NEW i \in Ids' PROVE rows'[i] = new \/ (i \in Ids /\ rows'[i] = rows[i])
    <3>1. i \in Ids \cup {nextId}
      BY <2>3
    <3>2. rows'[i] = IF i \in Ids THEN rows[i] ELSE new
      BY <2>1, <3>1
    <3>3. CASE i \in Ids
      BY <3>2, <3>3
    <3>4. CASE i \notin Ids
      BY <3>2, <3>4
    <3> QED
      BY <3>3, <3>4
  <2>5. OneBaseEach'
    BY <2>2, <2>4 DEF OneBaseEach, RowsOK
  <2>6. Ids' \subseteq 1 .. nextId' - 1 /\ nextId' \in Nat \ {0}
    BY <1>a, <2>1, <2>3
  <2>7. ASSUME NEW i \in Ids'
        PROVE  /\ rows'[i] \in Row /\ rows'[i].ruling <= rulings
               /\ rows'[i].gis \in GisIds \/ rows'[i].gis = rows'[i].address
    <3>1. CASE rows'[i] = new
      <4>1. 0 <= rulings
        BY <1>a
      <4> QED
        BY <2>2, <3>1, <4>1
    <3>2. CASE i \in Ids /\ rows'[i] = rows[i]
      BY <1>a, <3>2 DEF RowsOK
    <3> QED
      BY <2>4, <3>1, <3>2
  <2> QED
    BY <1>b, <2>1, <2>3, <2>5, <2>6, <2>7
<1>2. CASE CreateTable
  <2>1. CASE imp.drop
    <3>1. rows' = <<>> /\ nextId' = 1 /\ rulings' = rulings
      BY <1>2, <2>1 DEF CreateTable, ImportFrame
    <3>2. Ids' = {} /\ rows' = [i \in Ids' |-> rows'[i]]
      BY <3>1, EmptyRows DEF Ids
    <3> QED
      BY <1>b, <3>1, <3>2 DEF OneBaseEach
  <2>2. CASE ~imp.drop
    <3>1. rows' = rows /\ nextId' = nextId /\ rulings' = rulings
      BY <1>2, <2>2 DEF CreateTable, ImportFrame
    <3> QED
      BY <3>1 DEF RowsOK, OneBaseEach, Ids
  <2> QED
    BY <2>1, <2>2
<1>3. CASE DeleteCityRows
  <2>1. rows' = [i \in NotReplaced |-> rows[i]] /\ nextId' = nextId /\ rulings' = rulings
    BY <1>3 DEF DeleteCityRows, Kept, ImportFrame
  <2>2. Ids' = NotReplaced /\ NotReplaced \subseteq Ids
    BY <2>1 DEF Ids, NotReplaced
  <2>3. \A i \in Ids' : i \in Ids /\ rows'[i] = rows[i]
    BY <2>1, <2>2
  <2>4. rows' = [i \in Ids' |-> rows'[i]]
    BY <2>1, <2>2
  <2>5. OneBaseEach'
    BY <2>3 DEF OneBaseEach, RowsOK
  <2>6. Ids' \subseteq 1 .. nextId' - 1 /\ nextId' \in Nat \ {0}
    BY <1>a, <2>1, <2>2
  <2> QED
    BY <1>a, <1>b, <2>1, <2>3, <2>4, <2>5, <2>6 DEF RowsOK
<1>4. CASE InsertCityRows
  <2> DEFINE layer == Extract[imp.edition]
             added == nextId .. nextId + Len(layer) - 1
  <2>1. /\ Ids' = Ids \cup added /\ rows' = [i \in Ids' |-> rows'[i]]
        /\ \A i \in Ids : rows'[i] = rows[i]
        /\ nextId' = nextId + Len(layer) /\ rulings' = rulings
    BY <1>4, InsertFacts
  <2>a. Len(layer) \in Nat
    BY <1>4, LayerFacts DEF InsertCityRows
  <2>2. Len(layer) \in Nat /\ \A n \in 1..Len(layer) : layer[n] \in Lots
    BY <1>4, LayerFacts DEF InsertCityRows
  <2>3. ASSUME NEW i \in added
        PROVE  /\ rows'[i] \in Row /\ rows'[i].base = FALSE /\ rows'[i].ruling = 0
               /\ rows'[i].gis \in GisIds
    <3>1. i - nextId + 1 \in 1..Len(layer) /\ rows'[i] = CityRow(layer[i - nextId + 1])
      BY <1>4, InsertFacts
    <3>2. layer[i - nextId + 1] \in Lots
      BY <2>2, <3>1
    <3> QED
      BY <3>1, <3>2, CityRowType
  <2> HIDE DEF layer
  <2>4. Ids' \subseteq 1 .. nextId' - 1 /\ nextId' \in Nat \ {0}
    BY <1>a, <2>1, <2>a
  <2> HIDE DEF added
  <2>7. ASSUME NEW i \in Ids' PROVE i \in added \/ (i \in Ids /\ rows'[i] = rows[i])
    <3>1. i \in added \/ i \in Ids
      BY <2>1
    <3>2. i \in Ids => rows'[i] = rows[i]
      BY <2>1
    <3> QED
      BY <3>1, <3>2
  <2>5. OneBaseEach'
    <3> SUFFICES ASSUME NEW i \in Ids', NEW j \in Ids', rows'[i].base, rows'[j].base,
                        rows'[i].address = rows'[j].address
                 PROVE  i = j
      BY DEF OneBaseEach
    <3>1. i \in Ids /\ rows'[i] = rows[i] /\ j \in Ids /\ rows'[j] = rows[j]
      BY <2>3, <2>7
    <3> QED
      BY <3>1 DEF RowsOK, OneBaseEach
  <2>6. ASSUME NEW i \in Ids'
        PROVE  /\ rows'[i] \in Row /\ rows'[i].ruling <= rulings
               /\ rows'[i].gis \in GisIds \/ rows'[i].gis = rows'[i].address
    <3>1. CASE i \in added
      <4>1. 0 <= rulings
        BY <1>a
      <4> QED
        BY <2>3, <3>1, <4>1
    <3>2. CASE i \in Ids /\ rows'[i] = rows[i]
      BY <1>a, <3>2 DEF RowsOK
    <3> QED
      BY <2>7, <3>1, <3>2
  <2> QED
    BY <1>b, <2>1, <2>4, <2>5, <2>6
<1>5. CASE BuildBaseSites
  <2> DEFINE given == {Given[p] : p \in Fresh}
  <2>1. /\ \A p \in Fresh : Given[p] \in Nat /\ Given[p] >= nextId /\ Given[p] < nextId + Cardinality(Fresh)
        /\ Ids' = Ids \cup given /\ rows' = [i \in Ids' |-> rows'[i]]
        /\ nextId' = nextId + Cardinality(Fresh) /\ rulings' = rulings
    BY <1>5, BuildFacts
  <2>2. ASSUME NEW p \in Fresh
        PROVE  /\ rows'[Given[p]] \in Row /\ rows'[Given[p]].base = TRUE
               /\ rows'[Given[p]].address = BaseAddress[p] /\ rows'[Given[p]].gis = NoGisId
               /\ rows'[Given[p]].ruling = 0
    <3>1. rows'[Given[p]] = Derived(p, NewBase(p)) /\ p \in SiteProps
      BY <1>5, BuildFacts DEF Fresh
    <3>2. /\ NewBase(p) \in Row /\ NewBase(p).base = TRUE /\ NewBase(p).address = BaseAddress[p]
          /\ NewBase(p).gis = NoGisId /\ NewBase(p).ruling = 0
      BY <3>1, NewBaseType
    <3> QED
      BY <3>1, <3>2, DerivedType
  <2>3. ASSUME NEW i \in Ids
        PROVE  /\ rows'[i] \in Row /\ rows'[i].base = rows[i].base
               /\ rows'[i].address = rows[i].address /\ rows'[i].gis = rows[i].gis
               /\ rows'[i].ruling = rows[i].ruling
    <3>1. CASE \E p \in SiteProps : i \in BaseOf(p)
      <4>1. SiteOf(i) \in SiteProps
        BY <3>1 DEF SiteOf
      <4>2. rows'[i] = Derived(SiteOf(i), rows[i]) /\ rows[i] \in Row
        BY <1>5, <3>1, <1>a, BuildFacts
      <4> QED
        BY <4>1, <4>2, DerivedType
    <3>2. CASE ~\E p \in SiteProps : i \in BaseOf(p)
      BY <1>5, <1>a, <3>2, BuildFacts
    <3> QED
      BY <3>1, <3>2
  <2>4. Cardinality(Fresh) \in Nat
    BY FreshFinite
  <2>5. Ids' \subseteq 1 .. nextId' - 1 /\ nextId' \in Nat \ {0}
    BY <1>a, <2>1, <2>4
  <2>6. NoGisId \in GisIds
    BY LayerOK
  <2>9. \A k \in Ids' : k \in Ids \/ \E p \in Fresh : k = Given[p]
    BY <2>1
  <2>7. ASSUME NEW i \in Ids'
        PROVE  /\ rows'[i] \in Row /\ rows'[i].ruling <= rulings
               /\ rows'[i].gis \in GisIds \/ rows'[i].gis = rows'[i].address
    <3>1. CASE i \in Ids
      BY <1>a, <2>3, <3>1 DEF RowsOK
    <3>2. ASSUME NEW p \in Fresh, i = Given[p]
          PROVE  /\ rows'[i] \in Row /\ rows'[i].ruling <= rulings
                 /\ rows'[i].gis \in GisIds
      <4>1. 0 <= rulings
        BY <1>a
      <4> QED
        BY <2>2, <2>6, <3>2, <4>1
    <3> QED
      BY <2>9, <3>1, <3>2
  <2>8. OneBaseEach'
    <3> SUFFICES ASSUME NEW i \in Ids', NEW j \in Ids', rows'[i].base, rows'[j].base,
                        rows'[i].address = rows'[j].address
                 PROVE  i = j
      BY DEF OneBaseEach
    <3>1. CASE i \in Ids /\ j \in Ids
      BY <2>3, <3>1 DEF RowsOK, OneBaseEach
    <3>2. ASSUME NEW k \in Ids, NEW p \in Fresh, rows[k].base, rows[k].address = BaseAddress[p]
          PROVE  FALSE
      BY <3>2 DEF Fresh, BaseOf
    <3>3. ASSUME NEW p \in Fresh, NEW q \in Fresh, BaseAddress[p] = BaseAddress[q] PROVE p = q
      BY <1>5, <3>3, BuildFacts DEF Fresh
    <3>5. CASE i \in Ids /\ j \notin Ids
      <4>1. PICK p \in Fresh : j = Given[p]
        BY <2>9, <3>5
      <4> QED
        <5>1. rows'[j].address = BaseAddress[p]
          BY <2>2, <4>1
        <5>2. rows[i].base /\ rows[i].address = BaseAddress[p]
          BY <2>3, <3>5, <5>1
        <5> QED
          BY <3>2, <3>5, <5>2
    <3>6. CASE i \notin Ids /\ j \in Ids
      <4>1. PICK p \in Fresh : i = Given[p]
        BY <2>9, <3>6
      <4> QED
        <5>1. rows'[i].address = BaseAddress[p]
          BY <2>2, <4>1
        <5>2. rows[j].base /\ rows[j].address = BaseAddress[p]
          BY <2>3, <3>6, <5>1
        <5> QED
          BY <3>2, <3>6, <5>2
    <3>7. CASE i \notin Ids /\ j \notin Ids
      <4>1. PICK p \in Fresh : i = Given[p]
        BY <2>9, <3>7
      <4>2. PICK q \in Fresh : j = Given[q]
        BY <2>9, <3>7
      <4>3. BaseAddress[p] = BaseAddress[q]
        BY <2>2, <4>1, <4>2
      <4> QED
        BY <3>3, <4>1, <4>2, <4>3
    <3> QED
      BY <3>1, <3>5, <3>6, <3>7
  <2> QED
    BY <1>b, <2>1, <2>5, <2>7, <2>8
<1> QED
  BY <1>1, <1>2, <1>3, <1>4, <1>5 DEF Makes

(***************************************************************************)
(* The step an import is at, and the ids it has left.                      *)
(***************************************************************************)

\* Only these write to imp; every other step leaves it alone.
ImportMoves ==
    \/ StartImport \/ StartFrontage \/ CreateTable \/ DeleteCityRows \/ InsertCityRows
    \/ StartCentres \/ CentreChunk \/ BuildBaseSites \/ StartFronts \/ FrontChunk \/ ClearFronts
    \/ ImportStepFails \/ PolygonRefused

LEMMA ImportStays == ASSUME [Next]_vars PROVE imp' = imp \/ ImportMoves
<1>1. ParcelsNext => imp' = imp \/ ImportMoves
  BY DEF ParcelsNext, OpenCard, SaveStreetView, SaveCard, CardGone, ClearCard, SaveAddressed,
     AddParcelGeom, FillFronts, ImportMoves
<1> QED
  BY <1>1 DEF Next, vars, parcelVars

LEMMA InitImport == Init => ImportInv /\ RowsOK
<1> SUFFICES ASSUME Init PROVE ImportInv /\ RowsOK
  OBVIOUS
<1>1. imp = [at |-> "idle", edition |-> 0, drop |-> FALSE, fronts |-> TRUE, todo |-> {},
             ok |-> TRUE, seen |-> {}]
  BY DEF Init, ParcelsInit, NoImport
<1>2. 0 \in Numbers
  BY FilesConstantsOK DEF Numbers
<1>3. ImportInv
  BY <1>1, <1>2 DEF ImportInv, ImportType, ImportSteps
<1>4. Ids = {} /\ rows = <<>> /\ nextId = 1 /\ rulings = 0
  BY EmptyRows DEF Init, ParcelsInit, Ids
<1>5. rows \in [Ids -> Row]
  <2>1. rows = [i \in {} |-> rows[i]]
    BY <1>4, EmptyRows
  <2> QED
    BY <1>4, <2>1
<1> QED
  BY <1>3, <1>4, <1>5 DEF RowsOK, OneBaseEach

LEMMA NextImport == ASSUME DataType, ImportInv, RowsOK, [Next]_vars PROVE ImportInv'
<1> USE DEF ImportInv, ImportType
<1>a. 0 \in Numbers /\ Editions \subseteq Numbers /\ tables[Roads] \in Numbers
  BY FilesConstantsOK DEF Numbers, Editions, DataType, TablesTypeOK, Roads
<1>b. Ids \subseteq Nat
  BY DEF RowsOK
<1>c. {"idle", "table", "delete", "insert", "zones", "centres", "bases", "front", "fronts", "clear", "done"}
      = ImportSteps
  BY DEF ImportSteps
<1>d. NoImport = [at |-> "idle", edition |-> 0, drop |-> FALSE, fronts |-> TRUE, todo |-> {},
                  ok |-> TRUE, seen |-> {}]
  BY DEF NoImport
<1>1. CASE imp' = imp
  BY <1>1
<1>2. CASE StartImport
  <2>1. PICK drop \in BOOLEAN, fronts \in BOOLEAN :
           imp' = [NoImport EXCEPT !.at = "table", !.edition = folder[1], !.drop = drop, !.fronts = fronts]
    BY <1>2 DEF StartImport
  <2>2. folder[1] \in Editions
    BY <1>2 DEF StartImport
  <2>3. imp' = [at |-> "table", edition |-> folder[1], drop |-> drop, fronts |-> fronts, todo |-> {},
                ok |-> TRUE, seen |-> {}]
    BY <2>1, <1>d
  <2> QED
    BY <2>2, <2>3, <1>a, <1>c
<1>3. CASE StartFrontage
  BY <1>3, <1>a, <1>c, <1>d DEF StartFrontage
<1>4. CASE CreateTable \/ DeleteCityRows \/ InsertCityRows \/ BuildBaseSites
  <2>1. /\ imp.at \in {"table", "delete", "insert", "bases"}
        /\ \E step \in {"delete", "insert", "zones", "front", "done"} :
             /\ imp' = [imp EXCEPT !.at = step]
             /\ step \in {"delete", "insert"} => imp.at \in {"table", "delete"}
    BY <1>4 DEF CreateTable, DeleteCityRows, InsertCityRows, BuildBaseSites, ImpAt
  <2> QED
    BY <2>1, <1>c
<1>5. CASE StartCentres
  <2> DEFINE lots == {i \in CityIds : HasGeom(i)}
  <2>1. lots \in SUBSET Nat
    BY <1>b DEF CityIds
  <2>2. \/ imp' = [imp EXCEPT !.at = "bases"]
        \/ imp' = [imp EXCEPT !.at = "done", !.ok = FALSE]
        \/ imp' = [imp EXCEPT !.at = "centres", !.todo = lots]
    BY <1>5 DEF StartCentres
  <2> HIDE DEF lots
  <2> QED
    BY <2>1, <2>2, <1>c
<1>6. CASE CentreChunk
  <2>1. imp' = [imp EXCEPT !.todo = @ \ Chunk, !.at = IF imp.todo = Chunk THEN "bases" ELSE @]
    BY <1>6 DEF CentreChunk
  <2>2. imp.at = "centres"
    BY <1>6 DEF CentreChunk
  <2> QED
    BY <2>1, <2>2, <1>c
<1>7. CASE StartFronts
  <2> DEFINE candidates == {i \in Ids : rows[i].centred /\ HasGeom(i)}
  <2>1. candidates \in SUBSET Nat
    BY <1>b
  <2>2. \/ imp' = [imp EXCEPT !.at = "done", !.ok = FALSE]
        \/ imp' = [imp EXCEPT !.at = "fronts", !.todo = candidates]
    BY <1>7 DEF StartFronts
  <2> HIDE DEF candidates
  <2> QED
    BY <2>1, <2>2, <1>c
<1>8. CASE FrontChunk
  <2>1. imp' = [imp EXCEPT !.todo = @ \ Chunk, !.seen = @ \cup {tables[Roads]},
                           !.at = IF imp.todo = Chunk THEN "clear" ELSE @]
    BY <1>8 DEF FrontChunk
  <2>2. imp.at = "fronts"
    BY <1>8 DEF FrontChunk
  <2> QED
    BY <2>1, <2>2, <1>a, <1>c
<1>9. CASE ClearFronts
  BY <1>9, <1>a, <1>c DEF ClearFronts
<1>10. CASE ImportStepFails \/ PolygonRefused
  <2>1. \/ imp' = [imp EXCEPT !.ok = FALSE, !.at = "front"]
        \/ imp' = [imp EXCEPT !.ok = FALSE, !.at = "done"]
    BY <1>10 DEF ImportStepFails, PolygonRefused
  <2> QED
    BY <2>1, <1>c
<1> QED
  BY <1>1, <1>2, <1>3, <1>4, <1>5, <1>6, <1>7, <1>8, <1>9, <1>10, ImportStays DEF ImportMoves

LEMMA NextRows == ASSUME DataType, ImportInv, RowsOK, [Next]_vars PROVE RowsOK'
  BY OthersStay, StayOK, MakesOK

(***************************************************************************)
(* RulingIsRead needs the rows alone.                                      *)
(***************************************************************************)
LEMMA FirstOfOne == ASSUME NEW i \in Nat PROVE FirstOf({i}) = i
  BY DEF FirstOf

LEMMA RowsFinite == ASSUME RowsOK, NEW S \in SUBSET Ids PROVE IsFiniteSet(S)
<1>1. nextId - 1 \in Int /\ 1 \in Int /\ Ids \in SUBSET (1 .. nextId - 1)
  BY DEF RowsOK
<1>2. IsFiniteSet(1 .. nextId - 1)
  BY <1>1, FS_Interval
<1>3. S \in SUBSET (1 .. nextId - 1)
  BY <1>1
<1> QED
  BY <1>2, <1>3, FS_Subset

LEMMA RulingRead == RowsOK => RulingIsRead
<1> SUFFICES ASSUME RowsOK, NEW a \in Addresses, NEW g \in GisIds,
                    EntranceTarget(a, g) # 0, EntranceTarget(a, g) \in Addressed(a),
                    rows[EntranceTarget(a, g)].base \/ Addressed(a) = {EntranceTarget(a, g)}
             PROVE  AddressRow(a, FALSE) = EntranceTarget(a, g)
  BY DEF RulingIsRead
<1> DEFINE exact == Addressed(a)
           base == {i \in exact : rows[i].base}
           i == EntranceTarget(a, g)
<1>0. i \in exact /\ (rows[i].base \/ exact = {i})
  OBVIOUS
<1> HIDE DEF i
<1>1. exact \in SUBSET Ids /\ base \in SUBSET Ids /\ i \in Ids /\ i \in Nat
  BY <1>0 DEF Addressed, RowsOK
\* A row of the gis id a is made for the address a.
<1>2. {k \in Ids : rows[k].gis = a} \subseteq exact
  BY LayerOK DEF RowsOK, Addressed
<1>3. AddressRow(a, FALSE) = Answer(exact)
  BY <1>1, <1>2 DEF AddressRow
<1>4. CASE rows[i].base
  <2>1. \A k \in base : k = i
    BY <1>0, <1>1, <1>4 DEF RowsOK, OneBaseEach, Addressed
  <2>2. base = {i}
    BY <1>0, <1>1, <1>4, <2>1
  <2>3. FirstOf(base) = i
    BY <1>1, <2>2, FirstOfOne
  <2>4. Answer(exact) = FirstOf(base)
    BY <1>0, <1>1, <2>2 DEF Answer
  <2> QED
    BY <1>3, <2>3, <2>4 DEF i
<1>5. CASE ~(rows[i].base) /\ exact = {i}
  <2>1. base = {}
    BY <1>5
  <2>2. Answer(exact) = FirstOf(exact)
    BY <1>0, <1>1, <2>1 DEF Answer
  <2>3. FirstOf(exact) = i
    BY <1>1, <1>5, FirstOfOne
  <2> QED
    BY <1>3, <2>2, <2>3 DEF i
<1> QED
  BY <1>0, <1>4, <1>5

CityInv == DataType /\ CopiesInv /\ ImportInv /\ RowsOK

LEMMA InitCity == Init => CityInv
  BY InitData, InitUpdate, InitImport DEF CityInv

LEMMA NextCity == CityInv /\ [Next]_vars => CityInv'
  BY NextData, NextUpdate, NextImport, NextRows DEF CityInv, DataType

\* RulingIsRead, for every layer and every history of imports and saves: what the console enters
\* for an address that one row or one base site bears is on the row a dispatch reads
\* (routers/parcels.py, _entrance_target and _address_row).
THEOREM RulingIsReadCorrect == Spec => []RulingIsRead
<1>1. CityInv => RulingIsRead
  BY RulingRead DEF CityInv
<1> QED
  BY InitCity, NextCity, <1>1, PTL DEF Spec

(***************************************************************************)
(* CityDataTypeOK needs to know that an import has the ids it will use.    *)
(***************************************************************************)
RoomInv ==
    /\ nextId <= MaxRow + 1
    /\ imp.at \in {"table", "delete", "insert"} =>
          nextId + Cardinality(Lots) + Cardinality(Props) <= MaxRow + 1
    /\ imp.at \in {"zones", "centres", "bases"} => nextId + Cardinality(Props) <= MaxRow + 1
    /\ imp.todo \subseteq 1 .. nextId - 1
    /\ imp.at = "table" => imp.todo = {}

LEMMA Numerals ==
    /\ Cardinality(Lots) \in Nat /\ Cardinality(Props) \in Nat /\ MaxRow \in Nat \ {0}
  BY ParcelConstantsOK, FS_CardinalityType

LEMMA InitRoom == Init => RoomInv
  BY Numerals DEF Init, ParcelsInit, NoImport, RoomInv

LEMMA NextRoom == ASSUME CityInv, RoomInv, [Next]_vars PROVE RoomInv'
<1> DEFINE lots == Cardinality(Lots)
           props == Cardinality(Props)
<1>a. lots \in Nat /\ props \in Nat /\ MaxRow \in Nat /\ nextId \in Nat \ {0} /\ Ids \subseteq 1 .. nextId - 1
  BY Numerals DEF CityInv, RowsOK
<1>b. /\ nextId <= MaxRow + 1
      /\ imp.at \in {"table", "delete", "insert"} => nextId + lots + props <= MaxRow + 1
      /\ imp.at \in {"zones", "centres", "bases"} => nextId + props <= MaxRow + 1
      /\ imp.todo \subseteq 1 .. nextId - 1
      /\ imp.at = "table" => imp.todo = {}
  BY DEF RoomInv
<1>c. imp \in [at : ImportSteps, edition : Numbers, drop : BOOLEAN, fronts : BOOLEAN,
               todo : SUBSET Nat, ok : BOOLEAN, seen : SUBSET Numbers]
  BY DEF CityInv, ImportInv, ImportType
<1>d. RoomInv' <=>
        /\ nextId' <= MaxRow + 1
        /\ imp'.at \in {"table", "delete", "insert"} => nextId' + lots + props <= MaxRow + 1
        /\ imp'.at \in {"zones", "centres", "bases"} => nextId' + props <= MaxRow + 1
        /\ imp'.todo \subseteq 1 .. nextId' - 1
        /\ imp'.at = "table" => imp'.todo = {}
  BY DEF RoomInv
<1>e. ImportMoves \/ imp' = imp
  BY ImportStays
<1> HIDE DEF lots, props
<1>1. CASE UNCHANGED <<imp, nextId>>
  BY <1>1, <1>b, <1>d
<1>2. ASSUME NEW a \in Addresses, NEW g \in GisIds, SaveStreetView(a, g) PROVE RoomInv'
  <2>1. nextId + lots + props <= MaxRow /\ nextId' = nextId + 1 /\ imp' = imp
    BY <1>2 DEF SaveStreetView, RoomForImport, lots, props
  <2>2. nextId' + lots + props <= MaxRow + 1 /\ nextId' + props <= MaxRow + 1 /\ nextId' <= MaxRow + 1
    BY <1>a, <2>1
  <2>3. 1 .. nextId - 1 \subseteq 1 .. nextId' - 1
    BY <1>a, <2>1
  <2> QED
    BY <1>b, <1>d, <2>1, <2>2, <2>3
<1>3. CASE StartImport
  <2>1. nextId + lots + props <= MaxRow /\ nextId' = nextId
    BY <1>3 DEF StartImport, RoomForImport, lots, props
  <2>2. imp'.todo = {} /\ imp'.at = "table"
    BY <1>3 DEF StartImport, NoImport
  <2> QED
    BY <1>a, <1>d, <2>1, <2>2
<1>4. CASE StartFrontage
  BY <1>4, <1>b, <1>d DEF StartFrontage, NoImport
<1>5. CASE CreateTable
  <2>1. imp'.at = "delete" /\ imp'.todo = {} /\ nextId' \in {nextId, 1}
    BY <1>5, <1>b, <1>c DEF CreateTable, ImpAt
  <2>2. nextId' + lots + props <= MaxRow + 1 /\ nextId' <= MaxRow + 1
    <3>1. nextId + lots + props <= MaxRow + 1
      BY <1>5, <1>b DEF CreateTable
    <3>2. nextId' \in Nat /\ nextId' <= nextId
      BY <1>a, <2>1
    <3>3. lots \in Nat /\ props \in Nat /\ MaxRow \in Nat /\ nextId \in Nat
      BY <1>a
    <3>4. \A m, n, l, k, b \in Nat : m <= n /\ n + l + k <= b + 1 => m + l + k <= b + 1 /\ m <= b + 1
      OBVIOUS
    <3> QED
      BY <3>1, <3>2, <3>3, <3>4
  <2> QED
    BY <1>d, <2>1, <2>2
<1>6. CASE DeleteCityRows
  BY <1>6, <1>b, <1>c, <1>d DEF DeleteCityRows, ImpAt
<1>7. CASE InsertCityRows
  <2> DEFINE n == Len(Extract[imp.edition])
  <2>1. nextId' = nextId + n /\ imp'.at = "zones" /\ imp'.todo = imp.todo /\ imp.at = "insert"
    BY <1>7, <1>c DEF InsertCityRows, ImpAt
  <2>2. n \in Nat /\ n <= lots
    BY <1>7, LayerFacts DEF InsertCityRows, CityInv, lots
  <2> HIDE DEF n
  <2>3. nextId' + props <= MaxRow + 1 /\ nextId' <= MaxRow + 1 /\ 1 .. nextId - 1 \subseteq 1 .. nextId' - 1
    BY <1>a, <1>b, <2>1, <2>2
  <2> QED
    BY <1>b, <1>d, <2>1, <2>3
<1>8. CASE StartCentres
  <2> DEFINE found == {i \in CityIds : HasGeom(i)}
  <2>1. found \subseteq 1 .. nextId - 1
    BY <1>a DEF CityIds
  <2>2. \/ imp' = [imp EXCEPT !.at = "bases"]
        \/ imp' = [imp EXCEPT !.at = "done", !.ok = FALSE]
        \/ imp' = [imp EXCEPT !.at = "centres", !.todo = found]
    BY <1>8 DEF StartCentres
  <2>3. imp.at = "zones" /\ nextId' = nextId
    BY <1>8 DEF StartCentres
  <2> HIDE DEF found
  <2> QED
    BY <1>b, <1>c, <1>d, <2>1, <2>2, <2>3
<1>9. CASE CentreChunk
  <2>1. imp' = [imp EXCEPT !.todo = @ \ Chunk, !.at = IF imp.todo = Chunk THEN "bases" ELSE @]
        /\ imp.at = "centres" /\ nextId' = nextId
    BY <1>9 DEF CentreChunk
  <2> QED
    BY <1>b, <1>c, <1>d, <2>1
<1>10. CASE BuildBaseSites
  <2>1. nextId' = nextId + Cardinality(Fresh) /\ imp'.todo = imp.todo /\ imp.at = "bases"
        /\ imp'.at \in {"front", "done"}
    BY <1>10, <1>c, BuildFacts DEF BuildBaseSites, ImpAt, CityInv
  <2>2. Cardinality(Fresh) \in Nat /\ Cardinality(Fresh) <= props
    BY FreshFinite DEF props
  <2>3. nextId' <= MaxRow + 1 /\ 1 .. nextId - 1 \subseteq 1 .. nextId' - 1
    BY <1>a, <1>b, <2>1, <2>2
  <2> QED
    BY <1>b, <1>d, <2>1, <2>3
<1>11. CASE StartFronts
  <2> DEFINE found == {i \in Ids : rows[i].centred /\ HasGeom(i)}
  <2>1. found \subseteq 1 .. nextId - 1
    BY <1>a
  <2>2. \/ imp' = [imp EXCEPT !.at = "done", !.ok = FALSE]
        \/ imp' = [imp EXCEPT !.at = "fronts", !.todo = found]
    BY <1>11 DEF StartFronts
  <2>3. nextId' = nextId
    BY <1>11 DEF StartFronts
  <2> HIDE DEF found
  <2> QED
    BY <1>b, <1>c, <1>d, <2>1, <2>2, <2>3
<1>12. CASE FrontChunk
  <2>1. imp' = [imp EXCEPT !.todo = @ \ Chunk, !.seen = @ \cup {tables[Roads]},
                           !.at = IF imp.todo = Chunk THEN "clear" ELSE @]
        /\ imp.at = "fronts" /\ nextId' = nextId
    BY <1>12 DEF FrontChunk
  <2> QED
    BY <1>b, <1>c, <1>d, <2>1
<1>13. CASE ClearFronts
  BY <1>13, <1>b, <1>c, <1>d DEF ClearFronts
<1>14. CASE ImportStepFails \/ PolygonRefused
  <2>1. \/ imp' = [imp EXCEPT !.ok = FALSE, !.at = "front"]
        \/ imp' = [imp EXCEPT !.ok = FALSE, !.at = "done"]
    BY <1>14 DEF ImportStepFails, PolygonRefused
  <2>2. nextId' = nextId
    BY <1>14 DEF ImportStepFails, PolygonRefused
  <2> QED
    BY <1>b, <1>c, <1>d, <2>1, <2>2
<1>15. \/ UNCHANGED <<imp, nextId>> \/ ImportMoves
       \/ \E a \in Addresses, g \in GisIds : SaveStreetView(a, g)
  <2>1. RowsStay \/ Makes
    BY OthersStay DEF CityInv
  <2> QED
    BY <1>e, <2>1 DEF RowsStay, Makes, ImportMoves
<1> QED
  BY <1>1, <1>2, <1>3, <1>4, <1>5, <1>6, <1>7, <1>8, <1>9, <1>10, <1>11, <1>12, <1>13, <1>14, <1>15
  DEF ImportMoves

\* CityDataTypeOK, for every layer, batch and plan: ids stay below the sequence, what a row
\* covers is a lot of the layer, and an import works on ids the table has given
\* (import_parcels.py, routers/parcels.py).
THEOREM CityDataTypeCorrect == Spec => []CityDataTypeOK
<1>1. CityInv /\ RoomInv => CityDataTypeOK
  <2> SUFFICES ASSUME CityInv, RoomInv PROVE CityDataTypeOK
    OBVIOUS
  <2>1. nextId \in 1 .. MaxRow + 1
    BY Numerals DEF CityInv, RowsOK, RoomInv
  <2>2. \A i \in Ids : rows[i].site \subseteq Lots /\ rows[i].ruling <= rulings
    BY DEF CityInv, RowsOK, Row
  <2> QED
    BY <2>1, <2>2 DEF CityDataTypeOK, CityInv, RowsOK, RoomInv, DataType
<1>2. CityInv /\ RoomInv /\ [Next]_vars => (CityInv /\ RoomInv)'
  BY NextCity, NextRoom
<1> QED
  BY InitCity, InitRoom, <1>1, <1>2, PTL DEF Spec

(***************************************************************************)
(* FrontsAreCurrent.  Editions go up: once the roads of a newer one have   *)
(* been in the table, the ones an import saw do not come back.  A table    *)
(* that was emptied in between holds edition 0, which may.                 *)
(***************************************************************************)
RoadsInv ==
    /\ tables[Roads] <= published
    /\ staging[Roads] \in Editions => tables[Roads] <= staging[Roads] /\ staging[Roads] <= published
    /\ \A r \in imp.seen :
          /\ r <= published
          /\ staging[Roads] \in Editions => r <= staging[Roads]
          /\ tables[Roads] # 0 => r <= tables[Roads]

Comes(r) == tables[Roads] = r \/ staging[Roads] = r \/ published = r

LEMMA InitRoads == Init => RoadsInv
<1> SUFFICES ASSUME Init PROVE RoadsInv
  OBVIOUS
<1>1. tables[Roads] \in {0, 1} /\ imp.seen = {} /\ published \in Editions
  BY DEF Init, TablesInit, ParcelsInit, NoImport, FilesInit, Roads
<1>2. staging[Roads] \in {Absent, published}
  BY DEF Init, FilesInit, Roads
<1>3. tables[Roads] <= published /\ published <= published
  BY <1>1, FilesConstantsOK DEF Editions
<1> QED
  BY <1>1, <1>2, <1>3, ContentsFacts DEF RoadsInv

\* The editions in the files and the tables, as numbers.
LEMMA RoadsType ==
    ASSUME DataType
    PROVE  /\ published \in Editions /\ tables[Roads] \in Nat
           /\ Editions \subseteq Nat \ {0}
           /\ Torn \notin Editions /\ Void \notin Editions /\ Absent \notin Editions
           /\ \A r \in Numbers : r # Torn /\ r # Void
           /\ Numbers \subseteq Nat
  BY FilesConstantsOK DEF DataType, FilesTypeOK, TablesTypeOK, Roads, Editions, Torn, Void, Absent, Numbers

LEMMA RoadsStep ==
    ASSUME DataType, ImportInv, RoadsInv, [Next]_vars
    PROVE  /\ RoadsInv'
           /\ \A r \in imp.seen : r # 0 /\ Comes(r)' => Comes(r)
           /\ ImportMoves => UNCHANGED <<tables, staging, published>>
<1>a. /\ published \in Editions /\ tables[Roads] \in Nat /\ Editions \subseteq Nat \ {0}
      /\ Torn \notin Editions /\ Void \notin Editions /\ Absent \notin Editions
      /\ \A r \in Numbers : r # Torn /\ r # Void
      /\ imp.seen \subseteq Numbers /\ Numbers \subseteq Nat
  BY RoadsType DEF ImportInv, ImportType
<1>b. Roads = 1 /\ Roads \in 1..4
  BY DEF Roads
<1>c. staging \in [1..4 -> Contents] /\ tables \in [1..4 -> 0..MaxEdition]
  BY DEF DataType, FilesTypeOK, TablesTypeOK
<1>d. ImportMoves => UNCHANGED <<tables, staging, published>>
  BY DEF ImportMoves, StartImport, StartFrontage, CreateTable, DeleteCityRows, InsertCityRows,
     StartCentres, CentreChunk, BuildBaseSites, StartFronts, FrontChunk, ClearFronts,
     ImportStepFails, PolygonRefused, ImportFrame, dataVars, files, tableVars
<1>1. CASE UNCHANGED <<tables, staging, published, imp>>
  BY <1>1, <1>d DEF RoadsInv, Comes
<1>2. CASE UNCHANGED <<tables, imp>> /\ published' = published
           /\ (staging'[Roads] = staging[Roads] \/ staging'[Roads] \in {published, Void, Torn})
  <2>1. RoadsInv'
    <3>1. CASE staging'[Roads] = staging[Roads]
      BY <1>2, <3>1 DEF RoadsInv
    <3>2. CASE staging'[Roads] \in {Void, Torn}
      BY <1>2, <1>a, <3>2 DEF RoadsInv
    <3>3. CASE staging'[Roads] = published
      <4>1. published <= published
        BY <1>a
      <4> QED
        BY <1>2, <3>3, <4>1 DEF RoadsInv
    <3> QED
      BY <1>2, <3>1, <3>2, <3>3
  <2>2. \A r \in imp.seen : Comes(r)' => Comes(r)
    BY <1>2, <1>a DEF Comes
  <2> QED
    BY <2>1, <2>2, <1>d
<1>3. CASE Publish /\ UNCHANGED <<tables, imp>>
  <2>1. published' = published + 1 /\ staging' = staging
    BY <1>3 DEF Publish, files
  <2>2. \A n \in Nat : n <= published => n <= published' /\ n # published'
    BY <2>1, <1>a
  <2>3. RoadsInv'
    BY <1>3, <1>a, <2>1, <2>2 DEF RoadsInv
  <2>4. ASSUME NEW r \in imp.seen, Comes(r)' PROVE Comes(r)
    <3>1. r \in Nat /\ r <= published
      BY <1>a DEF RoadsInv
    <3>2. published' # r
      BY <2>2, <3>1
    <3> QED
      BY <1>3, <2>1, <2>4, <3>2 DEF Comes
  <2> QED
    BY <2>3, <2>4, <1>d
<1>4. ASSUME NEW step \in DOMAIN TableOf, ImportTable(step), imp' = imp
      PROVE  RoadsInv' /\ (\A r \in imp.seen : r # 0 /\ Comes(r)' => Comes(r))
  <2>1. UNCHANGED <<staging, published>>
    BY <1>4 DEF ImportTable, files
  <2>2. TableOf[step] \in 1..4
    BY DEF TableOf, Roads, Boundary, Zones
  <2>3. \/ tables'[Roads] = tables[Roads]
        \/ tables'[Roads] = 0
        \/ staging[Roads] \in Editions /\ tables'[Roads] = staging[Roads]
    <3>1. tables' = [tables EXCEPT ![TableOf[step]] = Loaded(TableOf[step], staging[TableOf[step]])]
      BY <1>4 DEF ImportTable
    <3>2. CASE TableOf[step] # Roads
      BY <1>b, <1>c, <2>2, <3>1, <3>2
    <3>3. CASE TableOf[step] = Roads
      <4>1. tables'[Roads] = Loaded(Roads, staging[Roads])
        BY <1>b, <1>c, <3>1, <3>3
      <4> QED
        BY <4>1 DEF Loaded
    <3> QED
      BY <3>2, <3>3
  <2>4. RoadsInv'
    <3>1. CASE tables'[Roads] = tables[Roads]
      BY <1>4, <2>1, <3>1 DEF RoadsInv
    <3>2. CASE tables'[Roads] = 0
      <4>1. 0 <= published /\ (staging[Roads] \in Editions => 0 <= staging[Roads])
        BY <1>a
      <4> QED
        BY <1>4, <2>1, <3>2, <4>1 DEF RoadsInv
    <3>3. CASE staging[Roads] \in Editions /\ tables'[Roads] = staging[Roads]
      <4>a. staging[Roads] \in Nat
        BY <1>a, <3>3
      <4>1. staging[Roads] <= staging[Roads]
        BY <4>a
      <4> QED
        BY <1>4, <2>1, <3>3, <4>1 DEF RoadsInv
    <3> QED
      BY <2>3, <3>1, <3>2, <3>3
  <2>5. \A r \in imp.seen : r # 0 /\ Comes(r)' => Comes(r)
    BY <2>1, <2>3 DEF Comes
  <2> QED
    BY <2>4, <2>5
<1>5. CASE ImportMoves
  <2>1. UNCHANGED <<tables, staging, published>>
    BY <1>5, <1>d
  <2>2. imp'.seen = {} \/ imp'.seen = imp.seen \/ imp'.seen = imp.seen \cup {tables[Roads]}
    BY <1>5 DEF ImportMoves, StartImport, StartFrontage, CreateTable, DeleteCityRows,
       InsertCityRows, StartCentres, CentreChunk, BuildBaseSites, StartFronts, FrontChunk,
       ClearFronts, ImportStepFails, PolygonRefused, ImpAt, NoImport, ImportInv, ImportType
  <2>3. tables[Roads] <= tables[Roads]
    BY <1>a
  <2>4. \A r \in imp'.seen : r \in imp.seen \/ r = tables[Roads]
    BY <2>2
  <2>5. RoadsInv'
    BY <2>1, <2>3, <2>4 DEF RoadsInv
  <2>6. \A r \in imp.seen : Comes(r)' => Comes(r)
    BY <2>1 DEF Comes
  <2> QED
    BY <2>1, <2>5, <2>6
<1>6. ASSUME imp' = imp, FilesNext, UNCHANGED tableVars
      PROVE  \/ UNCHANGED <<tables, staging, published, imp>>
             \/ Publish /\ UNCHANGED <<tables, imp>>
             \/ UNCHANGED <<tables, imp>> /\ published' = published
                /\ (staging'[Roads] = staging[Roads] \/ staging'[Roads] \in {published, Void, Torn})
  <2>1. UNCHANGED tables
    BY <1>6 DEF tableVars
  <2>2. CASE UNCHANGED staging /\ published' = published
    BY <1>6, <2>1, <2>2
  <2>3. ASSUME NEW got \in {published, Void}, DownloadDataset(got)
        PROVE  published' = published
               /\ (staging'[Roads] = staging[Roads] \/ staging'[Roads] \in {published, Void, Torn})
    BY <1>b, <1>c, <2>3 DEF DownloadDataset
  <2>4. ASSUME NEW half \in BOOLEAN, DownloadEnds(half)
        PROVE  published' = published
               /\ (staging'[Roads] = staging[Roads] \/ staging'[Roads] \in {published, Void, Torn})
    BY <1>b, <1>c, <2>4 DEF DownloadEnds
  <2>5. \/ Publish
        \/ \E got \in {published, Void} : DownloadDataset(got)
        \/ \E half \in BOOLEAN : DownloadEnds(half)
        \/ UNCHANGED staging /\ published' = published
    BY <1>6 DEF FilesNext, StartDownload, StartUpdate, Fetch, SetAside, Unpack, FixWinding,
       WindingFails, DropCopy, MarkSuccess, UpdateFails, Revert, RevertFails, UpdateKilled, WeekPasses
  <2> QED
    BY <1>6, <2>1, <2>2, <2>3, <2>4, <2>5
<1>7. ASSUME imp' = imp, TablesNext
      PROVE  \/ UNCHANGED <<tables, staging, published, imp>>
             \/ \E step \in DOMAIN TableOf : ImportTable(step)
  BY <1>7 DEF TablesNext, StartGisImport, ImportVocabulary, ComputeJunctions, GisStepFails, GisKilled,
     DeriveJunctions, SyncHydrants, LearnTerm, PlaceJunction, files, tableVars
<1>8. ParcelsNext => UNCHANGED <<tables, staging, published>>
  BY DEF ParcelsNext, OpenCard, SaveStreetView, SaveCard, CardGone, ClearCard, SaveAddressed,
     StartImport, StartFrontage, CreateTable, DeleteCityRows, InsertCityRows, StartCentres,
     CentreChunk, BuildBaseSites, StartFronts, FrontChunk, ClearFronts, ImportStepFails,
     PolygonRefused, AddParcelGeom, FillFronts, ImportFrame, Rule, dataVars, files, tableVars
<1>9. TilesNext => UNCHANGED <<tables, staging, published>>
  BY DEF TilesNext, ExportCoverage, StartOrtho, StartCadastral, Fetched, NotFetched, EndCrawl,
     CrawlKilled, Finalize, dbVars, files, tableVars
<1>10. CASE imp' = imp
  <2>1. CASE FilesNext /\ UNCHANGED tableVars
    BY <1>1, <1>2, <1>3, <1>6, <1>10, <2>1
  <2>2. CASE TablesNext
    BY <1>1, <1>4, <1>7, <1>10, <1>d, <2>2
  <2>3. CASE ParcelsNext \/ TilesNext \/ UNCHANGED vars
    <3>1. UNCHANGED <<tables, staging, published, imp>>
      BY <1>8, <1>9, <1>10, <2>3 DEF vars, tableVars, fileVars, files
    <3> QED
      BY <1>1, <3>1
  <2> QED
    BY <2>1, <2>2, <2>3 DEF Next
<1> QED
  BY <1>5, <1>10, <1>d, ImportStays

Fronted(i) == rows[i].centred /\ HasGeom(i)
RoadOf(r, i) == r # 0 /\ rows[i].prop # NoProp /\ StreetOf[rows[i].prop] \in RoadsIn[r]

Before == {"idle", "table", "delete", "insert", "zones", "centres", "bases", "front"}

\* Of an import that saw one edition r of the roads: the rows it is through with have a front
\* point of r where r has their street, and none where it has not as long as r may still be, or
\* come, in the table.
FrontsInv ==
    /\ imp.at \in Before => imp.seen = {}
    /\ imp.at = "fronts" /\ imp.seen = {} => \A i \in Ids : Fronted(i) => i \in imp.todo
    /\ imp.at \in {"fronts", "clear", "done"} => \A r \in imp.seen : imp.seen = {r} =>
          \A i \in Ids : Fronted(i) /\ i \notin imp.todo /\ RoadOf(r, i) => rows[i].front = r
    /\ imp.at = "clear" => imp.seen # {} /\ imp.todo = {}
    /\ imp.at = "done" /\ imp.ok /\ imp.seen # {} => imp.todo = {}
    /\ imp.at = "done" /\ imp.ok => \A r \in imp.seen : imp.seen = {r} /\ r # 0 /\ Comes(r) =>
          \A i \in Ids : Fronted(i) /\ ~RoadOf(r, i) => rows[i].front = 0

LEMMA InitFronts == Init => FrontsInv
<1> SUFFICES ASSUME Init PROVE FrontsInv
  OBVIOUS
<1>1. imp.seen = {} /\ imp.at = "idle"
  BY DEF Init, ParcelsInit, NoImport
<1> QED
  BY <1>1 DEF FrontsInv

\* What a step outside an import does to a row: it is new and has no place, or it stays what it
\* is and gets a front point at most where it had none.
FrontFilled(i) == rows[i].front = 0 /\ HasRoad(i) /\ rows'[i].front = tables[Roads]
FrontStays(i) ==
    /\ i \in Ids
    /\ Identity(rows'[i], rows[i]) /\ rows'[i].centred = rows[i].centred
    /\ rows'[i].front = rows[i].front \/ FrontFilled(i)

Bare(i) ==
    i \notin Ids /\ rows'[i].centred = FALSE /\ rows'[i].base = FALSE /\ rows'[i].site = {}

LEMMA OtherRows ==
    ASSUME RowsOK, [Next]_vars, ~ImportMoves, NEW i \in Ids'
    PROVE  Bare(i) \/ FrontStays(i)
<1>a. rows \in [Ids -> Row] /\ nextId \notin Ids /\ nextId \in Nat
  BY DEF RowsOK
<1>1. CASE rows' = rows
  <2>1. i \in Ids
    BY <1>1 DEF Ids
  <2> QED
    BY <1>1, <2>1, IdentitySelf DEF FrontStays
<1>2. ASSUME NEW t, NEW n, rows' = [rows EXCEPT ![t].ruling = n] PROVE FrontStays(i)
  <2>1. i \in Ids /\ rows[i] \in Row
    BY <1>2, <1>a DEF Ids
  <2>2. rows'[i] = rows[i] \/ rows'[i] = [rows[i] EXCEPT !.ruling = n]
    BY <1>2, <1>a, <2>1
  <2> QED
    BY <2>1, <2>2 DEF FrontStays, Identity, Row
<1>3. ASSUME NEW a \in Addresses, NEW g \in GisIds, SaveStreetView(a, g)
      PROVE  Bare(i) \/ FrontStays(i)
  <2> DEFINE new == [base |-> FALSE, prop |-> NoProp, address |-> a,
                     gis |-> IF g = NoGisId THEN a ELSE g, site |-> {}, area |-> FALSE,
                     centred |-> FALSE, grid |-> 0, front |-> 0, ruling |-> 0]
  <2>1. rows' = [k \in Ids \cup {nextId} |-> IF k \in Ids THEN rows[k] ELSE new]
    BY <1>3 DEF SaveStreetView
  <2>2. new.centred = FALSE /\ new.base = FALSE /\ new.site = {}
    OBVIOUS
  <2> HIDE DEF new
  <2>3. i \in Ids \cup {nextId}
    BY <2>1 DEF Ids
  <2>4. CASE i \in Ids
    <3>1. rows'[i] = rows[i]
      BY <2>1, <2>4
    <3> QED
      BY <2>4, <3>1, IdentitySelf DEF FrontStays
  <2>5. CASE i \notin Ids
    <3>1. rows'[i] = new
      BY <2>1, <2>3, <2>5
    <3> QED
      BY <2>2, <2>5, <3>1 DEF Bare
  <2> QED
    BY <2>4, <2>5
<1>4. CASE AddParcelGeom
  <2>1. rows' = [k \in Ids |-> [rows[k] EXCEPT !.area = FALSE]]
    BY <1>4 DEF AddParcelGeom
  <2>2. i \in Ids
    BY <2>1 DEF Ids
  <2>3. rows[i] \in Row /\ rows'[i] = [rows[i] EXCEPT !.area = FALSE]
    BY <1>a, <2>1, <2>2
  <2> QED
    BY <2>2, <2>3 DEF FrontStays, Identity, Row
<1>5. CASE FillFronts
  <2> DEFINE fills == rows[i].front = 0 /\ rows[i].centred /\ HasRoad(i)
                      /\ StreetOf[rows[i].prop] \in FullNames
  <2>1. rows' = [k \in Ids |->
           IF /\ rows[k].front = 0 /\ rows[k].centred
              /\ HasRoad(k) /\ StreetOf[rows[k].prop] \in FullNames
           THEN [rows[k] EXCEPT !.front = tables[Roads]] ELSE rows[k]]
    BY <1>5 DEF FillFronts
  <2>2. i \in Ids
    BY <2>1 DEF Ids
  <2>3. rows[i] \in Row /\ rows'[i] = IF fills THEN [rows[i] EXCEPT !.front = tables[Roads]] ELSE rows[i]
    BY <1>a, <2>1, <2>2
  <2>4. CASE fills
    <3>1. rows'[i] = [rows[i] EXCEPT !.front = tables[Roads]]
      BY <2>3, <2>4
    <3>2. Identity(rows'[i], rows[i]) /\ rows'[i].centred = rows[i].centred /\ rows'[i].front = tables[Roads]
      BY <2>3, <3>1 DEF Identity, Row
    <3> QED
      BY <2>2, <2>4, <3>2 DEF FrontStays, FrontFilled
  <2>5. CASE ~fills
    <3>1. rows'[i] = rows[i]
      BY <2>3, <2>5
    <3> QED
      BY <2>2, <3>1, IdentitySelf DEF FrontStays
  <2> QED
    BY <2>4, <2>5
<1>6. ParcelsNext => \/ rows' = rows \/ AddParcelGeom \/ FillFronts \/ ImportMoves
                     \/ \E a \in Addresses, g \in GisIds : SaveStreetView(a, g)
                     \/ \E t, n : rows' = [rows EXCEPT ![t].ruling = n]
  BY DEF ParcelsNext, OpenCard, SaveCard, CardGone, ClearCard, SaveAddressed, Rule, ImportMoves
<1>7. ParcelsNext \/ rows' = rows
  BY DEF Next, vars, parcelVars
<1> QED
  BY <1>1, <1>2, <1>3, <1>4, <1>5, <1>6, <1>7

LEMMA FrontsOther ==
    ASSUME CityInv, RoadsInv, FrontsInv, [Next]_vars, ~ImportMoves
    PROVE  FrontsInv'
<1>a. DataType /\ ImportInv /\ RowsOK /\ imp' = imp
  BY ImportStays DEF CityInv
<1>b. \A r \in imp.seen : r # 0 /\ Comes(r)' => Comes(r)
  BY <1>a, RoadsStep
<1>c. imp.seen \subseteq Numbers /\ Numbers \subseteq Nat /\ tables[Roads] \in Nat /\ published \in Nat
  BY <1>a, RoadsType DEF ImportInv, ImportType
\* A row with a place was one before, on the same street.
<1>1. ASSUME NEW i \in Ids', Fronted(i)'
      PROVE  /\ i \in Ids /\ Fronted(i)
             /\ \A r : RoadOf(r, i)' <=> RoadOf(r, i)
             /\ rows'[i].front = rows[i].front \/ FrontFilled(i)
  <2>1. FrontStays(i)
    BY <1>a, <1>1, OtherRows DEF Fronted, Bare
  <2> QED
    BY <1>1, <2>1 DEF FrontStays, Identity, Fronted, HasGeom, RoadOf
<1>2. (imp.at \in Before => imp.seen = {})'
  BY <1>a DEF FrontsInv, Before
<1>3. (imp.at = "fronts" /\ imp.seen = {} => \A i \in Ids : Fronted(i) => i \in imp.todo)'
  BY <1>a, <1>1 DEF FrontsInv
<1>4. ASSUME imp.at \in {"fronts", "clear", "done"}, NEW r \in imp.seen, imp.seen = {r},
             NEW i \in Ids', Fronted(i)', i \notin imp.todo, RoadOf(r, i)'
      PROVE  rows'[i].front = r
  <2>1. i \in Ids /\ Fronted(i) /\ RoadOf(r, i) /\ (rows'[i].front = rows[i].front \/ FrontFilled(i))
    BY <1>1, <1>4
  <2>2. rows[i].front = r /\ r # 0
    BY <1>4, <2>1 DEF FrontsInv, RoadOf
  <2> QED
    BY <2>1, <2>2 DEF FrontFilled
<1>5. (imp.at = "clear" => imp.seen # {} /\ imp.todo = {})'
  BY <1>a DEF FrontsInv
<1>6. (imp.at = "done" /\ imp.ok /\ imp.seen # {} => imp.todo = {})'
  BY <1>a DEF FrontsInv
<1>7. ASSUME imp.at = "done", imp.ok, NEW r \in imp.seen, imp.seen = {r}, r # 0, Comes(r)',
             NEW i \in Ids', Fronted(i)', ~RoadOf(r, i)'
      PROVE  rows'[i].front = 0
  <2>1. i \in Ids /\ Fronted(i) /\ ~RoadOf(r, i) /\ (rows'[i].front = rows[i].front \/ FrontFilled(i))
    BY <1>1, <1>7
  <2>2. Comes(r)
    BY <1>b, <1>7
  <2>3. rows[i].front = 0
    BY <1>7, <2>1, <2>2 DEF FrontsInv
  \* The edition in the table is newer than r, and r does not come.
  <2>4. ~FrontFilled(i)
    <3> SUFFICES ASSUME FrontFilled(i) PROVE FALSE
      OBVIOUS
    <3> DEFINE t == tables[Roads]
    <3>1. RoadOf(t, i) /\ t # 0
      BY DEF FrontFilled, HasRoad, RoadOf
    <3>2. t # r /\ r <= t /\ r <= published /\ t <= published
          /\ (staging[Roads] \in Editions => t <= staging[Roads])
      BY <1>7, <2>1, <3>1 DEF RoadsInv
    <3>3. r \in Nat /\ t \in Nat /\ published \in Editions /\ MaxEdition \in Nat
      BY <1>a, <1>c, RoadsType, FilesConstantsOK
    <3> HIDE DEF t
    <3>4. r < t
      BY <3>2, <3>3
    <3>5. r \in Editions
      BY <1>7, <3>2, <3>3 DEF Editions
    <3>6. published # r /\ staging[Roads] # r
      BY <3>2, <3>3, <3>4, <3>5
    <3> QED
      BY <2>2, <3>2, <3>6 DEF Comes, t
  <2> QED
    BY <2>1, <2>3, <2>4
<1> QED
  <2>1. (imp.at \in {"fronts", "clear", "done"} => \A r \in imp.seen : imp.seen = {r} =>
          \A i \in Ids : Fronted(i) /\ i \notin imp.todo /\ RoadOf(r, i) => rows[i].front = r)'
    BY <1>a, <1>4
  <2>2. (imp.at = "done" /\ imp.ok => \A r \in imp.seen : imp.seen = {r} /\ r # 0 /\ Comes(r) =>
          \A i \in Ids : Fronted(i) /\ ~RoadOf(r, i) => rows[i].front = 0)'
    BY <1>a, <1>7
  <2> QED
    BY <1>2, <1>3, <1>5, <1>6, <2>1, <2>2 DEF FrontsInv

\* An import before it looks at the roads, or one that gave up, has nothing to show.
LEMMA FrontsUnseen ==
    ASSUME imp'.seen = {}, imp'.at \notin {"fronts", "clear"}
    PROVE  FrontsInv'
  BY DEF FrontsInv

LEMMA FrontsMoves ==
    ASSUME CityInv, RoadsInv, FrontsInv, ImportMoves
    PROVE  FrontsInv'
<1>a. DataType /\ ImportInv /\ RowsOK
  BY DEF CityInv
<1>b. imp \in [at : ImportSteps, edition : Numbers, drop : BOOLEAN, fronts : BOOLEAN,
               todo : SUBSET Nat, ok : BOOLEAN, seen : SUBSET Numbers]
  BY <1>a DEF ImportInv, ImportType
<1>c. rows \in [Ids -> Row] /\ Ids \subseteq Nat
  BY <1>a DEF RowsOK
<1>1. CASE StartImport \/ StartFrontage
  <2>1. imp'.seen = {} /\ imp'.at \in {"table", "front"}
    BY <1>1 DEF StartImport, StartFrontage, NoImport
  <2> QED
    BY <2>1, FrontsUnseen
<1>2. CASE CreateTable \/ DeleteCityRows \/ InsertCityRows \/ StartCentres \/ CentreChunk \/ BuildBaseSites
  <2>1. imp.at \in Before /\ imp'.seen = imp.seen /\ imp'.at \notin {"fronts", "clear"}
    BY <1>2, <1>b DEF CreateTable, DeleteCityRows, InsertCityRows, StartCentres, CentreChunk,
       BuildBaseSites, ImpAt, Before
  <2> QED
    BY <2>1, FrontsUnseen DEF FrontsInv
<1>3. CASE StartFronts
  <2> DEFINE candidates == {i \in Ids : rows[i].centred /\ HasGeom(i)}
  <2>1. imp.seen = {} /\ imp.at = "front" /\ rows' = rows
    BY <1>3 DEF StartFronts, FrontsInv, Before
  <2>2. CASE imp' = [imp EXCEPT !.at = "done", !.ok = FALSE]
    <3>1. imp'.seen = {} /\ imp'.at = "done"
      BY <1>b, <2>1, <2>2
    <3> QED
      BY <3>1, FrontsUnseen
  <2>3. CASE imp' = [imp EXCEPT !.at = "fronts", !.todo = candidates]
    <3>1. imp'.seen = {} /\ imp'.at = "fronts" /\ imp'.todo = candidates
      BY <1>b, <2>1, <2>3
    <3>2. \A i \in Ids' : Fronted(i)' => i \in candidates
      BY <2>1 DEF Ids, Fronted, HasGeom
    <3> HIDE DEF candidates
    <3> QED
      BY <3>1, <3>2 DEF FrontsInv, Before
  <2> QED
    BY <1>3, <2>2, <2>3 DEF StartFronts
<1>4. CASE FrontChunk
  <2> DEFINE t == tables[Roads]
             within == {i \in Ids : \E j, k \in Chunk : j <= i /\ i <= k}
             meant(i) == i \in within /\ rows[i].centred /\ HasGeom(i) /\ HasRoad(i)
  <2>1. /\ imp.at = "fronts" /\ imp'.seen = imp.seen \cup {t} /\ imp'.todo = imp.todo \ Chunk
        /\ imp'.at \in {"fronts", "clear"} /\ (imp'.at = "clear" => imp.todo = Chunk)
    BY <1>4, <1>b DEF FrontChunk
  <2>2. rows' = [i \in Ids |-> IF meant(i) THEN [rows[i] EXCEPT !.front = t] ELSE rows[i]]
    BY <1>4 DEF FrontChunk
  <2>3. Ids' = Ids
    BY <2>2 DEF Ids
  <2>4. \A i \in Ids \cap Chunk : i \in within
    BY <1>c
  <2> HIDE DEF within
  <2>5. ASSUME NEW i \in Ids
        PROVE  /\ Identity(rows'[i], rows[i]) /\ rows'[i].centred = rows[i].centred
               /\ meant(i) => rows'[i].front = t
               /\ ~meant(i) => rows'[i] = rows[i]
    <3>1. rows[i] \in Row
      BY <1>c
    <3>2. CASE meant(i)
      <4>1. rows'[i] = [rows[i] EXCEPT !.front = t]
        BY <2>2, <3>2
      <4> QED
        BY <3>1, <3>2, <4>1 DEF Identity, Row
    <3>3. CASE ~meant(i)
      <4>1. rows'[i] = rows[i]
        BY <2>2, <3>3
      <4> QED
        BY <3>3, <4>1, IdentitySelf
    <3> QED
      BY <3>2, <3>3
  <2>6. ASSUME NEW r \in imp'.seen, imp'.seen = {r}, NEW i \in Ids, Fronted(i)', i \notin imp'.todo,
               RoadOf(r, i)'
        PROVE  rows'[i].front = r
    <3>1. r = t /\ (imp.seen = {} \/ imp.seen = {t})
      BY <2>1, <2>6
    <3>2. Fronted(i) /\ RoadOf(t, i)
      BY <2>5, <2>6, <3>1 DEF Identity, Fronted, HasGeom, RoadOf
    <3>3. CASE i \in Chunk
      <4>1. meant(i)
        BY <2>4, <3>2, <3>3 DEF Fronted, HasRoad, RoadOf
      <4> QED
        BY <2>5, <3>1, <4>1
    <3>4. CASE i \notin Chunk
      <4>1. i \notin imp.todo
        BY <2>1, <2>6, <3>4
      <4>2. imp.seen = {t}
        BY <2>1, <3>1, <3>2, <4>1 DEF FrontsInv
      <4>3. rows[i].front = t
        BY <2>1, <3>2, <4>1, <4>2 DEF FrontsInv
      <4> QED
        BY <2>5, <3>1, <4>3
    <3> QED
      BY <3>3, <3>4
  <2> HIDE DEF t, meant
  <2>7. imp'.seen # {} /\ (imp'.at = "clear" => imp'.todo = {}) /\ imp'.at \notin Before /\ imp'.at # "done"
    BY <2>1 DEF Before
  <2> QED
    BY <2>3, <2>6, <2>7 DEF FrontsInv
<1>5. CASE ClearFronts
  <2> DEFINE t == tables[Roads]
  <2>1. /\ imp.at = "clear" /\ imp'.seen = imp.seen \cup {t} /\ imp'.todo = imp.todo /\ imp'.at = "done"
        /\ imp'.ok = imp.ok
    BY <1>5, <1>b DEF ClearFronts
  <2>2. imp.seen # {} /\ imp.todo = {}
    BY <2>1 DEF FrontsInv
  <2>3. rows' = [i \in Ids |-> Cleared(i)] /\ Ids' = Ids
    BY <1>5 DEF ClearFronts, Ids
  <2>4. ASSUME NEW i \in Ids
        PROVE  /\ Identity(rows'[i], rows[i]) /\ rows'[i].centred = rows[i].centred
               /\ HasRoad(i) => rows'[i].front = rows[i].front
               /\ ~HasRoad(i) => rows'[i].front = 0
    <3>1. rows[i] \in Row /\ rows'[i] = IF HasRoad(i) THEN rows[i] ELSE [rows[i] EXCEPT !.front = 0]
      BY <1>c, <2>3 DEF Cleared
    <3>2. CASE HasRoad(i)
      BY <3>1, <3>2, IdentitySelf
    <3>3. CASE ~HasRoad(i)
      <4>1. rows'[i] = [rows[i] EXCEPT !.front = 0]
        BY <3>1, <3>3
      <4> QED
        BY <3>1, <3>3, <4>1 DEF Identity, Row
    <3> QED
      BY <3>2, <3>3
  <2>5. ASSUME NEW r \in imp'.seen, imp'.seen = {r}
        PROVE  r = t /\ imp.seen = {t}
    BY <2>1, <2>2, <2>5
  <2>6. ASSUME NEW r \in imp'.seen, imp'.seen = {r}, NEW i \in Ids, Fronted(i)'
        PROVE  /\ RoadOf(r, i)' => rows'[i].front = r
               /\ ~RoadOf(r, i)' => rows'[i].front = 0
    <3>1. r = t /\ imp.seen = {t} /\ t \in imp.seen
      BY <2>5, <2>6
    <3>2. Fronted(i) /\ (RoadOf(r, i)' <=> RoadOf(t, i)) /\ (RoadOf(t, i) <=> HasRoad(i))
      BY <2>4, <2>6, <3>1 DEF Identity, Fronted, HasGeom, RoadOf, HasRoad
    <3>3. RoadOf(t, i) => rows[i].front = t
      BY <2>1, <2>2, <3>1, <3>2 DEF FrontsInv
    <3> QED
      BY <2>4, <3>1, <3>2, <3>3
  <2>7. imp'.at \notin Before /\ imp'.todo = {}
    BY <2>1, <2>2 DEF Before
  <2> HIDE DEF t
  <2> QED
    BY <2>1, <2>3, <2>6, <2>7 DEF FrontsInv
<1>6. CASE ImportStepFails \/ PolygonRefused
  <2>1. /\ imp'.seen = imp.seen /\ imp'.todo = imp.todo /\ imp'.ok = FALSE /\ rows' = rows
        /\ imp.at \notin {"idle", "done"}
        /\ imp'.at = "done" \/ (imp'.at = "front" /\ imp.at = "bases")
    BY <1>6, <1>b DEF ImportStepFails, PolygonRefused, Running, Refused
  <2>2. CASE imp.at \in Before
    <3>1. imp'.seen = {} /\ imp'.at \notin {"fronts", "clear"}
      BY <2>1, <2>2 DEF FrontsInv
    <3> QED
      BY <3>1, FrontsUnseen
  <2>3. CASE imp.at \in {"fronts", "clear"}
    <3>1. imp'.at = "done" /\ imp'.at \notin Before
      BY <2>1, <2>3 DEF Before
    <3>2. \A r \in imp'.seen : imp'.seen = {r} =>
             \A i \in Ids' : Fronted(i)' /\ i \notin imp'.todo /\ RoadOf(r, i)' => rows'[i].front = r
      BY <2>1, <2>3 DEF FrontsInv, Ids, Fronted, HasGeom, RoadOf
    <3> QED
      BY <2>1, <3>1, <3>2 DEF FrontsInv
  <2> QED
    BY <1>b, <2>1, <2>2, <2>3 DEF Before, ImportSteps
<1> QED
  BY <1>1, <1>2, <1>3, <1>4, <1>5, <1>6 DEF ImportMoves

FrontsCityInv == CityInv /\ RoadsInv /\ FrontsInv

LEMMA FrontsCurrent == FrontsInv => FrontsAreCurrent
<1> SUFFICES ASSUME FrontsInv, imp.at = "done", imp.ok, imp.seen = {tables[Roads]}, tables[Roads] # 0,
                    NEW i \in Ids, rows[i].centred, HasGeom(i)
             PROVE  rows[i].front = IF HasRoad(i) THEN tables[Roads] ELSE 0
  BY DEF FrontsAreCurrent
<1> DEFINE t == tables[Roads]
<1>1. t \in imp.seen /\ imp.todo = {} /\ Comes(t) /\ Fronted(i)
  BY DEF FrontsInv, Comes, Fronted
<1>2. RoadOf(t, i) <=> HasRoad(i)
  BY DEF RoadOf, HasRoad
<1>3. RoadOf(t, i) => rows[i].front = t
  BY <1>1 DEF FrontsInv
<1>4. ~RoadOf(t, i) => rows[i].front = 0
  BY <1>1 DEF FrontsInv
<1> QED
  BY <1>2, <1>3, <1>4

\* FrontsAreCurrent, for every history of the City's editions, of downloads and of imports of
\* either kind (backfill_parcel_frontage and step 9 of import_gis_data.py): what ends up in the
\* front points is the edition of the roads that the import saw, as long as it saw one.
THEOREM FrontsAreCurrentCorrect == Spec => []FrontsAreCurrent
<1>1. Init => FrontsCityInv
  BY InitCity, InitRoads, InitFronts DEF FrontsCityInv
<1>2. FrontsCityInv /\ [Next]_vars => FrontsCityInv'
  <2> SUFFICES ASSUME FrontsCityInv, [Next]_vars PROVE FrontsCityInv'
    OBVIOUS
  <2>1. CityInv' /\ RoadsInv'
    BY NextCity, RoadsStep DEF FrontsCityInv, CityInv
  <2>2. FrontsInv'
    BY FrontsOther, FrontsMoves DEF FrontsCityInv
  <2> QED
    BY <2>1, <2>2 DEF FrontsCityInv
<1>3. FrontsCityInv => FrontsAreCurrent
  BY FrontsCurrent DEF FrontsCityInv
<1> QED
  BY <1>1, <1>2, <1>3, PTL DEF Spec

(***************************************************************************)
(* SiteMatchesLots: the rows an import leaves, against the layer it read.  *)
(***************************************************************************)
Layer == {Extract[imp.edition][n] : n \in DOMAIN Extract[imp.edition]}
LotsAt(p) == {l \in Layer : LotOf[l].prop = p /\ LotOf[l].outlined}

\* One City row for each outlined lot of the layer, and no other with an outline.
CityRowsMatch ==
    /\ \A i \in CityIds : HasGeom(i) =>
          \E l \in Layer : LotOf[l].outlined /\ rows[i].site = {l} /\ rows[i].prop = LotOf[l].prop
    /\ \A l \in Layer : LotOf[l].outlined => \E i \in CityIds : rows[i].site = {l}
    /\ \A i, j \in CityIds : HasGeom(i) /\ rows[i].site = rows[j].site => i = j

BasesMatch ==
    \A p \in Housed : Cardinality(LotsAt(p)) > 1 => \E i \in BaseOf(p) : rows[i].site = LotsAt(p)

SitesInv ==
    /\ imp.at = "insert" => \A i \in CityIds : ~HasGeom(i)
    /\ imp.ok /\ imp.edition # 0 =>
          /\ imp.at \in {"zones", "centres", "bases", "front", "fronts", "clear", "done"} => CityRowsMatch
          /\ imp.at \in {"front", "fronts", "clear", "done"} => BasesMatch

LEMMA InitSites == Init => SitesInv
<1> SUFFICES ASSUME Init PROVE SitesInv
  OBVIOUS
<1>1. imp.at = "idle"
  BY DEF Init, ParcelsInit, NoImport
<1> QED
  BY <1>1 DEF SitesInv

\* Two of them are more than one.
LEMMA MoreThanOne ==
    ASSUME NEW S, IsFiniteSet(S)
    PROVE  Cardinality(S) > 1 <=> \E x, y \in S : x # y
<1>1. ASSUME NEW x \in S, NEW y \in S, x # y PROVE Cardinality(S) > 1
  <2>1. IsFiniteSet({x}) /\ Cardinality({x}) = 1
    BY FS_Singleton
  <2>2. IsFiniteSet({x} \cup {y}) /\ Cardinality({x} \cup {y}) = Cardinality({x}) + 1
    <3>1. y \notin {x}
      BY <1>1
    <3> QED
      BY <2>1, <3>1, FS_AddElement
  <2>3. Cardinality({x} \cup {y}) <= Cardinality(S)
    <3>1. {x} \cup {y} \in SUBSET S
      OBVIOUS
    <3> QED
      BY <3>1, FS_Subset
  <2>4. Cardinality(S) \in Nat
    BY FS_CardinalityType
  <2> QED
    BY <2>1, <2>2, <2>3, <2>4
<1>2. ASSUME Cardinality(S) > 1, \A x, y \in S : x = y PROVE FALSE
  <2>1. CASE S = {}
    <3>1. Cardinality(S) = 0
      BY <2>1, FS_EmptySet
    <3> QED
      BY <1>2, <3>1
  <2>2. CASE S # {}
    <3>1. PICK x \in S : TRUE
      BY <2>2
    <3>2. S = {x}
      BY <1>2, <3>1
    <3>3. Cardinality(S) = 1
      BY <3>2, FS_Singleton
    <3> QED
      BY <1>2, <3>3
  <2> QED
    BY <2>1, <2>2
<1> QED
  BY <1>1, <1>2

\* Rows that keep what they are, next to new ones without an outline, change nothing.
SitesKeep ==
    /\ imp'.edition = imp.edition
    /\ Ids \subseteq Ids'
    /\ \A i \in Ids : Identity(rows'[i], rows[i])
    /\ \A i \in Ids' \ Ids : rows'[i].base = FALSE /\ rows'[i].site = {}

LEMMA KeepMatch ==
    ASSUME SitesKeep
    PROVE  /\ CityRowsMatch => CityRowsMatch'
           /\ BasesMatch => BasesMatch'
           /\ (\A i \in CityIds : ~HasGeom(i)) => (\A i \in CityIds : ~HasGeom(i))'
<1>1. Layer' = Layer /\ \A p : LotsAt(p)' = LotsAt(p)
  BY DEF SitesKeep, Layer, LotsAt
<1>2. \A i \in Ids : /\ i \in Ids' /\ rows'[i].base = rows[i].base /\ rows'[i].prop = rows[i].prop
                     /\ rows'[i].address = rows[i].address /\ rows'[i].site = rows[i].site
  BY DEF SitesKeep, Identity
<1>3. ASSUME NEW i \in CityIds', HasGeom(i)'
      PROVE  i \in CityIds /\ HasGeom(i) /\ rows'[i].site = rows[i].site /\ rows'[i].prop = rows[i].prop
  <2>1. i \in Ids'
    BY DEF CityIds
  <2>2. i \in Ids
    BY <1>3, <2>1 DEF SitesKeep, HasGeom
  <2> QED
    BY <1>2, <1>3, <2>2 DEF CityIds, HasGeom
<1>4. \A i \in CityIds : i \in CityIds'
  BY <1>2 DEF CityIds
<1>5. ASSUME CityRowsMatch PROVE CityRowsMatch'
  <2>1. ASSUME NEW i \in CityIds', HasGeom(i)'
        PROVE  \E l \in Layer : LotOf[l].outlined /\ rows'[i].site = {l} /\ rows'[i].prop = LotOf[l].prop
    BY <1>3, <1>5, <2>1 DEF CityRowsMatch
  <2>2. ASSUME NEW l \in Layer, LotOf[l].outlined PROVE \E i \in CityIds' : rows'[i].site = {l}
    <3>1. PICK i \in CityIds : rows[i].site = {l}
      BY <1>5, <2>2 DEF CityRowsMatch
    <3> QED
      BY <1>2, <1>4, <3>1 DEF CityIds
  <2>3. ASSUME NEW i \in CityIds', NEW j \in CityIds', HasGeom(i)', rows'[i].site = rows'[j].site
        PROVE  i = j
    <3>1. HasGeom(j)'
      BY <2>3 DEF HasGeom
    <3> QED
      BY <1>3, <1>5, <2>3, <3>1 DEF CityRowsMatch
  <2> QED
    BY <1>1, <2>1, <2>2, <2>3 DEF CityRowsMatch
<1>6. ASSUME BasesMatch PROVE BasesMatch'
  <2> SUFFICES ASSUME NEW p \in Housed, Cardinality(LotsAt(p)) > 1
               PROVE  \E i \in BaseOf(p)' : rows'[i].site = LotsAt(p)
    BY <1>1 DEF BasesMatch
  <2>1. PICK i \in BaseOf(p) : rows[i].site = LotsAt(p)
    BY <1>6 DEF BasesMatch
  <2>2. i \in BaseOf(p)' /\ rows'[i].site = rows[i].site
    BY <1>2, <2>1 DEF BaseOf
  <2> QED
    BY <2>1, <2>2
<1>7. ASSUME \A i \in CityIds : ~HasGeom(i) PROVE (\A i \in CityIds : ~HasGeom(i))'
  BY <1>3, <1>7
<1> QED
  BY <1>5, <1>6, <1>7

LEMMA OthersKeep ==
    ASSUME CityInv, [Next]_vars, ~ImportMoves
    PROVE  SitesKeep /\ imp' = imp
<1>a. RowsOK /\ imp' = imp
  BY ImportStays DEF CityInv
<1>1. Ids \subseteq Ids'
  <2>1. ParcelsNext => \/ rows' = rows \/ AddParcelGeom \/ FillFronts \/ ImportMoves
                       \/ \E a \in Addresses, g \in GisIds : SaveStreetView(a, g)
                       \/ \E t, n : rows' = [rows EXCEPT ![t].ruling = n]
    BY DEF ParcelsNext, OpenCard, SaveCard, CardGone, ClearCard, SaveAddressed, Rule, ImportMoves
  <2>2. ParcelsNext \/ rows' = rows
    BY DEF Next, vars, parcelVars
  <2>3. AddParcelGeom \/ FillFronts \/ rows' = rows => Ids' = Ids
    BY DEF AddParcelGeom, FillFronts, Ids
  <2>4. \A t, n : rows' = [rows EXCEPT ![t].ruling = n] => Ids' = Ids
    BY DEF RowsOK, Ids
  <2>5. \A a \in Addresses, g \in GisIds : SaveStreetView(a, g) => Ids' = Ids \cup {nextId}
    BY DEF SaveStreetView, Ids
  <2> QED
    BY <2>1, <2>2, <2>3, <2>4, <2>5
<1>2. \A i \in Ids' : Bare(i) \/ FrontStays(i)
  BY <1>a, OtherRows
<1> QED
  BY <1>a, <1>1, <1>2 DEF SitesKeep, Bare, FrontStays

\* The City rows that one INSERT makes of the layer.
LEMMA InsertMatches ==
    ASSUME CityInv, SitesInv, InsertCityRows
    PROVE  CityRowsMatch'
<1> DEFINE layer == Extract[imp.edition]
           added == nextId .. nextId + Len(layer) - 1
           recordAt(i) == i - nextId + 1
<1>a. RowsOK /\ ImportInv /\ imp.at = "insert"
  BY DEF CityInv, InsertCityRows
<1>b. nextId \in Nat /\ Ids \subseteq Nat
  BY <1>a DEF RowsOK
<1>1. /\ Len(layer) \in Nat /\ DOMAIN layer = 1..Len(layer)
      /\ \A n \in 1..Len(layer) : layer[n] \in Lots
  BY <1>a, LayerFacts
<1>2. \A m, n \in 1..Len(layer) : layer[m] = layer[n] => m = n
  BY <1>a, <1>1, LayerOK DEF ImportInv
<1>3. /\ Ids' = Ids \cup added
      /\ \A i \in Ids : rows'[i] = rows[i]
      /\ \A i \in added : i \notin Ids /\ recordAt(i) \in 1..Len(layer)
                          /\ rows'[i] = CityRow(layer[recordAt(i)])
  BY <1>a, InsertFacts
<1>4. Layer = {layer[n] : n \in 1..Len(layer)} /\ Layer' = Layer
  <2>1. imp'.edition = imp.edition
    BY <1>a DEF InsertCityRows, ImpAt, ImportInv, ImportType
  <2> QED
    BY <1>1, <2>1 DEF Layer
<1>5. \A i, j \in added : recordAt(i) = recordAt(j) => i = j
  BY <1>1, <1>b
<1>6. \A n \in 1..Len(layer) : \E i \in added : recordAt(i) = n
  <2> TAKE n \in 1..Len(layer)
  <2>1. nextId + n - 1 \in added /\ recordAt(nextId + n - 1) = n
    BY <1>1, <1>b
  <2> QED
    BY <2>1
<1> HIDE DEF layer, added, recordAt
\* The rows that were there have no outline any more.
<1>7. ASSUME NEW i \in CityIds', HasGeom(i)'
      PROVE  i \in added
  <2>1. i \in Ids \/ i \in added
    BY <1>3 DEF CityIds
  <2>2. i \in Ids => i \in CityIds /\ HasGeom(i)
    BY <1>3, <1>7 DEF CityIds, HasGeom
  <2> QED
    BY <1>a, <2>1, <2>2 DEF SitesInv
<1>8. ASSUME NEW i \in added
      PROVE  /\ layer[recordAt(i)] \in Layer /\ layer[recordAt(i)] \in Lots
             /\ i \in CityIds'
             /\ rows'[i].prop = LotOf[layer[recordAt(i)]].prop
             /\ rows'[i].site = IF LotOf[layer[recordAt(i)]].outlined THEN {layer[recordAt(i)]} ELSE {}
  <2>1. recordAt(i) \in 1..Len(layer) /\ rows'[i] = CityRow(layer[recordAt(i)])
    BY <1>3
  <2>2. layer[recordAt(i)] \in Lots /\ layer[recordAt(i)] \in Layer
    BY <1>1, <1>4, <2>1
  <2>3. i \in Ids'
    BY <1>3
  <2> QED
    BY <2>1, <2>2, <2>3, CityRowType DEF CityIds
<1>9. ASSUME NEW i \in CityIds', HasGeom(i)'
      PROVE  \E l \in Layer : LotOf[l].outlined /\ rows'[i].site = {l} /\ rows'[i].prop = LotOf[l].prop
  <2>1. i \in added
    BY <1>7, <1>9
  <2>2. LotOf[layer[recordAt(i)]].outlined
    BY <1>8, <1>9, <2>1 DEF HasGeom
  <2> QED
    BY <1>8, <2>1, <2>2
<1>10. ASSUME NEW l \in Layer, LotOf[l].outlined PROVE \E i \in CityIds' : rows'[i].site = {l}
  <2>1. PICK n \in 1..Len(layer) : l = layer[n]
    BY <1>4
  <2>2. PICK i \in added : recordAt(i) = n
    BY <1>6
  <2> QED
    BY <1>8, <1>10, <2>1, <2>2
<1>11. ASSUME NEW i \in CityIds', NEW j \in CityIds', HasGeom(i)', rows'[i].site = rows'[j].site
       PROVE  i = j
  <2>1. i \in added /\ j \in added
    BY <1>7, <1>11 DEF HasGeom
  <2>2. rows'[i].site = {layer[recordAt(i)]} /\ rows'[j].site = {layer[recordAt(j)]}
    BY <1>8, <1>11, <2>1 DEF HasGeom
  <2>3. layer[recordAt(i)] = layer[recordAt(j)]
    BY <1>11, <2>2
  <2>4. recordAt(i) = recordAt(j)
    BY <1>2, <1>3, <2>1, <2>3
  <2> QED
    BY <1>5, <2>1, <2>4
<1> QED
  BY <1>4, <1>9, <1>10, <1>11 DEF CityRowsMatch

\* A property of several outlined lots has several members, and their outlines are its lots.
LEMMA MembersAreLots ==
    ASSUME RowsOK, ImportType, imp.edition # 0, CityRowsMatch, NEW p \in Housed, Cardinality(LotsAt(p)) > 1
    PROVE  p \in SiteProps /\ UNION {rows[i].site : i \in Members(p)} = LotsAt(p)
<1>1. imp.edition \in Editions
  BY FilesConstantsOK DEF ImportType, Numbers, Editions
<1>2. IsFiniteSet(LotsAt(p))
  <2>1. Extract[imp.edition] \in Seq(Lots)
    BY <1>1, ParcelConstantsOK
  <2>2. LotsAt(p) \in SUBSET Lots
    BY <2>1 DEF LotsAt, Layer
  <2> QED
    BY <2>2, ParcelConstantsOK, FS_Subset
<1>3. \A l \in LotsAt(p) : \E i \in Members(p) : rows[i].site = {l}
  <2> TAKE l \in LotsAt(p)
  <2>1. PICK i \in CityIds : rows[i].site = {l}
    BY DEF CityRowsMatch, LotsAt
  <2>2. rows[i].prop = p
    <3>1. HasGeom(i)
      BY <2>1 DEF HasGeom
    <3>2. PICK m \in Layer : rows[i].site = {m} /\ rows[i].prop = LotOf[m].prop
      BY <3>1 DEF CityRowsMatch
    <3>3. m = l
      BY <2>1, <3>2
    <3> QED
      BY <3>2, <3>3 DEF LotsAt
  <2> QED
    BY <2>1, <2>2 DEF Members, HasGeom
<1>4. \A i \in Members(p) : \E l \in LotsAt(p) : rows[i].site = {l}
  BY DEF Members, CityRowsMatch, LotsAt
<1>5. PICK x \in LotsAt(p), y \in LotsAt(p) : x # y
  BY <1>2, MoreThanOne
<1>6. Cardinality(Members(p)) > 1
  <2>1. PICK i \in Members(p) : rows[i].site = {x}
    BY <1>3
  <2>2. PICK j \in Members(p) : rows[j].site = {y}
    BY <1>3
  <2>3. i # j
    BY <1>5, <2>1, <2>2
  <2>4. IsFiniteSet(Members(p))
    <3>1. Members(p) \in SUBSET Ids
      BY DEF Members, CityIds
    <3> QED
      BY <3>1, RowsFinite
  <2> QED
    BY <2>3, <2>4, MoreThanOne
<1>7. \A l : l \in UNION {rows[i].site : i \in Members(p)} <=> l \in LotsAt(p)
  <2>1. ASSUME NEW i \in Members(p), NEW l \in rows[i].site PROVE l \in LotsAt(p)
    BY <1>4
  <2>2. ASSUME NEW l \in LotsAt(p) PROVE \E i \in Members(p) : l \in rows[i].site
    BY <1>3
  <2> QED
    BY <2>1, <2>2
<1>8. UNION {rows[i].site : i \in Members(p)} = LotsAt(p)
  BY <1>7
<1> QED
  BY <1>6, <1>8 DEF SiteProps

LEMMA BuildMatches ==
    ASSUME CityInv, CityRowsMatch, imp.edition # 0, BuildBaseSites
    PROVE  CityRowsMatch' /\ BasesMatch'
<1>a. DataType /\ RowsOK /\ ImportType
  BY DEF CityInv, ImportInv
<1>b. rows \in [Ids -> Row] /\ imp'.edition = imp.edition
  BY <1>a DEF RowsOK, BuildBaseSites, ImpAt, ImportType
<1>c. Layer' = Layer /\ \A p : LotsAt(p)' = LotsAt(p)
  BY <1>b DEF Layer, LotsAt
<1>1. /\ Ids \subseteq Ids'
      /\ \A i \in Ids' : i \in Ids \/ \E p \in Fresh : i = Given[p]
      /\ \A p \in Fresh : Given[p] \in Ids' /\ rows'[Given[p]] = Derived(p, NewBase(p))
  BY <1>a, BuildFacts
<1>2. ASSUME NEW i \in Ids, NEW p \in SiteProps, i \in BaseOf(p)
      PROVE  rows'[i] = Derived(p, rows[i])
  <2>1. rows'[i] = Derived(SiteOf(i), rows[i])
    BY <1>a, <1>2, BuildFacts
  <2>2. SiteOf(i) \in SiteProps /\ i \in BaseOf(SiteOf(i))
    BY <1>2 DEF SiteOf
  <2>3. BaseAddress[SiteOf(i)] = BaseAddress[p]
    BY <1>2, <2>2 DEF BaseOf
  <2>4. SiteOf(i) = p
    BY <1>a, <2>2, <2>3, BuildFacts
  <2> QED
    BY <2>1, <2>4
<1>3. ASSUME NEW i \in Ids, ~\E p \in SiteProps : i \in BaseOf(p) PROVE rows'[i] = rows[i]
  BY <1>a, <1>3, BuildFacts
<1>4. ASSUME NEW p \in Fresh
      PROVE  /\ rows'[Given[p]].base = TRUE /\ rows'[Given[p]].address = BaseAddress[p]
             /\ rows'[Given[p]].site = UNION {rows[i].site : i \in Members(p)}
  <2>1. p \in SiteProps /\ rows'[Given[p]] = Derived(p, NewBase(p))
    BY <1>1 DEF Fresh
  <2>2. NewBase(p) \in Row /\ NewBase(p).base = TRUE /\ NewBase(p).address = BaseAddress[p]
    BY <2>1, NewBaseType
  <2> QED
    BY <1>a, <2>1, <2>2, DerivedType
<1>5. ASSUME NEW p \in SiteProps, NEW i \in BaseOf(p)
      PROVE  /\ i \in Ids' /\ rows'[i].base = TRUE /\ rows'[i].address = BaseAddress[p]
             /\ rows'[i].site = UNION {rows[k].site : k \in Members(p)}
  <2>1. i \in Ids /\ rows[i] \in Row /\ rows[i].base = TRUE /\ rows[i].address = BaseAddress[p]
    BY <1>b DEF BaseOf, Row
  <2> QED
    BY <1>a, <1>1, <1>2, <2>1, DerivedType
\* The City's rows are left alone.
<1>6. CityIds' = CityIds /\ \A i \in CityIds : rows'[i] = rows[i]
  <2>1. ASSUME NEW i \in CityIds PROVE rows'[i] = rows[i] /\ i \in CityIds'
    <3>1. i \in Ids /\ ~(rows[i].base)
      BY DEF CityIds
    <3>2. ~\E p \in SiteProps : i \in BaseOf(p)
      BY <3>1 DEF BaseOf
    <3> QED
      BY <1>1, <1>3, <3>1, <3>2 DEF CityIds
  <2>2. ASSUME NEW i \in CityIds' PROVE i \in CityIds
    <3>1. i \in Ids' /\ ~(rows'[i].base)
      BY DEF CityIds
    <3>2. i \in Ids
      BY <1>1, <1>4, <3>1
    <3>3. ~\E p \in SiteProps : i \in BaseOf(p)
      BY <1>5, <3>1
    <3> QED
      BY <1>3, <3>1, <3>2, <3>3 DEF CityIds
  <2> QED
    BY <2>1, <2>2
<1>7. CityRowsMatch'
  BY <1>c, <1>6 DEF CityRowsMatch, HasGeom
<1>8. ASSUME NEW p \in Housed, Cardinality(LotsAt(p)) > 1
      PROVE  \E i \in BaseOf(p)' : rows'[i].site = LotsAt(p)
  <2>1. p \in SiteProps /\ UNION {rows[i].site : i \in Members(p)} = LotsAt(p)
    BY <1>a, <1>8, MembersAreLots
  <2>2. CASE BaseOf(p) = {}
    <3>1. p \in Fresh
      BY <2>1, <2>2 DEF Fresh
    <3>2. Given[p] \in BaseOf(p)'
      BY <1>1, <1>4, <3>1 DEF BaseOf
    <3> QED
      BY <1>4, <2>1, <3>1, <3>2
  <2>3. CASE BaseOf(p) # {}
    <3>1. PICK i \in BaseOf(p) : TRUE
      BY <2>3
    <3>2. i \in BaseOf(p)'
      BY <1>5, <2>1 DEF BaseOf
    <3> QED
      BY <1>5, <2>1, <3>2
  <2> QED
    BY <2>2, <2>3
<1> QED
  BY <1>7, <1>8, <1>c DEF BasesMatch

LEMMA SitesMoves ==
    ASSUME CityInv, SitesInv, ImportMoves
    PROVE  SitesInv'
<1>a. DataType /\ ImportInv /\ RowsOK
  BY DEF CityInv
<1>b. imp \in [at : ImportSteps, edition : Numbers, drop : BOOLEAN, fronts : BOOLEAN,
               todo : SUBSET Nat, ok : BOOLEAN, seen : SUBSET Numbers]
  BY <1>a DEF ImportInv, ImportType
<1> DEFINE after == {"zones", "centres", "bases", "front", "fronts", "clear", "done"}
           last == {"front", "fronts", "clear", "done"}
\* Rows that stay what they are, at a later step of the same import.
<1>c. ASSUME RowsStay, imp'.edition = imp.edition, imp'.at # "insert", imp'.ok => imp.ok,
             imp'.ok /\ imp'.at \in after => imp.at \in after,
             imp'.ok /\ imp'.at \in last => imp.at \in last
      PROVE  SitesInv'
  <2>1. SitesKeep
    BY <1>a, <1>c, StayOK DEF RowsStay, SitesKeep
  <2> QED
    BY <1>c, <2>1, KeepMatch DEF SitesInv
<1>d. UNCHANGED <<rows, nextId, rulings>> => RowsStay
  BY <1>a, IdentitySelf DEF RowsStay, RowsOK
<1>1. CASE StartImport \/ StartFrontage \/ CreateTable
  <2>1. imp'.at \in {"table", "delete"} \/ (imp'.at = "front" /\ imp'.edition = 0)
    BY <1>1, <1>b DEF StartImport, StartFrontage, CreateTable, NoImport, ImpAt
  <2> QED
    BY <2>1 DEF SitesInv
<1>2. CASE DeleteCityRows
  <2>1. imp'.at = "insert" /\ rows' = [i \in NotReplaced |-> rows[i]]
    BY <1>2, <1>b DEF DeleteCityRows, ImpAt, Kept
  <2>2. CityIds' = {}
    BY <2>1 DEF CityIds, Ids, NotReplaced
  <2> QED
    BY <2>1, <2>2 DEF SitesInv
<1>3. CASE InsertCityRows
  <2>1. imp'.at = "zones"
    BY <1>3, <1>b DEF InsertCityRows, ImpAt
  <2> QED
    BY <1>3, <2>1, InsertMatches DEF SitesInv
<1>4. CASE StartCentres \/ StartFronts
  <2>1. /\ UNCHANGED <<rows, nextId, rulings>> /\ imp'.edition = imp.edition
        /\ imp.at \in {"zones", "front"} /\ (imp'.ok => imp.ok)
        /\ \/ imp'.at = "done" /\ ~(imp'.ok)
           \/ imp.at = "zones" /\ imp'.at \in {"bases", "centres"}
           \/ imp.at = "front" /\ imp'.at = "fronts"
    BY <1>4, <1>b DEF StartCentres, StartFronts, ImportFrame
  <2> QED
    BY <1>c, <1>d, <2>1
<1>5. CASE CentreChunk \/ FrontChunk \/ ClearFronts
  <2>1. /\ imp'.edition = imp.edition /\ imp'.ok = imp.ok
        /\ \/ imp.at = "centres" /\ imp'.at \in {"centres", "bases"}
           \/ imp.at \in {"fronts", "clear"} /\ imp'.at \in {"fronts", "clear", "done"}
    BY <1>5, <1>b DEF CentreChunk, FrontChunk, ClearFronts
  <2> QED
    BY <1>a, <1>c, <1>5, <2>1, ChunksStay
<1>6. CASE BuildBaseSites
  <2>1. /\ imp'.edition = imp.edition /\ imp'.ok = imp.ok /\ imp.at = "bases"
        /\ imp'.at \in {"front", "done"}
    BY <1>6, <1>b DEF BuildBaseSites, ImpAt
  <2> QED
    BY <1>6, <2>1, BuildMatches DEF SitesInv
<1>7. CASE ImportStepFails \/ PolygonRefused
  <2>1. ~(imp'.ok) /\ imp'.at \in {"front", "done"}
    BY <1>7, <1>b DEF ImportStepFails, PolygonRefused
  <2> QED
    BY <2>1 DEF SitesInv
<1> QED
  BY <1>1, <1>2, <1>3, <1>4, <1>5, <1>6, <1>7 DEF ImportMoves

(***************************************************************************)
(* The outlines.  Unless step 10 has made the column one of points since    *)
(* the import began, what the import wrote is an outline.                   *)
(***************************************************************************)
Written == {"zones", "centres", "bases", "front", "fronts", "clear", "done"}
Built == {"front", "fronts", "clear", "done"}

CityAreas == \A i \in CityIds : HasGeom(i) => rows[i].area = TRUE
BaseAreas ==
    \A p \in Housed : Cardinality(LotsAt(p)) > 1 => \A i \in BaseOf(p) : rows[i].area = TRUE

AreasInv ==
    imp.ok /\ imp.edition # 0 /\ ~pointsOnly =>
        /\ imp.at \in Written => CityAreas
        /\ imp.at \in Built => BaseAreas

LEMMA InitAreas == Init => AreasInv
<1> SUFFICES ASSUME Init PROVE AreasInv
  OBVIOUS
<1>1. imp.at = "idle"
  BY DEF Init, ParcelsInit, NoImport
<1> QED
  BY <1>1 DEF AreasInv, Written, Built

\* Only step 10 takes an outline, and only --force-drop, the DELETE and the base sites do more
\* to a row than the steps that come after them.
LEMMA AreasStay ==
    ASSUME RowsOK, ImportInv, [Next]_vars,
           ~CreateTable, ~DeleteCityRows, ~BuildBaseSites, ~AddParcelGeom
    PROVE  pointsOnly' = pointsOnly /\ \A i \in Ids : rows'[i].area = rows[i].area
<1>a. rows \in [Ids -> Row]
  BY DEF RowsOK
<1>1. ParcelsNext => pointsOnly' = pointsOnly
  BY DEF ParcelsNext, OpenCard, SaveStreetView, SaveCard, CardGone, ClearCard, SaveAddressed,
     StartImport, StartFrontage, InsertCityRows, StartCentres, CentreChunk, StartFronts, FrontChunk,
     ClearFronts, ImportStepFails, PolygonRefused, FillFronts, ImportFrame, dataVars
<1>2. ParcelsNext => \/ rows' = rows
                     \/ InsertCityRows
                     \/ CentreChunk \/ FrontChunk \/ ClearFronts \/ FillFronts
                     \/ \E a \in Addresses, g \in GisIds : SaveStreetView(a, g)
                     \/ \E t, n : rows' = [rows EXCEPT ![t].ruling = n]
  BY DEF ParcelsNext, OpenCard, SaveCard, CardGone, ClearCard, SaveAddressed, Rule, StartImport,
     StartFrontage, StartCentres, StartFronts, ImportStepFails, PolygonRefused
<1>3. CASE InsertCityRows
  <2>1. \A i \in Ids : rows'[i] = rows[i]
    BY <1>3, InsertFacts
  <2> QED
    BY <1>1, <1>3, <2>1 DEF ParcelsNext
<1>4. CASE CentreChunk \/ FrontChunk \/ ClearFronts \/ FillFronts
  <2>1. ASSUME NEW i \in Ids
        PROVE  rows'[i].area = rows[i].area
    <3>1. \/ rows'[i] = rows[i]
          \/ \E v : rows'[i] = [rows[i] EXCEPT !.front = v]
          \/ \E v : rows'[i] = [rows[i] EXCEPT !.centred = TRUE, !.grid = v]
      BY <1>4 DEF CentreChunk, FrontChunk, ClearFronts, Cleared, FillFronts
    <3>2. rows[i] \in Row
      BY <1>a
    <3> QED
      BY <3>1, <3>2 DEF Row
  <2> QED
    BY <1>1, <1>4, <2>1 DEF ParcelsNext
<1>5. ASSUME NEW a \in Addresses, NEW g \in GisIds, SaveStreetView(a, g)
      PROVE  pointsOnly' = pointsOnly /\ \A i \in Ids : rows'[i].area = rows[i].area
  BY <1>5 DEF SaveStreetView
<1>6. ASSUME NEW t, NEW n, rows' = [rows EXCEPT ![t].ruling = n]
      PROVE  \A i \in Ids : rows'[i].area = rows[i].area
  <2> TAKE i \in Ids
  <2>1. rows[i] \in Row
    BY <1>a
  <2>2. rows'[i] = IF i = t THEN [rows[i] EXCEPT !.ruling = n] ELSE rows[i]
    BY <1>a, <1>6
  <2> QED
    BY <2>1, <2>2 DEF Row
<1>7. ParcelsNext \/ UNCHANGED <<rows, pointsOnly>>
  BY DEF Next, vars, parcelVars
<1> QED
  BY <1>1, <1>2, <1>3, <1>4, <1>5, <1>6, <1>7

\* Rows that keep their outlines, next to new ones without, change nothing.
LEMMA KeepAreas ==
    ASSUME SitesKeep, \A i \in Ids : rows'[i].area = rows[i].area
    PROVE  (CityAreas => CityAreas') /\ (BaseAreas => BaseAreas')
<1>1. \A p : LotsAt(p)' = LotsAt(p)
  BY DEF SitesKeep, Layer, LotsAt
<1>2. \A i \in Ids : /\ rows'[i].base = rows[i].base /\ rows'[i].site = rows[i].site
                     /\ rows'[i].address = rows[i].address
  BY DEF SitesKeep, Identity
<1>3. ASSUME NEW i \in CityIds', HasGeom(i)', CityAreas PROVE rows'[i].area = TRUE
  <2>1. i \in Ids
    BY <1>3 DEF SitesKeep, CityIds, HasGeom
  <2>2. i \in CityIds /\ HasGeom(i)
    BY <1>2, <1>3, <2>1 DEF CityIds, HasGeom
  <2> QED
    BY <1>3, <2>1, <2>2 DEF CityAreas
<1>4. ASSUME NEW p \in Housed, Cardinality(LotsAt(p)) > 1, NEW i \in BaseOf(p)', BaseAreas
      PROVE  rows'[i].area = TRUE
  <2>1. i \in Ids' /\ rows'[i].base /\ rows'[i].address = BaseAddress[p]
    BY DEF BaseOf
  <2>2. i \in Ids
    BY <2>1 DEF SitesKeep
  <2>3. i \in BaseOf(p)
    BY <1>2, <2>1, <2>2 DEF BaseOf
  <2> QED
    BY <1>4, <2>2, <2>3 DEF BaseAreas
<1> QED
  BY <1>1, <1>3, <1>4 DEF CityAreas, BaseAreas

\* A City row has an outline if its record has, a base site always.
LEMMA RowAreas ==
    /\ \A l \in Lots : CityRow(l).area = LotOf[l].outlined
    /\ \A p \in SiteProps : \A r \in Row : Derived(p, r).area = TRUE /\ Derived(p, r).base = r.base
  BY DEF CityRow, Derived, Row

LEMMA InsertAreas == ASSUME CityInv, SitesInv, InsertCityRows PROVE CityAreas'
<1> DEFINE layer == Extract[imp.edition]
           added == nextId .. nextId + Len(layer) - 1
<1>a. RowsOK /\ ImportInv /\ imp.at = "insert"
  BY DEF CityInv, InsertCityRows
<1>1. /\ Ids' = Ids \cup added
      /\ \A i \in Ids : rows'[i] = rows[i]
      /\ \A i \in added : i - nextId + 1 \in 1..Len(layer)
                          /\ rows'[i] = CityRow(layer[i - nextId + 1])
  BY <1>a, InsertFacts
<1>2. \A n \in 1..Len(layer) : layer[n] \in Lots
  BY <1>a, LayerFacts
<1> HIDE DEF layer, added
<1>3. ASSUME NEW i \in CityIds', HasGeom(i)' PROVE rows'[i].area = TRUE
  <2>1. i \in Ids \/ i \in added
    BY <1>1 DEF CityIds
  <2>2. i \notin Ids
    <3>1. i \in Ids => i \in CityIds /\ HasGeom(i)
      BY <1>1, <1>3 DEF CityIds, HasGeom
    <3> QED
      BY <1>a, <3>1 DEF SitesInv
  <2>3. PICK l \in Lots : rows'[i] = CityRow(l)
    BY <1>1, <1>2, <2>1, <2>2
  <2>4. CityRow(l).site # {}
    BY <1>3, <2>3 DEF HasGeom
  <2>5. LotOf[l].outlined = TRUE
    <3>1. LotOf[l].outlined \in BOOLEAN
      BY ParcelConstantsOK
    <3> QED
      BY <2>4, <3>1, CityRowType
  <2> QED
    BY <2>3, <2>5, RowAreas
<1> QED
  BY <1>3 DEF CityAreas

LEMMA BuildAreas ==
    ASSUME CityInv, CityRowsMatch, CityAreas, imp.edition # 0, BuildBaseSites
    PROVE  CityAreas' /\ BaseAreas'
<1>a. DataType /\ RowsOK /\ ImportType
  BY DEF CityInv, ImportInv
<1>b. rows \in [Ids -> Row] /\ imp'.edition = imp.edition
  BY <1>a DEF RowsOK, BuildBaseSites, ImpAt, ImportType
<1>c. \A p : LotsAt(p)' = LotsAt(p)
  BY <1>b DEF Layer, LotsAt
<1>1. /\ \A i \in Ids' : i \in Ids \/ \E p \in Fresh : i = Given[p]
      /\ \A p \in Fresh : rows'[Given[p]] = Derived(p, NewBase(p))
  BY <1>a, BuildFacts
\* A row that is new or brought up to date has an outline; no other is a site of a property.
<1>2. ASSUME NEW p \in Fresh PROVE rows'[Given[p]].area = TRUE /\ rows'[Given[p]].base = TRUE
  <2>1. p \in SiteProps
    BY DEF Fresh
  <2>2. NewBase(p) \in Row /\ NewBase(p).base = TRUE
    BY <2>1, NewBaseType
  <2> QED
    BY <1>1, <2>1, <2>2, RowAreas
<1>3. ASSUME NEW i \in Ids, NEW p \in SiteProps, i \in BaseOf(p)
      PROVE  rows'[i].area = TRUE /\ rows'[i].base = TRUE
  <2>1. rows'[i] = Derived(SiteOf(i), rows[i])
    BY <1>a, <1>3, BuildFacts
  <2>2. SiteOf(i) \in SiteProps
    BY <1>3 DEF SiteOf
  <2>3. rows[i] \in Row /\ rows[i].base = TRUE
    BY <1>b, <1>3 DEF BaseOf, Row
  <2> QED
    BY <2>1, <2>2, <2>3, RowAreas
<1>4. ASSUME NEW i \in Ids, ~\E p \in SiteProps : i \in BaseOf(p) PROVE rows'[i] = rows[i]
  BY <1>a, <1>4, BuildFacts
<1>5. ASSUME NEW i \in CityIds', HasGeom(i)' PROVE rows'[i].area = TRUE
  <2>1. i \in Ids' /\ ~(rows'[i].base)
    BY DEF CityIds
  <2>2. i \in Ids
    BY <1>1, <1>2, <2>1
  <2>3. rows'[i] = rows[i]
    BY <1>3, <1>4, <2>1, <2>2
  <2> QED
    BY <1>5, <2>1, <2>2, <2>3 DEF CityAreas, CityIds, HasGeom
<1>6. ASSUME NEW p \in Housed, Cardinality(LotsAt(p)) > 1, NEW i \in BaseOf(p)'
      PROVE  rows'[i].area = TRUE
  <2>1. p \in SiteProps
    BY <1>a, <1>6, MembersAreLots
  <2>2. i \in Ids' /\ rows'[i].base /\ rows'[i].address = BaseAddress[p]
    BY DEF BaseOf
  <2>3. CASE i \notin Ids
    BY <1>1, <1>2, <2>2, <2>3
  <2>4. CASE i \in Ids
    <3>1. CASE \E q \in SiteProps : i \in BaseOf(q)
      BY <1>3, <2>4, <3>1
    <3>2. CASE ~\E q \in SiteProps : i \in BaseOf(q)
      <4>1. rows'[i] = rows[i]
        BY <1>4, <2>4, <3>2
      <4>2. i \in BaseOf(p)
        BY <2>2, <2>4, <4>1 DEF BaseOf
      <4> QED
        BY <2>1, <3>2, <4>2
    <3> QED
      BY <3>1, <3>2
  <2> QED
    BY <2>3, <2>4
<1> QED
  BY <1>c, <1>5, <1>6 DEF CityAreas, BaseAreas

LEMMA AreasMoves ==
    ASSUME CityInv, SitesInv, AreasInv, [Next]_vars, ImportMoves, ~AddParcelGeom
    PROVE  AreasInv'
<1>a. DataType /\ ImportInv /\ RowsOK
  BY DEF CityInv
<1>b. imp \in [at : ImportSteps, edition : Numbers, drop : BOOLEAN, fronts : BOOLEAN,
               todo : SUBSET Nat, ok : BOOLEAN, seen : SUBSET Numbers]
  BY <1>a DEF ImportInv, ImportType
\* Rows that stay what they are, at a later step of the same import.
<1>c. ASSUME RowsStay, imp'.edition = imp.edition, imp'.ok => imp.ok,
             ~CreateTable, ~DeleteCityRows, ~BuildBaseSites,
             imp'.ok /\ imp'.at \in Written => imp.at \in Written,
             imp'.ok /\ imp'.at \in Built => imp.at \in Built
      PROVE  AreasInv'
  <2>1. SitesKeep
    BY <1>a, <1>c, StayOK DEF RowsStay, SitesKeep
  <2>2. pointsOnly' = pointsOnly /\ \A i \in Ids : rows'[i].area = rows[i].area
    BY <1>a, <1>c, AreasStay
  <2> QED
    BY <1>c, <2>1, <2>2, KeepAreas DEF AreasInv
<1>d. UNCHANGED <<rows, nextId, rulings>> => RowsStay
  BY <1>a, IdentitySelf DEF RowsStay, RowsOK
<1>1. CASE StartImport \/ StartFrontage \/ CreateTable \/ DeleteCityRows
  <2>1. imp'.at \in {"table", "delete", "insert"} \/ (imp'.at = "front" /\ imp'.edition = 0)
    BY <1>1, <1>b DEF StartImport, StartFrontage, CreateTable, DeleteCityRows, NoImport, ImpAt
  <2> QED
    BY <2>1 DEF AreasInv, Written, Built
<1>2. CASE InsertCityRows
  <2>1. imp'.at = "zones"
    BY <1>2, <1>b DEF InsertCityRows, ImpAt
  <2> QED
    BY <1>2, <2>1, InsertAreas DEF AreasInv, Built
<1>3. CASE StartCentres \/ StartFronts
  <2>1. /\ UNCHANGED <<rows, nextId, rulings>> /\ imp'.edition = imp.edition
        /\ imp.at \in {"zones", "front"} /\ (imp'.ok => imp.ok)
        /\ \/ imp'.at = "done" /\ ~(imp'.ok)
           \/ imp.at = "zones" /\ imp'.at \in {"bases", "centres"}
           \/ imp.at = "front" /\ imp'.at = "fronts"
    BY <1>3, <1>b DEF StartCentres, StartFronts, ImportFrame
  <2>2. ~CreateTable /\ ~DeleteCityRows /\ ~BuildBaseSites
    BY <2>1 DEF CreateTable, DeleteCityRows, BuildBaseSites
  <2> QED
    BY <1>c, <1>d, <2>1, <2>2 DEF Written, Built
<1>4. CASE CentreChunk \/ FrontChunk \/ ClearFronts
  <2>1. /\ imp'.edition = imp.edition /\ imp'.ok = imp.ok
        /\ \/ imp.at = "centres" /\ imp'.at \in {"centres", "bases"}
           \/ imp.at \in {"fronts", "clear"} /\ imp'.at \in {"fronts", "clear", "done"}
    BY <1>4, <1>b DEF CentreChunk, FrontChunk, ClearFronts
  <2>2. ~CreateTable /\ ~DeleteCityRows /\ ~BuildBaseSites
    BY <2>1 DEF CreateTable, DeleteCityRows, BuildBaseSites
  <2> QED
    BY <1>a, <1>c, <1>4, <2>1, <2>2, ChunksStay DEF Written, Built
<1>5. CASE BuildBaseSites
  <2>1. /\ imp'.edition = imp.edition /\ imp'.ok = imp.ok /\ imp.at = "bases"
        /\ imp'.at \in {"front", "done"} /\ pointsOnly' = pointsOnly
    BY <1>5, <1>b DEF BuildBaseSites, ImpAt
  <2> QED
    BY <1>5, <2>1, BuildAreas DEF AreasInv, SitesInv, Written
<1>6. CASE ImportStepFails \/ PolygonRefused
  <2>1. ~(imp'.ok)
    BY <1>6, <1>b DEF ImportStepFails, PolygonRefused
  <2> QED
    BY <2>1 DEF AreasInv
<1> QED
  BY <1>1, <1>2, <1>3, <1>4, <1>5, <1>6 DEF ImportMoves

LEMMA NextAreas ==
    ASSUME CityInv, SitesInv, AreasInv, [Next]_vars
    PROVE  AreasInv'
<1>1. CASE AddParcelGeom
  BY <1>1 DEF AddParcelGeom, AreasInv
<1>2. CASE ImportMoves /\ ~AddParcelGeom
  BY <1>2, AreasMoves
<1>3. CASE ~ImportMoves /\ ~AddParcelGeom
  <2>1. SitesKeep /\ imp' = imp
    BY <1>3, OthersKeep
  <2>2. pointsOnly' = pointsOnly /\ \A i \in Ids : rows'[i].area = rows[i].area
    BY <1>3, AreasStay DEF CityInv, ImportMoves
  <2> QED
    BY <2>1, <2>2, KeepAreas DEF AreasInv
<1> QED
  BY <1>1, <1>2, <1>3

LEMMA SitesMatch == CityInv /\ SitesInv /\ AreasInv => SiteMatchesLots
<1> SUFFICES ASSUME CityInv, SitesInv, AreasInv, imp.at = "done", imp.ok, imp.edition # 0
             PROVE  /\ \A p \in Housed : Cardinality(LotsAt(p)) > 1 =>
                          \E i \in BaseOf(p) : BaseOf(p) = {i} /\ rows[i].site = LotsAt(p) /\ IsArea(i)
                    /\ \A l \in Layer : LotOf[l].outlined =>
                          \E i \in CityIds : {j \in CityIds : rows[j].site = {l}} = {i} /\ IsArea(i)
  BY DEF SiteMatchesLots, LotsAt, Layer
<1>1. CityRowsMatch /\ BasesMatch /\ RowsOK
  BY DEF SitesInv, CityInv
<1>2. (CityAreas /\ BaseAreas) \/ pointsOnly
  BY DEF AreasInv, Written, Built
<1>3. ASSUME NEW p \in Housed, Cardinality(LotsAt(p)) > 1
      PROVE  \E i \in BaseOf(p) : BaseOf(p) = {i} /\ rows[i].site = LotsAt(p) /\ IsArea(i)
  <2>1. PICK i \in BaseOf(p) : rows[i].site = LotsAt(p)
    BY <1>1, <1>3 DEF BasesMatch
  <2>2. BaseOf(p) = {i}
    BY <1>1, <2>1 DEF RowsOK, OneBaseEach, BaseOf
  <2>3. IsArea(i)
    BY <1>2, <1>3, <2>1 DEF BaseAreas, IsArea
  <2> QED
    BY <2>1, <2>2, <2>3
<1>4. ASSUME NEW l \in Layer, LotOf[l].outlined
      PROVE  \E i \in CityIds : {j \in CityIds : rows[j].site = {l}} = {i} /\ IsArea(i)
  <2>1. PICK i \in CityIds : rows[i].site = {l}
    BY <1>1, <1>4 DEF CityRowsMatch
  <2>2. \A j \in CityIds : rows[j].site = {l} => j = i
    BY <1>1, <2>1 DEF CityRowsMatch, HasGeom
  <2>3. {j \in CityIds : rows[j].site = {l}} = {i}
    BY <2>1, <2>2
  <2>4. IsArea(i)
    BY <1>2, <2>1 DEF CityAreas, HasGeom, IsArea
  <2> QED
    BY <2>3, <2>4
<1> QED
  BY <1>3, <1>4

\* SiteMatchesLots, for every layer and whatever earlier imports, failures, saves and runs of
\* step 10 left in the table: an import that ends well leaves one City row with the outline of
\* each outlined record, and one base site with the outline of the lots of that edition for each
\* property of several, unless step 10 has made points of them since the import began
\* (import_parcels.py, _run_import and build_base_site_rows; import_gis_data.py,
\* step10_add_parcel_geom).
THEOREM SiteMatchesLotsCorrect == Spec => []SiteMatchesLots
<1> DEFINE Inv == CityInv /\ SitesInv /\ AreasInv
<1>1. Init => Inv
  BY InitCity, InitSites, InitAreas
<1>2. Inv /\ [Next]_vars => Inv'
  <2> SUFFICES ASSUME CityInv, SitesInv, AreasInv, [Next]_vars
               PROVE  CityInv' /\ SitesInv' /\ AreasInv'
    OBVIOUS
  <2>1. CityInv'
    BY NextCity
  <2>2. AreasInv'
    BY NextAreas
  <2>3. CASE ImportMoves
    BY <2>1, <2>2, <2>3, SitesMoves
  <2>4. CASE ~ImportMoves
    <3>1. SitesKeep /\ imp' = imp
      BY <2>4, OthersKeep
    <3>2. SitesInv'
      BY <3>1, KeepMatch DEF SitesInv
    <3> QED
      BY <2>1, <2>2, <3>2
  <2> QED
    BY <2>3, <2>4
<1>3. Inv => SiteMatchesLots
  BY SitesMatch
<1> QED
  BY <1>1, <1>2, <1>3, PTL DEF Spec
=============================================================================
