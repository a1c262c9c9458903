------------------------------- MODULE CityFiles -------------------------------
(***************************************************************************)
(* The City's open data on disk: the staging files that                    *)
(* download_gis_data.py writes and the shapefile folders that              *)
(* update_gis_data.py replaces.  Both are scripts a person or a timer      *)
(* starts; either may fail at any step, and may be killed.                 *)
(*                                                                         *)
(* Of a file or a folder the model keeps which edition of the City's data  *)
(* it holds.  A file may also be missing, cut short, or well formed and     *)
(* without a single feature.                                               *)
(***************************************************************************)
EXTENDS Naturals, Sequences

CONSTANTS
    MaxEdition,  \* bound: editions the City publishes
    Plans        \* bound: how often each kind of event happens in a behaviour

\* The scripts, by name, what people enter, and the steps that fail or are killed.
Kinds == {"publish", "download", "update", "gis", "derive", "hydrants", "learn", "place",
          "parcels", "frontage", "card", "entrance", "export", "ortho", "cadastral", "finalize",
          "fault"}

ASSUME FilesConstantsOK ==
    /\ MaxEdition \in Nat \ {0}
    /\ Plans \subseteq [Kinds -> Nat]

VARIABLES
    published,  \* the edition the City publishes now
    staging,    \* [Datasets -> Contents]: data/staging
    folder,     \* [Folders -> Contents]: data/Property_Information and its neighbour
    backup,     \* [Folders -> Contents]: the folders named *_backup
    stamp,      \* is the last success in last_gis_update.timestamp under six days old?
    dl,         \* download_gis_data.py: the dataset it is at, 0 when it does not run
    upd,        \* update_gis_data.py: the step it is at, the editions it fetched, the folders it
                \* found, and those that putting back would not make whole again (history)
    left        \* [Kinds -> Nat]: what the plan of this behaviour has left

files == <<staging, folder, backup, stamp, dl, upd>>
fileVars == <<published, files, left>>

Editions == 1..MaxEdition
Absent == MaxEdition + 1
Torn == MaxEdition + 2
Void == MaxEdition + 3
Contents == Editions \cup {Absent, Torn, Void}

Datasets == <<"roads", "names", "boundary", "zones">>   \* in the order of download_all
Folders == <<"addresses", "zones">>                     \* in the order of main

Step(name, f) == <<name, f>>
idle == Step("idle", 0)
failed == Step("failed", 0)
marking == Step("mark", 0)
NotUpdating == [at |-> idle, from |-> <<0, 0>>, before |-> <<Absent, Absent>>, loose |-> {}]

FilesInit ==
    /\ published \in Editions
    /\ \E got \in {Absent, published} : staging = [d \in 1..4 |-> got]
    /\ folder = [f \in 1..2 |-> 1]
    /\ backup = [f \in 1..2 |-> Absent]
    /\ stamp = FALSE
    /\ dl = 0
    /\ upd = NotUpdating
    /\ left \in Plans

Spend(kind) == left[kind] > 0 /\ left' = [left EXCEPT ![kind] = @ - 1]

\* The City publishes a new edition of everything.
Publish ==
    /\ published < MaxEdition
    /\ Spend("publish")
    /\ published' = published + 1
    /\ UNCHANGED files

-----------------------------------------------------------------------------
(***************************************************************************)
(* download_gis_data.py: four datasets, one file each, one after another.  *)
(***************************************************************************)
StartDownload ==
    /\ dl = 0
    /\ Spend("download")
    /\ dl' = 1
    /\ UNCHANGED <<published, staging, folder, backup, stamp, upd>>

\* Plausible bug: one dataset too many.
Bug_NextDataset == dl + 1
NextDataset == IF dl = Len(Datasets) THEN 0 ELSE dl + 1

\* The pages of a dataset are fetched, then its file is written.  A service that answers
\* with no features ends the paging like a last page does.
DownloadDataset(got) ==
    /\ dl # 0
    /\ got \in {published, Void}
    /\ staging' = [staging EXCEPT ![dl] = got]
    /\ dl' = NextDataset
    /\ UNCHANGED <<published, folder, backup, stamp, upd, left>>

\* Three attempts fail (fetch_with_retry) and the script ends, or it is killed: before the
\* file is opened, or while it is written.
DownloadEnds(half) ==
    /\ dl # 0
    /\ Spend("fault")
    /\ staging' = IF half THEN [staging EXCEPT ![dl] = Torn] ELSE staging
    /\ dl' = 0
    /\ UNCHANGED <<published, folder, backup, stamp, upd>>

-----------------------------------------------------------------------------
(***************************************************************************)
(* update_gis_data.py: two archives are fetched, each folder is set aside  *)
(* and replaced, the copies are dropped; any exception puts them back.     *)
(***************************************************************************)
At(step) == upd' = [upd EXCEPT !.at = step]

\* Not again within six days of a success.
StartUpdate ==
    /\ upd.at \in {idle, failed}
    /\ ~stamp
    /\ Spend("update")
    /\ upd' = [at |-> Step("fetch", 1), from |-> <<0, 0>>, before |-> folder,
               loose |-> {f \in 1..2 : backup[f] # Absent}]
    /\ UNCHANGED <<published, staging, folder, backup, stamp, dl>>

\* One archive after the other, before a folder is touched.
Fetch(f) ==
    /\ upd.at = Step("fetch", f)
    /\ upd' = [upd EXCEPT !.from[f] = published,
                          !.at = IF f = 1 THEN Step("fetch", 2) ELSE Step("copy", 1)]
    /\ UNCHANGED <<published, staging, folder, backup, stamp, dl, left>>

\* An older copy is dropped and the folder is copied; of a missing folder an older copy stays.
SetAside(f) ==
    /\ upd.at = Step("copy", f)
    /\ IF folder[f] = Absent
       THEN UNCHANGED backup /\ At(Step("unpack", f))
       ELSE /\ backup' = [backup EXCEPT ![f] = folder[f]]
            /\ upd' = [upd EXCEPT !.at = Step("unpack", f), !.loose = @ \ {f}]
    /\ UNCHANGED <<published, staging, folder, stamp, dl, left>>

\* The folder is wiped and the archive unpacked into it.
Unpack(f) ==
    /\ upd.at = Step("unpack", f)
    /\ folder' = [folder EXCEPT ![f] = upd.from[f]]
    /\ At(IF f = 1 THEN Step("copy", 2) ELSE Step("wind", 1))
    /\ UNCHANGED <<published, staging, backup, stamp, dl, left>>

\* The outlines are read and saved again in place.
FixWinding(f) ==
    /\ upd.at = Step("wind", f)
    /\ At(IF f = 1 THEN Step("wind", 2) ELSE Step("clean", 1))
    /\ UNCHANGED <<published, staging, folder, backup, stamp, dl, left>>

\* An exception while they are saved is logged and forgotten.
WindingFails(f) ==
    /\ upd.at = Step("wind", f)
    /\ Spend("fault")
    /\ folder' = [folder EXCEPT ![f] = Torn]
    /\ At(IF f = 1 THEN Step("wind", 2) ELSE Step("clean", 1))
    /\ UNCHANGED <<published, staging, backup, stamp, dl>>

DropCopy(f) ==
    /\ upd.at = Step("clean", f)
    /\ backup' = [backup EXCEPT ![f] = Absent]
    /\ upd' = [upd EXCEPT !.at = IF f = 1 THEN Step("clean", 2) ELSE marking,
                          !.loose = @ \cup {f}]
    /\ UNCHANGED <<published, staging, folder, stamp, dl, left>>

MarkSuccess ==
    /\ upd.at = marking
    /\ stamp' = TRUE
    /\ upd' = [upd EXCEPT !.at = idle]
    /\ UNCHANGED <<published, staging, folder, backup, dl, left>>

\* Plausible bug: the first folder alone is put back.
Bug_Reverted(f) == IF f = 1 /\ backup[f] # Absent THEN backup[f] ELSE folder[f]
Reverted(f) == IF backup[f] # Absent THEN backup[f] ELSE folder[f]

\* What a step leaves that does not come to its end: nothing, the folder it is at wiped or cut
\* short, the copy of that folder cut short, or an older copy dropped and no other begun.
Parts == {"none", "folder", "copy", "gone"}
CutShort(f, part) ==
    \/ /\ part = "none"
       /\ UNCHANGED <<folder, backup>>
    \/ /\ part = "folder"
       /\ \/ upd.at \in {Step("unpack", f), Step("wind", f)}
          \/ upd.at = Step("revert", f) /\ backup[f] # Absent
       /\ \E rest \in {Torn} \cup IF upd.at[1] = "wind" THEN {} ELSE {Absent} :
             folder' = [folder EXCEPT ![f] = rest]
       /\ UNCHANGED backup
    \/ /\ part = "copy"
       /\ \/ upd.at = Step("copy", f) /\ folder[f] # Absent
          \/ upd.at \in {Step("clean", f), Step("revert", f)} /\ backup[f] # Absent
       /\ folder' = IF upd.at[1] = "revert" THEN [folder EXCEPT ![f] = Reverted(f)] ELSE folder
       /\ backup' = [backup EXCEPT ![f] = Torn]
    \/ /\ part = "gone"
       /\ upd.at = Step("copy", f) /\ folder[f] # Absent
       /\ backup' = [backup EXCEPT ![f] = Absent]
       /\ UNCHANGED folder

\* An archive cannot be fetched, a folder not copied or unpacked, a copy not dropped.
UpdateFails(f, part) ==
    /\ upd.at[1] \in {"fetch", "copy", "unpack", "clean"}
    /\ Spend("fault")
    /\ CutShort(f, part)
    /\ upd' = [upd EXCEPT !.at = Step("revert", 1),
                          !.loose = CASE part = "copy" -> @ \cup {f}
                                      [] part = "gone" -> @ \ {f}
                                      [] OTHER -> @]
    /\ UNCHANGED <<published, staging, stamp, dl>>

\* The except clause: a folder that has a copy is wiped, copied back, and the copy dropped.
Revert(f) ==
    /\ upd.at = Step("revert", f)
    /\ folder' = [folder EXCEPT ![f] = Reverted(f)]
    /\ backup' = [backup EXCEPT ![f] = Absent]
    /\ At(IF f = 1 THEN Step("revert", 2) ELSE failed)
    /\ UNCHANGED <<published, staging, stamp, dl, left>>

\* An exception in there ends the script.
RevertFails(f, part) ==
    /\ upd.at = Step("revert", f) /\ backup[f] # Absent
    /\ Spend("fault")
    /\ CutShort(f, part)
    /\ upd' = [upd EXCEPT !.at = failed,
                          !.loose = @ \cup {g \in f..2 : g = f => part # "copy"}]
    /\ UNCHANGED <<published, staging, stamp, dl>>

\* Killed between two steps, or in the middle of the one it is at.
UpdateKilled(f, part) ==
    /\ upd.at \notin {idle, failed}
    /\ Spend("fault")
    /\ CutShort(f, part)
    /\ upd' = NotUpdating
    /\ UNCHANGED <<published, staging, stamp, dl>>

WeekPasses ==
    /\ stamp
    /\ stamp' = FALSE
    /\ UNCHANGED <<published, staging, folder, backup, dl, upd, left>>

FilesNext ==
    \/ Publish
    \/ StartDownload
    \/ \E got \in {published, Void} : DownloadDataset(got)
    \/ \E half \in BOOLEAN : DownloadEnds(half)
    \/ StartUpdate
    \/ \E f \in 1..2 :
         \/ Fetch(f)
         \/ SetAside(f)
         \/ Unpack(f)
         \/ FixWinding(f)
         \/ WindingFails(f)
         \/ DropCopy(f)
         \/ Revert(f)
         \/ \E part \in Parts : UpdateFails(f, part) \/ RevertFails(f, part) \/ UpdateKilled(f, part)
    \/ MarkSuccess
    \/ WeekPasses

FilesTypeOK ==
    /\ published \in Editions
    /\ staging \in [1..4 -> Contents]
    /\ folder \in [1..2 -> Contents] /\ backup \in [1..2 -> Contents]
    /\ stamp \in BOOLEAN
    /\ dl \in 0..4
    /\ upd.from \in [1..2 -> {0} \cup Editions]
    /\ left \in [Kinds -> Nat]

\* An update that fails leaves each folder as it found it, whichever step failed and however far
\* the other folder had got.  Excepted is a folder whose copy was not this run's or not whole
\* when it was put back: one that the run found and had not yet replaced, one that it failed to
\* make or to drop and left half done, one already dropped; and one whose putting back failed.
FailedUpdateReverts ==
    upd.at = failed => \A f \in 1..2 : f \in upd.loose \/ folder[f] = upd.before[f]
=============================================================================
