---------------------------- MODULE LibraryFiles ----------------------------
(***************************************************************************)
(* What a library scan does to the tracks (folder_importer.py,             *)
(* library_scan/prune.py): files are added, edited, moved and removed on   *)
(* disk while a scan imports its folders, file by file, and then prunes.   *)
(* The tasks that run it are in ScanPipeline; here a scan is one scan at a *)
(* time whose folders are imported in parallel, each as often as its task  *)
(* is retried.                                                             *)
(*                                                                         *)
(* A version of a file stands for all a scan reads of it: size, time of    *)
(* the last change, duration, if it can be read, and tags.                 *)
(***************************************************************************)
EXTENDS Naturals, FiniteSets

CONSTANTS
    Paths,
    Folders,
    FolderOf,       \* the folder of each path
    Versions,
    NoFile,
    Like,           \* pairs of versions with one size and about one duration
    Changes,        \* what may happen to the files
    DuringScan,     \* it may happen while a scan runs
    PlayedInScan,   \* tracks are played while a scan runs
    OverKnown,      \* a file may take the path of a track of another file
    FilesMayFail,   \* the import of a file may raise
    FoldersMayFail, \* a folder task may be given up
    MaxChanges,     \* bound on the changes of files
    MaxScans        \* bound on the scans

ASSUME Constants ==
    /\ FolderOf \in [Paths -> Folders]
    /\ NoFile \notin Versions
    /\ Like \subseteq Versions \X Versions
    /\ \A u, v \in Versions : <<u, v>> \in Like => <<v, u>> \in Like /\ <<v, v>> \in Like
    /\ Changes \subseteq {"add", "remove", "edit", "move", "unmount"}
    /\ MaxChanges \in Nat
    /\ MaxScans \in Nat

VARIABLES
    disk,      \* the version at each path
    mounted,   \* the music folder is there
    tracks,    \* the table tracks
    nextId,    \* the next track id
    scan,      \* number of scans so far: started_at of the scan that runs
    phase,     \* "idle", "importing", "pruning"
    folder,    \* status of the folder jobs
    todo,      \* the files each import_folder has still to do
    known,     \* existing_stats, as each import_folder read them
    reading,   \* the file whose tags each import_folder has read
    failed,    \* the failed paths of the scan
    listing,   \* on_disk of prune_library
    heard,     \* the track under which each version was first played
    moved,     \* the versions that were moved since
    risked,    \* those that met the track of another file, or a failing import
    clean,     \* no file changed and no folder failed since the scan started
    changes

diskVars == <<disk, mounted, changes>>
trackVars == <<tracks, nextId>>
importVars == <<folder, todo, known, reading, failed>>
ghostVars == <<heard, moved, risked>>
vars == <<disk, mounted, tracks, nextId, scan, phase, folder, todo, known, reading, failed,
          listing, heard, moved, risked, clean, changes>>

NoId == 0

Row == [id: Nat \ {NoId}, path: Paths, stamp: Versions, tags: Versions, created: Nat]

FolderStatus == {"none", "pending", "importing", "completed", "failed"}

\* What a listing of the music folder finds.
OnDisk == IF mounted THEN {p \in Paths : disk[p] # NoFile} ELSE {}
FilesIn(f) == {p \in OnDisk : FolderOf[p] = f}

Stored == {v \in Versions : \E p \in Paths : disk[p] = v}

NoReading == [path |-> NoFile, tags |-> NoFile]

Init ==
    /\ disk \in [Paths -> Versions \cup {NoFile}]
    /\ \A p, q \in Paths : disk[p] = disk[q] => p = q \/ disk[p] = NoFile
    /\ mounted = TRUE
    /\ tracks = {}
    /\ nextId = 1
    /\ scan = 0
    /\ phase = "idle"
    /\ folder = [f \in Folders |-> "none"]
    /\ todo = [f \in Folders |-> {}]
    /\ known = [f \in Folders |-> {}]
    /\ reading = [f \in Folders |-> NoReading]
    /\ failed = {}
    /\ listing = {}
    /\ heard = [v \in Versions |-> NoId]
    /\ moved = {}
    /\ risked = {}
    /\ clean = FALSE
    /\ changes = 0

-----------------------------------------------------------------------------
(* The files, and who listens to them.                                     *)

MayChange(kind) ==
    /\ kind \in Changes
    /\ phase = "idle" \/ DuringScan
    /\ changes < MaxChanges
    /\ changes' = changes + 1
    /\ clean' = FALSE
    /\ UNCHANGED <<trackVars, scan, phase, importVars, listing>>

\* The versions whose track has the path q.
TrackAt(q) == {u \in Versions : \E t \in tracks : t.path = q /\ t.id = heard[u]}

Add(p, v) ==
    /\ MayChange("add")
    /\ mounted
    /\ disk[p] = NoFile
    /\ OverKnown \/ TrackAt(p) = {}
    /\ v \notin Stored
    /\ disk' = [disk EXCEPT ![p] = v]
    /\ risked' = risked \cup TrackAt(p)
    /\ UNCHANGED <<mounted, heard, moved>>

Remove(p) ==
    /\ MayChange("remove")
    /\ p \in OnDisk
    /\ disk' = [disk EXCEPT ![p] = NoFile]
    /\ heard' = [heard EXCEPT ![disk[p]] = NoId]
    /\ UNCHANGED <<mounted, moved, risked>>

\* The track under which v was played, if it is one of rows: a file that is
\* edited and moved before a scan has seen either is another file.
HeardAs(v, rows) == IF \E t \in rows : t.id = heard[v] THEN heard[v] ELSE NoId

\* The tags or the sound of a file are changed in place.
Edit(p, v) ==
    /\ MayChange("edit")
    /\ p \in OnDisk
    /\ v \notin Stored
    /\ disk' = [disk EXCEPT ![p] = v]
    /\ heard' = [heard EXCEPT ![disk[p]] = NoId,
                               ![v] = HeardAs(disk[p], {t \in tracks : t.path = p})]
    /\ moved' = IF disk[p] \in moved THEN moved \cup {v} ELSE moved \ {v}
    /\ risked' = IF disk[p] \in risked THEN risked \cup {v} ELSE risked
    /\ UNCHANGED mounted

Move(p, q) ==
    /\ MayChange("move")
    /\ p \in OnDisk
    /\ disk[q] = NoFile
    /\ OverKnown \/ \A t \in tracks : t.path # q
    /\ disk' = [disk EXCEPT ![q] = disk[p], ![p] = NoFile]
    /\ heard' = [heard EXCEPT ![disk[p]] =
            HeardAs(disk[p], {t \in tracks : <<t.stamp, disk[p]>> \in Like})]
    /\ moved' = moved \cup {disk[p]}
    /\ risked' = risked \cup (TrackAt(q) \ {disk[p]}) \cup
            (IF \E t \in tracks : t.path = q /\ t.id # heard[disk[p]] THEN {disk[p]} ELSE {})
    /\ UNCHANGED mounted

Unmount ==
    /\ MayChange("unmount")
    /\ mounted
    /\ mounted' = FALSE
    /\ UNCHANGED <<disk, ghostVars>>

Mount ==
    /\ ~mounted
    /\ mounted' = TRUE
    /\ clean' = FALSE
    /\ UNCHANGED <<disk, changes, trackVars, scan, phase, importVars, listing, ghostVars>>

\* Somebody plays, or likes, a track for the first time.
Listen(t) ==
    /\ t \in tracks
    /\ phase = "idle" \/ PlayedInScan
    /\ t.path \in OnDisk
    /\ disk[t.path] = t.stamp
    /\ heard[t.stamp] = NoId
    /\ heard' = [heard EXCEPT ![t.stamp] = t.id]
    /\ moved' = moved \ {t.stamp}
    /\ UNCHANGED <<diskVars, trackVars, scan, phase, importVars, listing, risked, clean>>

-----------------------------------------------------------------------------
(* The import of the folders.                                              *)

\* trigger_library_scan, when there is audio.
StartScan ==
    /\ phase = "idle"
    /\ scan < MaxScans
    /\ OnDisk # {}
    /\ scan' = scan + 1
    /\ phase' = "importing"
    /\ folder' = [f \in Folders |-> IF FilesIn(f) = {} THEN "none" ELSE "pending"]
    /\ failed' = {}
    /\ clean' = TRUE
    /\ UNCHANGED <<diskVars, trackVars, todo, known, reading, listing, ghostVars>>

\* import_folder lists the folder and reads what is known of its files.  A
\* folder that is gone is an empty one here, or one whose task raises: that
\* leaves it pending, or FailFolder ends it.
BeginFolder(f) ==
    /\ folder[f] = "pending"
    /\ folder' = [folder EXCEPT ![f] = "importing"]
    /\ todo' = [todo EXCEPT ![f] = FilesIn(f)]
    /\ known' = [known EXCEPT ![f] = {t \in tracks : t.path \in FilesIn(f)}]
    /\ reading' = [reading EXCEPT ![f] = NoReading]
    /\ failed' = {p \in failed : FolderOf[p] # f}
    /\ UNCHANGED <<diskVars, trackVars, scan, phase, listing, ghostVars, clean>>

\* Mistake: a file that has a track is not looked at again.
FileIsNew(f, p) == \A t \in known[f] : t.path # p

\* _file_changed
FileChanged(f, p) == \A t \in known[f] : t.path = p => t.stamp # disk[p]

\* A file that is as it was.
SkipFile(f, p) ==
    /\ folder[f] = "importing"
    /\ reading[f] = NoReading
    /\ p \in todo[f] \cap OnDisk
    /\ ~FileChanged(f, p)
    /\ todo' = [todo EXCEPT ![f] = @ \ {p}]
    /\ UNCHANGED <<diskVars, trackVars, scan, phase, folder, known, reading, failed,
                   listing, ghostVars, clean>>

\* The import of a file raises, as it must when the file is gone: its path is
\* noted, its track is as it was, and the folder goes on.  What raises after
\* the track is stored leaves it stored, and is StoreFile.
FailFile(f, p) ==
    /\ folder[f] = "importing"
    /\ reading[f] = NoReading \/ reading[f].path = p
    /\ p \in todo[f]
    /\ p \in OnDisk => FilesMayFail /\ FileChanged(f, p)
    /\ todo' = [todo EXCEPT ![f] = @ \ {p}]
    /\ reading' = [reading EXCEPT ![f] = NoReading]
    /\ failed' = failed \cup {p}
    /\ UNCHANGED <<diskVars, trackVars, scan, phase, folder, known, listing, ghostVars, clean>>

\* Mistake: a file that is gone by now is read all the same.
ReadTagsOfAny(f, p) ==
    /\ folder[f] = "importing"
    /\ reading[f] = NoReading
    /\ p \in todo[f]
    /\ reading' = [reading EXCEPT ![f] = [path |-> p, tags |-> disk[p]]]
    /\ UNCHANGED <<diskVars, trackVars, scan, phase, folder, todo, known, failed,
                   listing, ghostVars, clean>>

\* _build_track_record reads the tags first ...
ReadTags(f, p) ==
    /\ folder[f] = "importing"
    /\ reading[f] = NoReading
    /\ p \in todo[f] \cap OnDisk
    /\ FileChanged(f, p)
    /\ reading' = [reading EXCEPT ![f] = [path |-> p, tags |-> disk[p]]]
    /\ UNCHANGED <<diskVars, trackVars, scan, phase, folder, todo, known, failed,
                   listing, ghostVars, clean>>

\* upsert_tracks_batch: a path has one track, which keeps its id.
Upsert(p, stamp, tags) ==
    IF \E t \in tracks : t.path = p
    THEN /\ tracks' = {IF t.path = p THEN [t EXCEPT !.stamp = stamp, !.tags = tags] ELSE t : t \in tracks}
         /\ UNCHANGED nextId
    ELSE /\ tracks' = tracks \cup
                {[id |-> nextId, path |-> p, stamp |-> stamp, tags |-> tags, created |-> scan]}
         /\ nextId' = nextId + 1

\* ... then size and time, and the track is stored and committed.
StoreFile(f) ==
    LET p == reading[f].path IN
    /\ folder[f] = "importing"
    /\ reading[f] # NoReading
    /\ p \in OnDisk
    /\ Upsert(p, disk[p], reading[f].tags)
    /\ todo' = [todo EXCEPT ![f] = @ \ {p}]
    /\ reading' = [reading EXCEPT ![f] = NoReading]
    /\ UNCHANGED <<diskVars, scan, phase, folder, known, failed, listing, ghostVars, clean>>

\* _finish_folder
FolderDone(f) ==
    /\ folder[f] = "importing"
    /\ todo[f] = {}
    /\ folder' = [folder EXCEPT ![f] = "completed"]
    /\ UNCHANGED <<diskVars, trackVars, scan, phase, todo, known, reading, failed, listing, ghostVars, clean>>

\* The task raises or its worker is killed, and it runs again ...
RetryFolder(f) ==
    /\ folder[f] = "importing"
    /\ folder' = [folder EXCEPT ![f] = "pending"]
    /\ UNCHANGED <<diskVars, trackVars, scan, phase, todo, known, reading, failed, listing, ghostVars, clean>>

\* ... until it is given up.
FailFolder(f) ==
    /\ FoldersMayFail
    /\ folder[f] \in {"pending", "importing"}
    /\ folder' = [folder EXCEPT ![f] = "failed"]
    /\ clean' = FALSE
    /\ UNCHANGED <<diskVars, trackVars, scan, phase, todo, known, reading, failed, listing, ghostVars>>

-----------------------------------------------------------------------------
(* finalize_scan and prune_library                                         *)

FoldersFinished == \A f \in Folders : folder[f] \in {"none", "completed", "failed"}

\* A folder failed: no prune.
FinalizeFailed ==
    /\ phase = "importing"
    /\ FoldersFinished
    /\ \E f \in Folders : folder[f] = "failed"
    /\ phase' = "idle"
    /\ UNCHANGED <<diskVars, trackVars, scan, importVars, listing, ghostVars, clean>>

\* Mistake: an empty folder is pruned as any other.
ListLibraryOrNothing ==
    /\ phase = "importing"
    /\ FoldersFinished
    /\ \A f \in Folders : folder[f] # "failed"
    /\ listing' = OnDisk
    /\ phase' = "pruning"
    /\ UNCHANGED <<diskVars, trackVars, scan, importVars, ghostVars, clean>>

\* The listing of the whole folder.  Nothing there: nothing is pruned.
ListLibrary ==
    /\ phase = "importing"
    /\ FoldersFinished
    /\ \A f \in Folders : folder[f] # "failed"
    /\ listing' = OnDisk
    /\ phase' = IF OnDisk = {} THEN "idle" ELSE "pruning"
    /\ UNCHANGED <<diskVars, trackVars, scan, importVars, ghostVars, clean>>

Missing == {t \in tracks : t.path \notin listing}

\* Mistake: every file that has a track counts as new.
AnyFirstSeen == {t \in tracks : t.path \in listing}

\* Mistake: what this scan saw first counts as seen before.
SeenLater == {t \in tracks : t.path \in listing /\ t.created > scan}

\* Tracks whose file was first seen by this scan.
FirstSeen == {t \in tracks : t.path \in listing /\ t.created >= scan}

\* A size and a duration like those of t: a track without a duration has none.
Candidates(t, pool) == {u \in pool : <<t.stamp, u.stamp>> \in Like}

\* match_moved_tracks
MatchMovedTracks(missing, new) ==
    {pair \in missing \X new :
        /\ Candidates(pair[1], new) = {pair[2]}
        /\ Candidates(pair[2], missing) = {pair[1]}}

\* What becomes of a row: the old one of a pair takes the new one's path, size
\* and time, and keeps the rest.
Rehomed(t, pairs) ==
    IF \E u \in tracks : <<t, u>> \in pairs
    THEN LET u == CHOOSE u \in tracks : <<t, u>> \in pairs
         IN  [t EXCEPT !.path = u.path, !.stamp = u.stamp]
    ELSE t

\* What this scan could not import, and what is still stored in its place.
Unread == {v \in Versions : \E p \in failed :
              disk[p] = v \/ \E t \in tracks : t.path = p /\ t.stamp = v}

\* Mistake: the duplicates that the import made of moved files stay.
PruneKeepsDuplicates ==
    LET pairs == MatchMovedTracks(Missing, FirstSeen)
        gone == Missing \ {pair[1] : pair \in pairs}
    IN
    /\ phase = "pruning"
    /\ tracks' = {Rehomed(t, pairs) : t \in tracks \ gone}
    /\ phase' = "idle"
    /\ risked' = risked \cup Unread
    /\ UNCHANGED <<diskVars, nextId, scan, importVars, listing, heard, moved, clean>>

\* One transaction.
PruneLibrary ==
    LET pairs == MatchMovedTracks(Missing, FirstSeen)
        olds == {pair[1] : pair \in pairs}
        news == {pair[2] : pair \in pairs}
        gone == Missing \ olds
    IN
    /\ phase = "pruning"
    /\ tracks' = {Rehomed(t, pairs) : t \in (tracks \ news) \ gone}
    /\ phase' = "idle"
    /\ risked' = risked \cup Unread
    /\ UNCHANGED <<diskVars, nextId, scan, importVars, listing, heard, moved, clean>>

\* The worker is killed before the commit: finalize_scan runs again.
RetryPrune ==
    /\ phase = "pruning"
    /\ phase' = "importing"
    /\ UNCHANGED <<diskVars, trackVars, scan, importVars, listing, ghostVars, clean>>

-----------------------------------------------------------------------------

ChangeFiles ==
    \/ \E p \in Paths : Remove(p)
    \/ \E p \in Paths, v \in Versions : Add(p, v) \/ Edit(p, v)
    \/ \E p, q \in Paths : Move(p, q)
    \/ Unmount \/ Mount

ImportFolder(f) ==
    \/ BeginFolder(f)
    \/ \E p \in Paths : SkipFile(f, p) \/ ReadTags(f, p) \/ FailFile(f, p)
    \/ StoreFile(f) \/ FolderDone(f) \/ RetryFolder(f) \/ FailFolder(f)

FinalizeScan == FinalizeFailed \/ ListLibrary \/ PruneLibrary \/ RetryPrune

Next ==
    \/ ChangeFiles
    \/ \E t \in tracks : Listen(t)
    \/ StartScan
    \/ \E f \in Folders : ImportFolder(f)
    \/ FinalizeScan

Spec == Init /\ [][Next]_vars
-----------------------------------------------------------------------------
(* Properties                                                              *)

TypeOK ==
    /\ disk \in [Paths -> Versions \cup {NoFile}]
    /\ mounted \in BOOLEAN
    /\ tracks \subseteq Row
    /\ nextId \in Nat \ {NoId}
    /\ scan \in Nat
    /\ phase \in {"idle", "importing", "pruning"}
    /\ folder \in [Folders -> FolderStatus]
    /\ todo \in [Folders -> SUBSET Paths]
    /\ known \in [Folders -> SUBSET Row]
    /\ reading \in [Folders -> [path: Paths, tags: Versions] \cup {NoReading}]
    /\ failed \subseteq Paths
    /\ listing \subseteq Paths
    /\ heard \in [Versions -> Nat]
    /\ moved \subseteq Versions
    /\ risked \subseteq Versions
    /\ clean \in BOOLEAN
    /\ changes \in Nat

\* Ids and paths are unique, however moves and retries follow each other: the
\* UPDATE of prune_library never meets the path of another track, which would
\* make the prune raise.
OneTrackPerPath ==
    \A t, u \in tracks : t.id = u.id \/ t.path = u.path => t = u

\* No other version is like v.
Alone(v) == \A u \in Versions : <<u, v>> \in Like => u = v

\* v can be told from every other version: it has a duration, of its own.
Distinct(v) == <<v, v>> \in Like /\ Alone(v)

\* "Files that were moved or renamed are matched to their old track row and
\* keep its id, so listening history and likes/bans survive" (prune.py): a
\* file that was played, is still there and cannot be taken for another has
\* its track.  The code does not keep it.
HistorySurvives ==
    \A v \in Versions :
        heard[v] # NoId /\ Distinct(v) => \E t \in tracks : t.id = heard[v]

\* What it keeps, and that "an unmounted or empty library never wipes the
\* database" (prune.py): a file that was played and is still there has its
\* track if it stayed in its place; and after a move if it cannot be taken for
\* another, neither took the path of the other's track, and the scans could
\* import it and what was in its place.
HistoryKept ==
    \A v \in Versions :
        heard[v] # NoId /\ (v \notin moved \/ (Distinct(v) /\ v \notin risked)) =>
            \E t \in tracks : t.id = heard[v]

\* After a scan during which nothing changed, the tracks are the files on
\* disk, with the tags they have ("Reconcile the tracks table with the audio
\* files on disk after a scan", prune.py), but for the files whose import
\* failed, which have their old track or none, and for the tags of a file that
\* has the size and the duration of another.
Reconciled ==
    phase = "idle" /\ clean =>
        /\ {t.path : t \in tracks} \subseteq OnDisk
        /\ {<<t.path, t.stamp>> : t \in {u \in tracks : u.path \notin failed}} =
               {<<p, disk[p]>> : p \in OnDisk \ failed}
        /\ \A t \in tracks : Alone(t.stamp) => t.tags = t.stamp

\* ... and then too: what is shown of a track are the tags of its file.
TagsAsOnDisk ==
    phase = "idle" /\ clean => \A t \in tracks : t.tags = t.stamp

\* ... and the history of a file that could not be taken for another, that did
\* not take the path of another track, and that was imported, is that of the
\* track at its path.
HistoryFollows ==
    phase = "idle" /\ clean =>
        \A v \in Versions : heard[v] # NoId /\ Distinct(v) /\ v \notin risked =>
            \E t \in tracks : t.id = heard[v] /\ disk[t.path] = v
=============================================================================
