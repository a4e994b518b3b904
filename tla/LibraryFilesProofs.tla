-------------------------- MODULE LibraryFilesProofs --------------------------
(***************************************************************************)
(* For any library: ids and paths of tracks are unique through imports,    *)
(* retries and prunes; a file that stays in its place keeps its track,     *)
(* whatever else happens to the files, folders that fail and unmounts      *)
(* during scans included; an undisturbed scan leaves a track for each file *)
(* and no other; and a file that is moved between undisturbed scans keeps  *)
(* its track.                                                              *)
(***************************************************************************)
EXTENDS LibraryFiles, TLAPS

\* match_moved_tracks pairs a track with at most one other, on either side: no
\* row is deleted twice, and no path given to two rows.
LEMMA PairsOneToOne ==
    ASSUME NEW missing, NEW new, NEW p \in MatchMovedTracks(missing, new),
           NEW q \in MatchMovedTracks(missing, new)
    PROVE  /\ p[1] \in missing /\ p[2] \in new /\ p = <<p[1], p[2]>>
           /\ p[1] = q[1] \/ p[2] = q[2] => p = q
<1>1. PICK a \in missing, b \in new :
        p = <<a, b>> /\ Candidates(a, new) = {b} /\ Candidates(b, missing) = {a}
  BY DEF MatchMovedTracks
<1>2. PICK c \in missing, d \in new :
        q = <<c, d>> /\ Candidates(c, new) = {d} /\ Candidates(d, missing) = {c}
  BY DEF MatchMovedTracks
<1> QED BY <1>1, <1>2

IdsBelowNext == \A t \in tracks : t.id < nextId

IInv == TypeOK /\ IdsBelowNext /\ OneTrackPerPath

LEMMA InitInv == Init => IInv
<1> SUFFICES ASSUME Init PROVE IInv
  OBVIOUS
<1>1. tracks = {} /\ nextId = 1
  BY DEF Init
<1>2. mounted \in BOOLEAN /\ clean \in BOOLEAN
  BY DEF Init
<1>3. TypeOK
  BY <1>1, <1>2 DEF Init, TypeOK, FolderStatus, NoId
<1> QED BY <1>1, <1>3 DEF IInv, IdsBelowNext, OneTrackPerPath

LEMMA TracksKept ==
    ASSUME IInv, TypeOK', UNCHANGED <<tracks, nextId>>
    PROVE  IInv'
BY DEF IInv, IdsBelowNext, OneTrackPerPath

LEMMA HeardAsType == ASSUME TypeOK, NEW v \in Versions, NEW rows PROVE HeardAs(v, rows) \in Nat
BY DEF HeardAs, TypeOK, NoId

LEMMA OnDiskType == ASSUME TypeOK, NEW p \in OnDisk PROVE p \in Paths /\ disk[p] \in Versions
BY DEF OnDisk, TypeOK

LEMMA FilesInType == ASSUME TypeOK, NEW f PROVE FilesIn(f) \subseteq Paths
BY DEF FilesIn, OnDisk

LEMMA ChangeInv == IInv /\ ChangeFiles => IInv'
<1> SUFFICES ASSUME IInv, ChangeFiles PROVE IInv'
  OBVIOUS
<1> USE DEF trackVars, importVars, ghostVars, diskVars
<1>t. TypeOK
  BY DEF IInv
<1>1. /\ UNCHANGED <<tracks, nextId, scan, phase, folder, todo, known, reading, failed, listing>>
      /\ changes' \in Nat /\ clean' = FALSE
  <2>1. /\ UNCHANGED <<tracks, nextId, scan, phase, folder, todo, known, reading, failed, listing>>
        /\ clean' = FALSE
    BY DEF ChangeFiles, Remove, Add, Edit, Move, Unmount, Mount, MayChange
  <2>2. changes' = changes \/ changes' = changes + 1
    BY DEF ChangeFiles, Remove, Add, Edit, Move, Unmount, Mount, MayChange
  <2> QED BY <1>t, <2>1, <2>2 DEF TypeOK
<1>2. mounted' \in BOOLEAN
  <2>1. mounted' \in {mounted, TRUE, FALSE}
    BY DEF ChangeFiles, Remove, Add, Edit, Move, Unmount, Mount
  <2> QED BY <1>t, <2>1 DEF TypeOK
<1>3. /\ disk' \in [Paths -> Versions \cup {NoFile}]
      /\ heard' \in [Versions -> Nat]
      /\ moved' \subseteq Versions
      /\ risked' \subseteq Versions
  <2>0. \A q : TrackAt(q) \subseteq Versions
    BY DEF TrackAt
  <2>1. CASE \E p \in Paths : Remove(p)
    BY <1>t, <2>1, OnDiskType DEF Remove, TypeOK, NoId
  <2>2. CASE \E p \in Paths, v \in Versions : Add(p, v)
    BY <1>t, <2>0, <2>2 DEF Add, TypeOK
  <2>3. CASE \E p \in Paths, v \in Versions : Edit(p, v)
    <3>1. PICK p \in Paths, v \in Versions : Edit(p, v)
      BY <2>3
    <3>2. disk[p] \in Versions
      BY <1>t, <3>1, OnDiskType DEF Edit
    <3>3. HeardAs(disk[p], {t \in tracks : t.path = p}) \in Nat
      BY <1>t, <3>2, HeardAsType
    <3> QED BY <1>t, <3>1, <3>2, <3>3 DEF Edit, TypeOK, NoId
  <2>4. CASE \E p, q \in Paths : Move(p, q)
    <3>1. PICK p \in Paths, q \in Paths : Move(p, q)
      BY <2>4
    <3>2. disk[p] \in Versions
      BY <1>t, <3>1, OnDiskType DEF Move
    <3>3. HeardAs(disk[p], {t \in tracks : <<t.stamp, disk[p]>> \in Like}) \in Nat
      BY <1>t, <3>2, HeardAsType
    <3> QED BY <1>t, <2>0, <3>1, <3>2, <3>3 DEF Move, TypeOK, NoId
  <2>5. CASE Unmount \/ Mount
    BY <1>t, <2>5 DEF Unmount, Mount, TypeOK
  <2> QED BY <2>1, <2>2, <2>3, <2>4, <2>5 DEF ChangeFiles
<1>4. TypeOK'
  BY <1>t, <1>1, <1>2, <1>3 DEF TypeOK
<1> QED BY <1>1, <1>4, TracksKept

LEMMA ListenInv == ASSUME IInv, NEW t \in tracks, Listen(t) PROVE IInv'
<1> USE DEF trackVars, importVars, diskVars
<1>1. t.stamp \in Versions /\ t.id \in Nat
  BY DEF IInv, TypeOK, Row
<1>2. TypeOK'
  BY <1>1 DEF Listen, IInv, TypeOK
<1>3. UNCHANGED <<tracks, nextId>>
  BY DEF Listen
<1> QED BY <1>2, <1>3, TracksKept

LEMMA StartInv == IInv /\ StartScan => IInv'
<1> SUFFICES ASSUME IInv, StartScan PROVE IInv'
  OBVIOUS
<1> USE DEF trackVars, importVars, diskVars, ghostVars
<1>1. folder' \in [Folders -> FolderStatus]
  BY DEF StartScan, FolderStatus
<1>2. TypeOK'
  BY <1>1 DEF StartScan, IInv, TypeOK
<1>3. UNCHANGED <<tracks, nextId>>
  BY DEF StartScan
<1> QED BY <1>2, <1>3, TracksKept

\* upsert_tracks_batch keeps ids and paths unique.
LEMMA UpsertInv ==
    ASSUME IInv, NEW p \in Paths, NEW stamp \in Versions, NEW tags \in Versions,
           Upsert(p, stamp, tags)
    PROVE  /\ tracks' \subseteq Row /\ nextId' \in Nat \ {NoId}
           /\ \A t \in tracks' : t.id < nextId'
           /\ \A t, u \in tracks' : t.id = u.id \/ t.path = u.path => t = u
<1>1. /\ tracks \subseteq Row /\ nextId \in Nat \ {NoId} /\ scan \in Nat
      /\ \A t \in tracks : t.id < nextId
      /\ \A t, u \in tracks : t.id = u.id \/ t.path = u.path => t = u
  BY DEF IInv, TypeOK, IdsBelowNext, OneTrackPerPath
<1>2. CASE \E t \in tracks : t.path = p
  <2> DEFINE New(t) == IF t.path = p THEN [t EXCEPT !.stamp = stamp, !.tags = tags] ELSE t
  <2>1. tracks' = {New(t) : t \in tracks} /\ nextId' = nextId
    BY <1>2 DEF Upsert
  <2>2. \A t \in tracks : New(t) \in Row /\ New(t).id = t.id /\ New(t).path = t.path
    BY <1>1 DEF Row
  <2> HIDE DEF New
  <2>3. ASSUME NEW a \in tracks', NEW b \in tracks', a.id = b.id \/ a.path = b.path PROVE a = b
    <3>1. PICK t \in tracks : a = New(t)
      BY <2>1
    <3>2. PICK u \in tracks : b = New(u)
      BY <2>1
    <3> QED BY <1>1, <2>2, <2>3, <3>1, <3>2
  <2>4. \A a \in tracks' : a \in Row /\ a.id < nextId'
    BY <1>1, <2>1, <2>2
  <2> QED BY <1>1, <2>1, <2>3, <2>4
<1>3. CASE ~\E t \in tracks : t.path = p
  <2> DEFINE r == [id |-> nextId, path |-> p, stamp |-> stamp, tags |-> tags, created |-> scan]
  <2>1. tracks' = tracks \cup {r} /\ nextId' = nextId + 1
    BY <1>3 DEF Upsert
  <2>2. r \in Row /\ r.id = nextId /\ r.path = p
    BY <1>1 DEF Row, NoId
  <2> HIDE DEF r
  <2>3. \A t \in tracks : t.id \in Nat /\ t.id < nextId /\ t.id # nextId /\ t.path # p
    BY <1>1, <1>3 DEF Row
  <2>4. nextId' \in Nat \ {NoId}
    BY <1>1, <2>1 DEF NoId
  <2>5. \A t \in tracks' : t \in Row /\ t.id < nextId'
    BY <1>1, <2>1, <2>2, <2>3
  <2>6. \A t, u \in tracks' : t.id = u.id \/ t.path = u.path => t = u
    BY <1>1, <2>1, <2>2, <2>3
  <2> QED BY <2>4, <2>5, <2>6
<1> QED BY <1>2, <1>3

LEMMA ImportInv == ASSUME IInv, NEW f \in Folders, ImportFolder(f) PROVE IInv'
<1> USE DEF trackVars, importVars, diskVars, ghostVars
<1>t. TypeOK
  BY DEF IInv
<1>1. CASE BeginFolder(f)
  <2>1. {t \in tracks : t.path \in FilesIn(f)} \subseteq Row
    BY <1>t DEF TypeOK
  <2>2. TypeOK'
    BY <1>t, <1>1, <2>1, FilesInType DEF BeginFolder, TypeOK, FolderStatus
  <2>3. UNCHANGED <<tracks, nextId>>
    BY <1>1 DEF BeginFolder
  <2> QED BY <2>2, <2>3, TracksKept
<1>2. CASE \E p \in Paths : SkipFile(f, p)
  <2>1. TypeOK'
    BY <1>t, <1>2 DEF SkipFile, TypeOK
  <2>2. UNCHANGED <<tracks, nextId>>
    BY <1>2 DEF SkipFile
  <2> QED BY <2>1, <2>2, TracksKept
<1>3. CASE \E p \in Paths : ReadTags(f, p)
  <2>1. PICK p \in Paths : ReadTags(f, p)
    BY <1>3
  <2>2. disk[p] \in Versions
    BY <1>t, <2>1, OnDiskType DEF ReadTags
  <2>3. TypeOK'
    BY <1>t, <2>1, <2>2 DEF ReadTags, TypeOK
  <2>4. UNCHANGED <<tracks, nextId>>
    BY <2>1 DEF ReadTags
  <2> QED BY <2>3, <2>4, TracksKept
<1>4. CASE StoreFile(f)
  <2> DEFINE p == reading[f].path
  <2>1. p \in Paths /\ reading[f].tags \in Versions /\ p \in OnDisk
    BY <1>t, <1>4 DEF StoreFile, TypeOK
  <2>2. disk[p] \in Versions
    BY <1>t, <2>1, OnDiskType
  <2>3. Upsert(p, disk[p], reading[f].tags)
    BY <1>4 DEF StoreFile
  <2>4. /\ tracks' \subseteq Row /\ nextId' \in Nat \ {NoId}
        /\ \A t \in tracks' : t.id < nextId'
        /\ \A t, u \in tracks' : t.id = u.id \/ t.path = u.path => t = u
    BY <2>1, <2>2, <2>3, UpsertInv
  <2>5. TypeOK'
    BY <1>t, <1>4, <2>4 DEF StoreFile, TypeOK
  <2> QED BY <2>4, <2>5 DEF IInv, IdsBelowNext, OneTrackPerPath
<1>6. CASE \E p \in Paths : FailFile(f, p)
  <2>1. TypeOK'
    BY <1>t, <1>6 DEF FailFile, TypeOK
  <2>2. UNCHANGED <<tracks, nextId>>
    BY <1>6 DEF FailFile
  <2> QED BY <2>1, <2>2, TracksKept
<1>5. CASE FolderDone(f) \/ RetryFolder(f) \/ FailFolder(f)
  <2>1. /\ UNCHANGED <<disk, mounted, changes, tracks, nextId, scan, phase, todo, known,
                       reading, failed, listing, heard, moved, risked>>
        /\ folder' \in [Folders -> FolderStatus]
    BY <1>t, <1>5 DEF FolderDone, RetryFolder, FailFolder, TypeOK, FolderStatus
  <2>2. clean' \in BOOLEAN
    <3>1. clean' \in {clean, FALSE}
      BY <1>5 DEF FolderDone, RetryFolder, FailFolder
    <3> QED BY <1>t, <3>1 DEF TypeOK
  <2>3. TypeOK'
    BY <1>t, <2>1, <2>2 DEF TypeOK
  <2> QED BY <2>1, <2>3, TracksKept
<1> QED BY <1>1, <1>2, <1>3, <1>4, <1>5, <1>6 DEF ImportFolder

LEMMA PruneInv == IInv /\ PruneLibrary => IInv'
<1> SUFFICES ASSUME IInv, PruneLibrary PROVE IInv'
  OBVIOUS
<1> USE DEF importVars, diskVars, ghostVars
<1> DEFINE pairs == MatchMovedTracks(Missing, FirstSeen)
<1> DEFINE olds == {pair[1] : pair \in pairs}
<1> DEFINE news == {pair[2] : pair \in pairs}
<1> DEFINE stay == (tracks \ news) \ (Missing \ olds)
<1>1. /\ tracks' = {Rehomed(t, pairs) : t \in stay} /\ nextId' = nextId
      /\ phase' = "idle"
      /\ UNCHANGED <<disk, mounted, changes, scan, folder, todo, known, reading, failed, listing,
                     heard, moved, clean>>
      /\ risked' = risked \cup Unread /\ Unread \subseteq Versions
  BY DEF PruneLibrary, Unread
<1>2. /\ tracks \subseteq Row
      /\ \A t \in tracks : t.id < nextId
      /\ \A t, u \in tracks : t.id = u.id \/ t.path = u.path => t = u
  BY DEF IInv, TypeOK, IdsBelowNext, OneTrackPerPath
<1>3. /\ Missing \subseteq tracks /\ FirstSeen \subseteq tracks
      /\ \A t \in Missing : t.path \notin listing
      /\ \A t \in FirstSeen : t.path \in listing
  BY DEF Missing, FirstSeen
<1>4. \A p \in pairs : p[1] \in Missing /\ p[2] \in FirstSeen /\ p = <<p[1], p[2]>>
  BY PairsOneToOne
<1>5. \A p, q \in pairs : p[1] = q[1] \/ p[2] = q[2] => p = q
  BY PairsOneToOne
<1> HIDE DEF pairs
\* The row whose path a row has afterwards.
<1>6. ASSUME NEW t \in stay
      PROVE  \E u \in tracks :
                /\ \/ (u = t /\ t \notin Missing)
                   \/ <<t, u>> \in pairs
                /\ Rehomed(t, pairs) \in Row
                /\ Rehomed(t, pairs).id = t.id
                /\ Rehomed(t, pairs).path = u.path
  <2>1. CASE t \in olds
    <3>1. PICK p \in pairs : p[1] = t
      BY <2>1
    <3>2. PICK u \in tracks : <<t, u>> \in pairs
      BY <1>3, <1>4, <3>1
    <3>t. t \in tracks
      OBVIOUS
    <3>5. \A x, y \in pairs : x[1] = y[1] => x = y
      BY <1>5
    <3> HIDE DEF stay, olds, news
    <3>3. Rehomed(t, pairs) = [t EXCEPT !.path = u.path, !.stamp = u.stamp]
      <4> DEFINE c == CHOOSE x \in tracks : <<t, x>> \in pairs
      <4>1. c \in tracks /\ <<t, c>> \in pairs
        BY <3>2
      <4>2. <<t, c>> = <<t, u>>
        BY <3>2, <3>5, <4>1
      <4>3. c = u
        BY <4>2
      <4> QED BY <3>2, <4>3 DEF Rehomed
    <3>4. t \in Row /\ u \in Row
      BY <1>2, <3>2, <3>t
    <3>6. Rehomed(t, pairs) \in Row
      BY <3>3, <3>4 DEF Row
    <3>7. Rehomed(t, pairs).id = t.id /\ Rehomed(t, pairs).path = u.path
      BY <3>3, <3>4 DEF Row
    <3> QED BY <3>2, <3>6, <3>7
  <2>2. CASE t \notin olds
    <3>1. \A u \in tracks : <<t, u>> \notin pairs
      BY <1>4, <2>2
    <3>2. Rehomed(t, pairs) = t
      BY <3>1 DEF Rehomed
    <3> QED BY <1>2, <2>2, <3>2
  <2> QED BY <2>1, <2>2
<1>61. \A t \in stay : t \in tracks /\ Rehomed(t, pairs) \in Row /\ Rehomed(t, pairs).id = t.id
  BY <1>6
<1>7. ASSUME NEW a \in tracks', NEW b \in tracks', a.id = b.id \/ a.path = b.path PROVE a = b
  <2>1. PICK t \in stay : a = Rehomed(t, pairs)
    BY <1>1
  <2>2. PICK u \in stay : b = Rehomed(u, pairs)
    BY <1>1
  <2>3. CASE a.id = b.id
    BY <1>2, <1>61, <2>1, <2>2, <2>3
  <2>4. CASE a.path = b.path
    <3>1. PICK x \in tracks : ((x = t /\ t \notin Missing) \/ <<t, x>> \in pairs) /\ a.path = x.path
      BY <1>6, <2>1
    <3>2. PICK y \in tracks : ((y = u /\ u \notin Missing) \/ <<u, y>> \in pairs) /\ b.path = y.path
      BY <1>6, <2>2
    <3>3. x = y
      BY <1>2, <2>4, <3>1, <3>2
    <3>4. <<t, x>> \in pairs => x \in news
      OBVIOUS
    <3>5. <<u, y>> \in pairs => y \in news
      OBVIOUS
    <3>6. <<t, x>> \in pairs /\ <<u, x>> \in pairs => t = u
      BY <1>5
    <3> QED BY <2>1, <2>2, <3>1, <3>2, <3>3, <3>4, <3>5, <3>6
  <2> QED BY <1>7, <2>3, <2>4
<1>8. \A a \in tracks' : a \in Row /\ a.id < nextId'
  BY <1>1, <1>2, <1>61
<1>9. TypeOK'
  BY <1>1, <1>8 DEF IInv, TypeOK
<1> QED BY <1>7, <1>8, <1>9 DEF IInv, IdsBelowNext, OneTrackPerPath

LEMMA FinalizeInv == IInv /\ FinalizeScan => IInv'
<1> SUFFICES ASSUME IInv, FinalizeFailed \/ ListLibrary \/ RetryPrune PROVE IInv'
  BY PruneInv DEF FinalizeScan
<1> USE DEF trackVars, importVars, diskVars, ghostVars
<1>1. /\ UNCHANGED <<disk, mounted, changes, tracks, nextId, scan, folder, todo, known, reading,
                     failed, heard, moved, risked, clean>>
      /\ phase' \in {"idle", "importing", "pruning"}
      /\ listing' \in {listing, OnDisk}
  BY DEF FinalizeFailed, ListLibrary, RetryPrune
<1>2. OnDisk \subseteq Paths
  BY DEF OnDisk
<1>3. TypeOK'
  BY <1>1, <1>2 DEF IInv, TypeOK
<1> QED BY <1>1, <1>3, TracksKept

LEMMA StepInv == IInv /\ [Next]_vars => IInv'
<1>1. IInv /\ UNCHANGED vars => IInv'
  BY DEF vars, IInv, TypeOK, IdsBelowNext, OneTrackPerPath
<1> QED BY <1>1, ChangeInv, ListenInv, StartInv, ImportInv, FinalizeInv DEF Next

\* The inductive invariant: types, ids below the next one, one track per path.
THEOREM Inductive == Spec => []IInv
BY InitInv, StepInv, PTL DEF Spec

\* Every variable keeps its type.
THEOREM TypeCorrect == Spec => []TypeOK
<1>1. IInv => TypeOK
  BY DEF IInv
<1> QED BY <1>1, Inductive, PTL

\* Ids and paths of tracks stay unique: no upsert and no prune ever breaks the
\* UNIQUE constraint of tracks.path, which would fail the folder or the scan.
THEOREM UniqueTracks == Spec => []OneTrackPerPath
<1>1. IInv => OneTrackPerPath
  BY DEF IInv
<1> QED BY <1>1, Inductive, PTL

-----------------------------------------------------------------------------
(* Files that stay in their place.                                         *)

CreatedBefore == \A t \in tracks : t.created <= scan

\* t is the track under which v was played: it has the path of v, is older than
\* the scan that runs, and is in the listing it prunes by.
TrackOf(t, v) ==
    /\ t.id = heard[v]
    /\ disk[t.path] = v
    /\ phase # "idle" => t.created < scan
    /\ phase = "pruning" => t.path \in listing

InPlace == \A v \in Versions : heard[v] # NoId => \E t \in tracks : TrackOf(t, v)

KInv == IInv /\ CreatedBefore /\ InPlace

\* What leaves the tracks, their listing and the scan alone, and adds no
\* history, needs only keep the files that were played where they are.
LEMMA SamePlace ==
    ASSUME KInv, IInv', tracks' = tracks, scan' = scan, phase' = phase, listing' = listing,
           \A v \in Versions : heard'[v] # NoId =>
              heard[v] = heard'[v] /\ \A p \in Paths : disk[p] = v => disk'[p] = v
    PROVE  KInv'
<1>1. CreatedBefore'
  BY DEF KInv, CreatedBefore
<1>2. ASSUME NEW v \in Versions, heard'[v] # NoId
      PROVE  \E t \in tracks' : TrackOf(t, v)'
  <2>1. PICK t \in tracks : TrackOf(t, v)
    BY <1>2 DEF KInv, InPlace
  <2>2. t.path \in Paths
    BY DEF KInv, IInv, TypeOK, Row
  <2>3. TrackOf(t, v)'
    BY <1>2, <2>1, <2>2 DEF TrackOf
  <2> QED BY <2>3
<1> QED BY <1>1, <1>2 DEF KInv, InPlace

LEMMA ChangeInPlace == ASSUME "move" \notin Changes, KInv, ChangeFiles PROVE KInv'
<1> USE DEF trackVars, importVars, ghostVars, diskVars
<1>1. IInv'
  BY ChangeInv DEF KInv
<1>2. UNCHANGED <<tracks, scan, phase, listing>>
  BY DEF ChangeFiles, Remove, Add, Edit, Move, Unmount, Mount, MayChange
<1>t. TypeOK /\ \A t, u \in tracks : t.id = u.id => t = u
  BY DEF KInv, IInv, OneTrackPerPath
<1>3. CASE \E p \in Paths : Remove(p)
  <2>1. PICK p \in Paths : Remove(p)
    BY <1>3
  <2>2. /\ disk' = [disk EXCEPT ![p] = NoFile] /\ heard' = [heard EXCEPT ![disk[p]] = NoId]
        /\ disk[p] \in Versions
    BY <1>t, <2>1, OnDiskType DEF Remove
  <2>3. ASSUME NEW v \in Versions, heard'[v] # NoId
        PROVE  heard[v] = heard'[v] /\ \A q \in Paths : disk[q] = v => disk'[q] = v
    BY <1>t, <2>2, <2>3 DEF TypeOK
  <2> QED BY <1>1, <1>2, <2>3, SamePlace
<1>4. CASE \E p \in Paths, v \in Versions : Add(p, v)
  <2>1. PICK p \in Paths, a \in Versions : Add(p, a)
    BY <1>4
  <2>2. disk' = [disk EXCEPT ![p] = a] /\ heard' = heard /\ disk[p] = NoFile
    BY <2>1 DEF Add
  <2>3. ASSUME NEW v \in Versions
        PROVE  heard[v] = heard'[v] /\ \A q \in Paths : disk[q] = v => disk'[q] = v
    BY <1>t, <2>2, Constants DEF TypeOK
  <2> QED BY <1>1, <1>2, <2>3, SamePlace
<1>5. CASE \E p \in Paths, v \in Versions : Edit(p, v)
  <2>1. PICK p \in Paths, new \in Versions : Edit(p, new)
    BY <1>5
  <2> DEFINE old == disk[p]
  <2>2. /\ disk' = [disk EXCEPT ![p] = new]
        /\ heard' = [heard EXCEPT ![old] = NoId, ![new] = HeardAs(old, {t \in tracks : t.path = p})]
        /\ old \in Versions /\ new # old
    BY <1>t, <2>1, OnDiskType DEF Edit, Stored
  <2>3. ASSUME NEW v \in Versions, heard'[v] # NoId
        PROVE  \E t \in tracks' : TrackOf(t, v)'
    <3>1. CASE v = new
      <4>1. heard'[new] = HeardAs(old, {t \in tracks : t.path = p})
        BY <1>t, <2>2 DEF TypeOK
      <4>2. PICK t \in tracks : t.path = p /\ t.id = heard[old] /\ heard'[new] = heard[old]
        BY <2>3, <3>1, <4>1 DEF HeardAs
      <4>3. PICK u \in tracks : TrackOf(u, old)
        BY <2>2, <2>3, <3>1, <4>2 DEF KInv, InPlace
      <4>4. u = t
        BY <1>t, <4>2, <4>3 DEF TrackOf
      <4>5. TrackOf(t, new)'
        BY <1>t, <1>2, <2>2, <4>2, <4>3, <4>4 DEF TrackOf, TypeOK
      <4> QED BY <1>2, <3>1, <4>5
    <3>2. CASE v # new
      <4>1. v # old /\ heard'[v] = heard[v]
        BY <1>t, <2>2, <2>3, <3>2 DEF TypeOK
      <4>2. PICK t \in tracks : TrackOf(t, v)
        BY <2>3, <4>1 DEF KInv, InPlace
      <4>3. t.path \in Paths
        BY <1>t DEF TypeOK, Row
      <4>4. disk'[t.path] = v
        BY <1>t, <2>2, <4>1, <4>2, <4>3 DEF TrackOf, TypeOK
      <4>5. TrackOf(t, v)'
        BY <1>2, <4>1, <4>2, <4>4 DEF TrackOf
      <4> QED BY <1>2, <4>5
    <3> QED BY <3>1, <3>2
  <2>4. CreatedBefore'
    BY <1>2 DEF KInv, CreatedBefore
  <2> QED BY <1>1, <2>3, <2>4 DEF KInv, InPlace
<1>6. CASE Unmount \/ Mount
  <2>1. UNCHANGED <<disk, heard>>
    BY <1>6 DEF Unmount, Mount
  <2> QED BY <1>1, <1>2, <2>1, SamePlace
<1> QED BY <1>3, <1>4, <1>5, <1>6 DEF ChangeFiles, Move, MayChange

LEMMA ListenInPlace ==
    ASSUME ~PlayedInScan, KInv, NEW t \in tracks, Listen(t)
    PROVE  KInv'
<1> USE DEF trackVars, importVars, diskVars
<1>1. IInv'
  BY ListenInv DEF KInv
<1>2. /\ UNCHANGED <<disk, tracks, scan, phase, listing>> /\ phase = "idle"
      /\ disk[t.path] = t.stamp /\ heard' = [heard EXCEPT ![t.stamp] = t.id]
  BY DEF Listen
<1>3. t.stamp \in Versions
  BY DEF KInv, IInv, TypeOK, Row
<1>4. ASSUME NEW v \in Versions, heard'[v] # NoId PROVE \E u \in tracks' : TrackOf(u, v)'
  <2>1. CASE v = t.stamp
    BY <1>2, <1>3, <2>1 DEF TrackOf, KInv, IInv, TypeOK
  <2>2. CASE v # t.stamp
    <3>1. heard'[v] = heard[v]
      BY <1>2, <2>2 DEF KInv, IInv, TypeOK
    <3>2. PICK u \in tracks : TrackOf(u, v)
      BY <1>4, <3>1 DEF KInv, InPlace
    <3> QED BY <1>2, <3>1, <3>2 DEF TrackOf
  <2> QED BY <2>1, <2>2
<1>5. CreatedBefore'
  BY <1>2 DEF KInv, CreatedBefore
<1> QED BY <1>1, <1>4, <1>5 DEF KInv, InPlace

LEMMA StartInPlace == KInv /\ StartScan => KInv'
<1> SUFFICES ASSUME KInv, StartScan PROVE KInv'
  OBVIOUS
<1> USE DEF trackVars, importVars, diskVars, ghostVars
<1>1. IInv'
  BY StartInv DEF KInv
<1>2. UNCHANGED <<disk, tracks, listing, heard>> /\ scan' = scan + 1 /\ phase' = "importing"
  BY DEF StartScan
<1>3. scan \in Nat /\ \A t \in tracks : t.created \in Nat /\ t.created <= scan
  BY DEF KInv, IInv, TypeOK, Row, CreatedBefore
<1>4. CreatedBefore'
  BY <1>2, <1>3 DEF CreatedBefore
<1>5. ASSUME NEW t \in tracks, NEW v, TrackOf(t, v) PROVE TrackOf(t, v)'
  BY <1>2, <1>3, <1>5 DEF TrackOf
<1> QED BY <1>1, <1>2, <1>4, <1>5 DEF KInv, InPlace

\* Every row stays, with its id, path and age, and a new one is of this scan.
LEMMA UpsertRows ==
    ASSUME \A t \in tracks : t \in Row, NEW p, NEW stamp, NEW tags, Upsert(p, stamp, tags)
    PROVE  /\ \A t \in tracks : \E u \in tracks' :
                 u.id = t.id /\ u.path = t.path /\ u.created = t.created
           /\ \A u \in tracks' : (\E t \in tracks : u.created = t.created) \/ u.created = scan
<1>1. CASE \E t \in tracks : t.path = p
  <2> DEFINE New(t) == IF t.path = p THEN [t EXCEPT !.stamp = stamp, !.tags = tags] ELSE t
  <2>1. tracks' = {New(t) : t \in tracks}
    BY <1>1 DEF Upsert
  <2>2. ASSUME NEW t \in tracks
        PROVE  New(t).id = t.id /\ New(t).path = t.path /\ New(t).created = t.created
    <3>1. t \in Row
      OBVIOUS
    <3> QED BY <3>1 DEF Row
  <2> HIDE DEF New
  <2> QED BY <2>1, <2>2
<1>2. CASE ~\E t \in tracks : t.path = p
  <2> DEFINE r == [id |-> nextId, path |-> p, stamp |-> stamp, tags |-> tags, created |-> scan]
  <2>1. tracks' = tracks \cup {r}
    BY <1>2 DEF Upsert
  <2>2. r.created = scan
    OBVIOUS
  <2> HIDE DEF r
  <2> QED BY <2>1, <2>2
<1> QED BY <1>1, <1>2

LEMMA ImportInPlace == ASSUME KInv, NEW f \in Folders, ImportFolder(f) PROVE KInv'
<1> USE DEF trackVars, importVars, diskVars, ghostVars
<1>1. IInv'
  BY ImportInv DEF KInv
<1>2. UNCHANGED <<disk, scan, phase, listing, heard>>
  BY DEF ImportFolder, BeginFolder, SkipFile, ReadTags, FailFile, StoreFile, FolderDone,
         RetryFolder, FailFolder
<1>3. CASE tracks' = tracks
  BY <1>1, <1>2, <1>3, SamePlace
<1>4. CASE tracks' # tracks
  <2>1. PICK p, stamp, tags : Upsert(p, stamp, tags)
    BY <1>4 DEF ImportFolder, BeginFolder, SkipFile, ReadTags, FailFile, StoreFile, FolderDone,
         RetryFolder, FailFolder
  <2>2. \A t \in tracks : t \in Row
    BY DEF KInv, IInv, TypeOK
  <2>3. ASSUME NEW t \in tracks
        PROVE  \E u \in tracks' : u.id = t.id /\ u.path = t.path /\ u.created = t.created
    BY <2>1, <2>2, UpsertRows
  <2>4. ASSUME NEW u \in tracks' PROVE u.created <= scan
    <3>1. scan \in Nat /\ \A t \in tracks : t.created <= scan
      BY DEF KInv, IInv, TypeOK, CreatedBefore
    <3>2. (\E t \in tracks : u.created = t.created) \/ u.created = scan
      BY <2>1, <2>2, UpsertRows
    <3> QED BY <3>1, <3>2
  <2>5. ASSUME NEW v \in Versions, heard'[v] # NoId PROVE \E u \in tracks' : TrackOf(u, v)'
    <3>1. PICK t \in tracks : TrackOf(t, v)
      BY <1>2, <2>5 DEF KInv, InPlace
    <3>2. PICK u \in tracks' : u.id = t.id /\ u.path = t.path /\ u.created = t.created
      BY <2>3
    <3> QED BY <1>2, <3>1, <3>2 DEF TrackOf
  <2> QED BY <1>1, <1>2, <2>4, <2>5 DEF KInv, InPlace, CreatedBefore
<1> QED BY <1>3, <1>4

LEMMA FinalizeInPlace == KInv /\ FinalizeScan => KInv'
<1> SUFFICES ASSUME KInv, FinalizeScan PROVE KInv'
  OBVIOUS
<1> USE DEF trackVars, importVars, diskVars, ghostVars
<1>1. IInv'
  BY FinalizeInv DEF KInv
<1>t. TypeOK
  BY DEF KInv, IInv
<1>2. CASE FinalizeFailed \/ RetryPrune
  <2>1. UNCHANGED <<disk, tracks, scan, listing, heard>>
    BY <1>2 DEF FinalizeFailed, RetryPrune
  <2>3. phase' = "idle" \/ (phase' = "importing" /\ phase = "pruning")
    <3>1. CASE FinalizeFailed
      BY <3>1 DEF FinalizeFailed
    <3>2. CASE RetryPrune
      BY <3>2 DEF RetryPrune
    <3> QED BY <1>2, <3>1, <3>2
  <2>2. ASSUME NEW t \in tracks, NEW v, TrackOf(t, v) PROVE TrackOf(t, v)'
    BY <2>1, <2>2, <2>3 DEF TrackOf
  <2> QED BY <1>1, <2>1, <2>2 DEF KInv, InPlace, CreatedBefore
<1>3. CASE ListLibrary
  <2>1. /\ UNCHANGED <<disk, mounted, tracks, scan, heard>> /\ phase = "importing"
        /\ listing' = OnDisk /\ phase' = IF OnDisk = {} THEN "idle" ELSE "pruning"
    BY <1>3 DEF ListLibrary
  <2>2. ASSUME NEW t \in tracks, NEW v \in Versions, TrackOf(t, v) PROVE TrackOf(t, v)'
    <3>1. CASE OnDisk = {}
      BY <2>1, <2>2, <3>1 DEF TrackOf
    <3>2. CASE OnDisk # {}
      <4>1. mounted /\ t.path \in Paths /\ disk[t.path] # NoFile
        BY <1>t, <2>2, <3>2, Constants DEF OnDisk, TrackOf, TypeOK, Row
      <4>2. t.path \in OnDisk
        BY <4>1 DEF OnDisk
      <4> QED BY <2>1, <2>2, <3>2, <4>2 DEF TrackOf
    <3> QED BY <3>1, <3>2
  <2> QED BY <1>1, <2>1, <2>2 DEF KInv, InPlace, CreatedBefore
<1>4. CASE PruneLibrary
  <2> DEFINE pairs == MatchMovedTracks(Missing, FirstSeen)
  <2> DEFINE stay == (tracks \ {pair[2] : pair \in pairs}) \ (Missing \ {pair[1] : pair \in pairs})
  <2>1. /\ tracks' = {Rehomed(t, pairs) : t \in stay} /\ phase = "pruning" /\ phase' = "idle"
        /\ UNCHANGED <<disk, scan, heard>>
    BY <1>4 DEF PruneLibrary
  <2>2. \A p \in pairs : p[1] \in Missing /\ p[2] \in FirstSeen /\ p = <<p[1], p[2]>>
    BY PairsOneToOne
  <2> HIDE DEF pairs
  <2>3. \A t \in tracks : t \in Row /\ t.created \in Nat /\ t.created <= scan
    BY <1>t DEF KInv, CreatedBefore, TypeOK, Row
  <2>4. ASSUME NEW t \in stay PROVE Rehomed(t, pairs).created = t.created
    BY <2>3 DEF Rehomed, Row
  <2>5. CreatedBefore'
    BY <2>1, <2>3, <2>4 DEF CreatedBefore
  <2>6. ASSUME NEW v \in Versions, heard'[v] # NoId PROVE \E u \in tracks' : TrackOf(u, v)'
    <3>1. PICK t \in tracks : TrackOf(t, v)
      BY <2>1, <2>6 DEF KInv, InPlace
    <3>2. t \notin Missing /\ t \notin FirstSeen
      BY <1>t, <2>1, <2>3, <3>1 DEF TrackOf, Missing, FirstSeen, TypeOK
    <3>3. t \in stay
      BY <2>2, <3>2
    <3>4. Rehomed(t, pairs) = t
      BY <2>2, <3>2 DEF Rehomed
    <3>5. t \in tracks'
      BY <2>1, <3>3, <3>4
    <3> QED BY <2>1, <3>1, <3>5 DEF TrackOf
  <2> QED BY <1>1, <2>5, <2>6 DEF KInv, InPlace
<1> QED BY <1>2, <1>3, <1>4 DEF FinalizeScan

\* Whatever is added, edited and removed, however often the music folder is
\* unmounted, whichever folder fails and whenever a task is retried: a file that
\* was played and is still in its place has its track ("an unmounted or empty
\* library never wipes the database", prune.py).
THEOREM UnmovedKept ==
    ASSUME "move" \notin Changes, ~PlayedInScan
    PROVE  Spec => []HistoryKept
<1>1. Init => KInv
  BY InitInv DEF Init, KInv, CreatedBefore, InPlace
<1>2. KInv /\ [Next]_vars => KInv'
  <2>1. KInv /\ UNCHANGED vars => KInv'
    <3> SUFFICES ASSUME KInv, UNCHANGED vars PROVE KInv'
      OBVIOUS
    <3>1. IInv'
      BY StepInv DEF KInv
    <3> QED BY <3>1, SamePlace DEF vars
  <2> QED BY <2>1, ChangeInPlace, ListenInPlace, StartInPlace, ImportInPlace, FinalizeInPlace DEF Next
<1>3. KInv => HistoryKept
  BY DEF KInv, InPlace, TrackOf, HistoryKept
<1> QED BY <1>1, <1>2, <1>3, PTL DEF Spec

-----------------------------------------------------------------------------
(* What a scan leaves: the tracks are the files, if nothing changed          *)
(* meanwhile, whatever went wrong before, and however folders and prunes are *)
(* repeated.                                                                 *)

Imported(p) == \E t \in tracks : t.path = p /\ t.stamp = disk[p]

\* What an import knew of a file is still so, or has been made what it is now.
KnownStays(f) ==
    \A t \in known[f] : \E u \in tracks :
        u.path = t.path /\ (u.stamp = t.stamp \/ u.stamp = disk[u.path])

FolderState(f) ==
    /\ folder[f] = "none" => FilesIn(f) = {}
    /\ folder[f] # "failed"
    /\ folder[f] = "importing" =>
         KnownStays(f) /\ \A p \in FilesIn(f) : p \in todo[f] \/ p \in failed \/ Imported(p)
    /\ folder[f] = "completed" => \A p \in FilesIn(f) : p \in failed \/ Imported(p)

TracksAreFiles ==
    /\ {t.path : t \in tracks} \subseteq OnDisk
    /\ {<<t.path, t.stamp>> : t \in {u \in tracks : u.path \notin failed}} =
           {<<p, disk[p]>> : p \in OnDisk \ failed}

Scanned ==
    /\ phase # "importing" => FoldersFinished
    /\ clean /\ phase # "idle" => OnDisk # {} /\ \A f \in Folders : FolderState(f)
    /\ clean /\ phase = "pruning" => listing = OnDisk
    /\ clean /\ phase = "idle" => TracksAreFiles

\* The rows of an upsert.
LEMMA UpsertIs ==
    ASSUME \A t \in tracks : t \in Row, NEW p, NEW stamp, NEW tags, Upsert(p, stamp, tags)
    PROVE  /\ \E u \in tracks' : u.path = p
           /\ \A u \in tracks' : u.path = p => u.stamp = stamp /\ u.tags = tags
           /\ \A t \in tracks : t.path # p => t \in tracks'
           /\ \A u \in tracks' : u.path # p => u \in tracks
           /\ \A u \in tracks' :
                u.created = scan \/ \E t \in tracks : t.path = u.path /\ t.created = u.created
<1>1. CASE \E t \in tracks : t.path = p
  <2> DEFINE New(t) == IF t.path = p THEN [t EXCEPT !.stamp = stamp, !.tags = tags] ELSE t
  <2>1. tracks' = {New(t) : t \in tracks}
    BY <1>1 DEF Upsert
  <2>2. ASSUME NEW t \in tracks
        PROVE  /\ New(t).path = t.path /\ New(t).created = t.created
               /\ t.path = p => New(t).stamp = stamp /\ New(t).tags = tags
               /\ t.path # p => New(t) = t
    <3>1. t \in Row
      OBVIOUS
    <3> QED BY <3>1 DEF Row
  <2> HIDE DEF New
  <2> QED BY <1>1, <2>1, <2>2
<1>2. CASE ~\E t \in tracks : t.path = p
  <2> DEFINE r == [id |-> nextId, path |-> p, stamp |-> stamp, tags |-> tags, created |-> scan]
  <2>1. tracks' = tracks \cup {r}
    BY <1>2 DEF Upsert
  <2>2. r.path = p /\ r.stamp = stamp /\ r.tags = tags /\ r.created = scan
    OBVIOUS
  <2> HIDE DEF r
  <2> QED BY <1>2, <2>1, <2>2
<1> QED BY <1>1, <1>2

\* What an import does to the table.
LEMMA ImportStores ==
    ASSUME TypeOK, NEW f \in Folders, ImportFolder(f), tracks' # tracks
    PROVE  LET p == reading[f].path
           IN  StoreFile(f) /\ reading[f] # NoReading /\ p \in OnDisk /\ Upsert(p, disk[p], reading[f].tags)
<1>1. StoreFile(f)
  BY DEF ImportFolder, BeginFolder, SkipFile, ReadTags, FailFile, FolderDone, RetryFolder, FailFolder, trackVars
<1> QED BY <1>1 DEF StoreFile, trackVars

\* It makes a row what its file is, and leaves the others as they are.
LEMMA ImportRows ==
    ASSUME TypeOK, NEW f \in Folders, ImportFolder(f)
    PROVE  /\ \A p : Imported(p) => Imported(p)'
           /\ \A t \in tracks : \E u \in tracks' :
                u.path = t.path /\ (u.stamp = t.stamp \/ u.stamp = disk'[u.path])
           /\ \A t \in tracks : t.path \notin OnDisk => t \in tracks'
           /\ \A u \in tracks' : u.path \notin OnDisk => u \in tracks
<1>1. disk' = disk
  BY DEF ImportFolder, BeginFolder, SkipFile, ReadTags, FailFile, StoreFile, FolderDone,
         RetryFolder, FailFolder, diskVars
<1>2. CASE tracks' = tracks
  BY <1>1, <1>2 DEF Imported
<1>3. CASE tracks' # tracks
  <2> DEFINE p == reading[f].path
  <2>1. p \in OnDisk /\ Upsert(p, disk[p], reading[f].tags)
    BY <1>3, ImportStores
  <2>2. \A t \in tracks : t \in Row
    BY DEF TypeOK
  <2> HIDE DEF p
  <2>3. /\ \E u \in tracks' : u.path = p
        /\ \A u \in tracks' : u.path = p => u.stamp = disk[p]
        /\ \A t \in tracks : t.path # p => t \in tracks'
        /\ \A u \in tracks' : u.path # p => u \in tracks
    BY <2>1, <2>2, UpsertIs
  <2> QED BY <1>1, <2>1, <2>3 DEF Imported
<1> QED BY <1>2, <1>3

LEMMA StartScanned == ASSUME StartScan PROVE Scanned'
<1>1. /\ phase' = "importing" /\ OnDisk # {} /\ UNCHANGED <<disk, mounted>>
      /\ folder' = [f \in Folders |-> IF FilesIn(f) = {} THEN "none" ELSE "pending"]
  BY DEF StartScan, diskVars
<1>2. OnDisk' = OnDisk /\ \A f : FilesIn(f)' = FilesIn(f)
  BY <1>1 DEF OnDisk, FilesIn
<1>3. ASSUME NEW f \in Folders PROVE FolderState(f)'
  BY <1>1, <1>2 DEF FolderState
<1> QED BY <1>1, <1>2, <1>3 DEF Scanned

LEMMA ImportScanned == ASSUME IInv, Scanned, NEW f \in Folders, ImportFolder(f) PROVE Scanned'
<1> USE DEF trackVars, importVars, diskVars, ghostVars
<1>t. TypeOK
  BY DEF IInv
<1>1. phase = "importing"
  <2>1. folder[f] \in {"pending", "importing"}
    BY DEF ImportFolder, BeginFolder, SkipFile, ReadTags, FailFile, StoreFile, FolderDone,
         RetryFolder, FailFolder
  <2> QED BY <2>1 DEF Scanned, FoldersFinished
<1>2. UNCHANGED <<disk, mounted, listing, phase>> /\ (clean' => clean)
  BY DEF ImportFolder, BeginFolder, SkipFile, ReadTags, FailFile, StoreFile, FolderDone,
         RetryFolder, FailFolder
<1>3. OnDisk' = OnDisk /\ \A g : FilesIn(g)' = FilesIn(g)
  BY <1>2 DEF OnDisk, FilesIn
<1>4. ASSUME clean', NEW g \in Folders PROVE FolderState(g)'
  <2>1. FolderState(g)
    BY <1>1, <1>2, <1>4 DEF Scanned
  <2>2. /\ \A p : Imported(p) => Imported(p)'
        /\ \A t \in tracks : \E u \in tracks' :
             u.path = t.path /\ (u.stamp = t.stamp \/ u.stamp = disk'[u.path])
    BY <1>t, ImportRows
  \* What is left undone stays so.
  <2>3. ASSUME known'[g] = known[g], KnownStays(g) PROVE KnownStays(g)'
    BY <1>2, <2>2, <2>3 DEF KnownStays
  <2>31. \A p \in FilesIn(g) : p \in failed /\ ~(g = f /\ BeginFolder(f)) => p \in failed'
    BY DEF ImportFolder, BeginFolder, SkipFile, ReadTags, FailFile, StoreFile, FolderDone,
           RetryFolder, FailFolder, FilesIn
  <2>4. CASE /\ folder'[g] = folder[g] /\ todo'[g] = todo[g] /\ known'[g] = known[g]
             /\ ~(g = f /\ BeginFolder(f))
    BY <1>3, <2>1, <2>2, <2>3, <2>31, <2>4 DEF FolderState
  <2>5. ASSUME g # f
        PROVE  folder'[g] = folder[g] /\ todo'[g] = todo[g] /\ known'[g] = known[g]
    BY <1>t, <2>5 DEF ImportFolder, BeginFolder, SkipFile, ReadTags, FailFile, StoreFile, FolderDone,
                      RetryFolder, FailFolder, TypeOK
  <2>6. CASE g = f /\ BeginFolder(f)
    <3>1. /\ folder'[f] = "importing" /\ todo'[f] = FilesIn(f)
          /\ known'[f] = {t \in tracks : t.path \in FilesIn(f)} /\ tracks' = tracks
      BY <1>t, <2>6 DEF BeginFolder, TypeOK
    <3>2. KnownStays(f)'
      BY <3>1 DEF KnownStays
    <3> QED BY <1>3, <2>6, <3>1, <3>2 DEF FolderState
  <2>7. ASSUME NEW p \in Paths, g = f, SkipFile(f, p) PROVE FolderState(g)'
    <3>1. /\ folder'[f] = "importing" /\ folder[f] = "importing" /\ todo'[f] = todo[f] \ {p}
          /\ known'[f] = known[f] /\ ~FileChanged(f, p) /\ failed' = failed
      BY <1>t, <2>7 DEF SkipFile, TypeOK
    <3>2. p \in FilesIn(f) => Imported(p)
      <4> SUFFICES ASSUME p \in FilesIn(f) PROVE Imported(p)
        OBVIOUS
      <4>1. PICK t \in known[f] : t.path = p /\ t.stamp = disk[p]
        BY <3>1 DEF FilesIn, FileChanged
      <4>2. PICK u \in tracks : u.path = p /\ (u.stamp = disk[p] \/ u.stamp = disk[u.path])
        BY <2>1, <2>7, <3>1, <4>1 DEF FolderState, KnownStays
      <4> QED BY <4>2 DEF Imported
    <3> QED BY <1>3, <2>1, <2>2, <2>3, <2>7, <3>1, <3>2 DEF FolderState
  <2>71. ASSUME NEW p \in Paths, g = f, FailFile(f, p) PROVE FolderState(g)'
    <3>1. /\ folder'[f] = "importing" /\ folder[f] = "importing" /\ todo'[f] = todo[f] \ {p}
          /\ known'[f] = known[f] /\ failed' = failed \cup {p}
      BY <1>t, <2>71 DEF FailFile, TypeOK
    <3> QED BY <1>3, <2>1, <2>2, <2>3, <2>71, <3>1 DEF FolderState
  <2>8. CASE g = f /\ \E p \in Paths : ReadTags(f, p)
    BY <2>4, <2>8 DEF ReadTags, BeginFolder
  <2>9. CASE g = f /\ StoreFile(f)
    <3>0. PICK p : p = reading[f].path
      OBVIOUS
    <3>1. /\ folder'[f] = "importing" /\ folder[f] = "importing" /\ todo'[f] = todo[f] \ {p}
          /\ known'[f] = known[f] /\ failed' = failed
      BY <1>t, <2>9, <3>0 DEF StoreFile, TypeOK
    <3>2. p \in FilesIn(f) => Imported(p)'
      <4> SUFFICES ASSUME p \in OnDisk PROVE Imported(p)'
        BY DEF FilesIn
      <4>1. Upsert(p, disk[p], reading[f].tags) /\ \A t \in tracks : t \in Row
        BY <1>t, <2>9, <3>0 DEF StoreFile, TypeOK
      <4>2. /\ \E u \in tracks' : u.path = p
            /\ \A u \in tracks' : u.path = p => u.stamp = disk[p]
        BY <4>1, UpsertIs
      <4> QED BY <1>2, <4>2 DEF Imported
    <3> QED BY <1>3, <2>1, <2>2, <2>3, <2>9, <3>1, <3>2 DEF FolderState
  <2>10. CASE g = f /\ FolderDone(f)
    <3>1. folder'[f] = "completed" /\ folder[f] = "importing" /\ todo[f] = {} /\ failed' = failed
      BY <1>t, <2>10 DEF FolderDone, TypeOK
    <3> QED BY <1>3, <2>1, <2>2, <2>10, <3>1 DEF FolderState
  <2>11. CASE g = f /\ RetryFolder(f)
    <3>1. folder'[f] = "pending"
      BY <1>t, <2>11 DEF RetryFolder, TypeOK
    <3> QED BY <2>11, <3>1 DEF FolderState
  <2>12. CASE FailFolder(f)
    BY <1>4, <2>12 DEF FailFolder
  <2> QED BY <2>4, <2>5, <2>6, <2>7, <2>71, <2>8, <2>9, <2>10, <2>11, <2>12 DEF ImportFolder
<1> QED BY <1>1, <1>2, <1>3, <1>4 DEF Scanned

Pairs == MatchMovedTracks(Missing, FirstSeen)

LEMMA PairIs ==
    ASSUME NEW t, NEW u
    PROVE  <<t, u>> \in Pairs <=>
             /\ t \in Missing /\ u \in FirstSeen
             /\ Candidates(t, FirstSeen) = {u} /\ Candidates(u, Missing) = {t}
<1>1. ASSUME <<t, u>> \in Pairs
      PROVE  /\ t \in Missing /\ u \in FirstSeen
             /\ Candidates(t, FirstSeen) = {u} /\ Candidates(u, Missing) = {t}
  <2>1. PICK pair \in Missing \X FirstSeen :
          /\ pair = <<t, u>>
          /\ Candidates(pair[1], FirstSeen) = {pair[2]} /\ Candidates(pair[2], Missing) = {pair[1]}
    BY <1>1 DEF Pairs, MatchMovedTracks
  <2> QED BY <2>1
<1>2. ASSUME t \in Missing, u \in FirstSeen,
             Candidates(t, FirstSeen) = {u}, Candidates(u, Missing) = {t}
      PROVE  <<t, u>> \in Pairs
  <2>1. <<t, u>> \in Missing \X FirstSeen /\ <<t, u>>[1] = t /\ <<t, u>>[2] = u
    BY <1>2
  <2> QED BY <1>2, <2>1 DEF Pairs, MatchMovedTracks
<1> QED BY <1>1, <1>2

\* The rows of a prune: those that are there and were not duplicates, and the
\* old ones of the pairs, each with its duplicate's path, size and time.
LEMMA PruneRows ==
    ASSUME TypeOK, PruneLibrary
    PROVE  /\ \A a \in tracks' : \E t \in tracks :
                /\ a.id = t.id /\ a.created = t.created /\ a.tags = t.tags
                /\ \/ a = t /\ t \notin Missing
                   \/ \E u \in tracks : <<t, u>> \in Pairs /\ a.path = u.path /\ a.stamp = u.stamp
           /\ \A t \in tracks \ Missing : (\A x : <<x, t>> \notin Pairs) => t \in tracks'
           /\ \A t, u \in tracks : <<t, u>> \in Pairs =>
                \E a \in tracks' : a.id = t.id /\ a.path = u.path /\ a.stamp = u.stamp
<1> DEFINE olds == {pair[1] : pair \in Pairs}
           news == {pair[2] : pair \in Pairs}
           stay == (tracks \ news) \ (Missing \ olds)
<1>1. tracks' = {Rehomed(t, Pairs) : t \in stay}
  BY DEF PruneLibrary, Pairs
<1>2. /\ \A p \in Pairs : p[1] \in Missing /\ p[2] \in FirstSeen /\ p = <<p[1], p[2]>>
      /\ \A p, q \in Pairs : p[1] = q[1] \/ p[2] = q[2] => p = q
  BY PairsOneToOne DEF Pairs
<1>3. Missing \subseteq tracks /\ FirstSeen \subseteq tracks /\ Missing \cap FirstSeen = {}
  BY DEF Missing, FirstSeen
<1>4. ASSUME NEW t \in tracks, NEW u \in tracks, <<t, u>> \in Pairs
      PROVE  LET a == Rehomed(t, Pairs)
             IN  /\ t \in stay
                 /\ a.id = t.id /\ a.created = t.created /\ a.tags = t.tags
                 /\ a.path = u.path /\ a.stamp = u.stamp
  <2>1. t \in Missing /\ t \in olds
    BY <1>2, <1>4
  <2>2. t \notin news
    BY <1>2, <1>3, <2>1
  <2>3. Rehomed(t, Pairs) = [t EXCEPT !.path = u.path, !.stamp = u.stamp]
    <3> DEFINE c == CHOOSE x \in tracks : <<t, x>> \in Pairs
    <3>1. c \in tracks /\ <<t, c>> \in Pairs
      BY <1>4
    <3>2. <<t, c>> = <<t, u>>
      BY <1>2, <1>4, <3>1
    <3>3. c = u
      BY <3>2
    <3> QED BY <1>4, <3>3 DEF Rehomed
  <2>4. t \in Row
    BY DEF TypeOK
  <2> HIDE DEF stay
  <2>5. LET a == Rehomed(t, Pairs)
        IN  /\ a.id = t.id /\ a.created = t.created /\ a.tags = t.tags
            /\ a.path = u.path /\ a.stamp = u.stamp
    BY <2>3, <2>4 DEF Row
  <2>6. t \in stay
    BY <2>1, <2>2 DEF stay
  <2> QED BY <2>5, <2>6
<1>5. ASSUME NEW t \in stay, t \notin Missing PROVE Rehomed(t, Pairs) = t
  <2>1. \A u \in tracks : <<t, u>> \notin Pairs
    BY <1>2, <1>5
  <2> QED BY <2>1 DEF Rehomed
<1>6. ASSUME NEW t \in stay, t \in Missing PROVE \E u \in tracks : <<t, u>> \in Pairs
  BY <1>2, <1>3, <1>6
<1>7. ASSUME NEW t \in tracks \ Missing, \A x : <<x, t>> \notin Pairs PROVE t \in stay
  BY <1>2, <1>7
<1>8. stay \subseteq tracks
  OBVIOUS
<1> HIDE DEF stay
<1>9. ASSUME NEW a \in tracks'
      PROVE  \E t \in tracks :
                /\ a.id = t.id /\ a.created = t.created /\ a.tags = t.tags
                /\ \/ a = t /\ t \notin Missing
                   \/ \E u \in tracks : <<t, u>> \in Pairs /\ a.path = u.path /\ a.stamp = u.stamp
  <2>1. PICK t \in stay : a = Rehomed(t, Pairs)
    BY <1>1
  <2>2. CASE t \in Missing
    BY <1>4, <1>6, <1>8, <2>1, <2>2
  <2>3. CASE t \notin Missing
    BY <1>5, <1>8, <2>1, <2>3
  <2> QED BY <2>2, <2>3
<1>10. ASSUME NEW t \in tracks \ Missing, \A x : <<x, t>> \notin Pairs PROVE t \in tracks'
  BY <1>1, <1>5, <1>7, <1>10
<1>11. ASSUME NEW t \in tracks, NEW u \in tracks, <<t, u>> \in Pairs
       PROVE  \E a \in tracks' : a.id = t.id /\ a.path = u.path /\ a.stamp = u.stamp
  BY <1>1, <1>4, <1>11
<1> QED BY <1>9, <1>10, <1>11

\* When the prune begins every file on disk has a row that says what it is, but
\* those whose import failed.
LEMMA AllImported ==
    ASSUME IInv, Scanned, clean, phase # "idle", FoldersFinished, NEW p \in OnDisk, p \notin failed
    PROVE  Imported(p)
<1>1. p \in Paths /\ FolderOf[p] \in Folders /\ p \in FilesIn(FolderOf[p])
  BY Constants DEF OnDisk, FilesIn
<1> QED BY <1>1 DEF Scanned, FolderState, FoldersFinished

\* ... and what it says of a file on disk is so.
LEMMA RowsAreRight ==
    ASSUME IInv, Scanned, clean, phase = "pruning", NEW t \in tracks, t.path \in listing
    PROVE  t.path \in OnDisk /\ (t.path \notin failed => t.stamp = disk[t.path])
<1>1. t.path \in OnDisk /\ FoldersFinished
  BY DEF Scanned
<1> SUFFICES ASSUME t.path \notin failed PROVE t.stamp = disk[t.path]
  BY <1>1
<1>2. PICK u \in tracks : u.path = t.path /\ u.stamp = disk[t.path]
  BY <1>1, AllImported DEF Imported
<1>3. u = t
  BY <1>2 DEF IInv, OneTrackPerPath
<1> QED BY <1>1, <1>2, <1>3

LEMMA PruneScanned == IInv /\ Scanned /\ PruneLibrary => Scanned'
<1> SUFFICES ASSUME IInv, Scanned, PruneLibrary PROVE Scanned'
  OBVIOUS
<1>1. phase = "pruning" /\ phase' = "idle" /\ UNCHANGED <<disk, mounted, folder, failed, clean>>
  BY DEF PruneLibrary, diskVars, importVars
<1>2. FoldersFinished' /\ OnDisk' = OnDisk
  BY <1>1 DEF Scanned, FoldersFinished, OnDisk
<1>3. ASSUME clean PROVE TracksAreFiles'
  <2>t. TypeOK /\ listing = OnDisk /\ FoldersFinished
    BY <1>1, <1>3 DEF IInv, Scanned
  <2>1. ASSUME NEW a \in tracks'
        PROVE  a.path \in OnDisk /\ (a.path \notin failed => a.stamp = disk[a.path])
    <3>1. PICK t \in tracks :
             \/ a = t /\ t \notin Missing
             \/ \E u \in tracks : <<t, u>> \in Pairs /\ a.path = u.path /\ a.stamp = u.stamp
      BY <2>t, PruneRows
    <3>2. CASE a = t /\ t \notin Missing
      BY <1>1, <1>3, <3>2, RowsAreRight DEF Missing
    <3>3. ASSUME NEW u \in tracks, <<t, u>> \in Pairs, a.path = u.path, a.stamp = u.stamp
          PROVE  a.path \in OnDisk /\ (a.path \notin failed => a.stamp = disk[a.path])
      <4>1. u.path \in listing
        BY <3>3, PairIs DEF FirstSeen
      <4> QED BY <1>1, <1>3, <3>3, <4>1, RowsAreRight
    <3> QED BY <3>1, <3>2, <3>3
  <2>2. ASSUME NEW p \in OnDisk \ failed PROVE \E a \in tracks' : a.path = p /\ a.stamp = disk[p]
    <3>1. PICK t \in tracks : t.path = p /\ t.stamp = disk[p]
      BY <1>1, <1>3, <2>t, AllImported DEF Imported
    <3>2. t \notin Missing
      BY <2>t, <3>1 DEF Missing
    <3>3. CASE \A x : <<x, t>> \notin Pairs
      BY <2>t, <3>1, <3>2, <3>3, PruneRows
    <3>4. ASSUME NEW x, <<x, t>> \in Pairs PROVE \E a \in tracks' : a.path = p /\ a.stamp = disk[p]
      <4>1. x \in tracks
        BY <3>4, PairIs DEF Missing
      <4> QED BY <2>t, <3>1, <3>4, <4>1, PruneRows
    <3> QED BY <3>3, <3>4
  <2>3. \A a \in tracks' : a.path \in OnDisk /\
          (a.path \notin failed => <<a.path, a.stamp>> \in {<<p, disk[p]>> : p \in OnDisk \ failed})
    BY <2>1
  <2>4. \A p \in OnDisk \ failed :
          <<p, disk[p]>> \in {<<a.path, a.stamp>> : a \in {x \in tracks' : x.path \notin failed}}
    BY <2>2
  <2> QED BY <1>1, <1>2, <2>3, <2>4 DEF TracksAreFiles
<1> QED BY <1>1, <1>2, <1>3 DEF Scanned

\* What leaves the files, the tracks and the folders alone.
LEMMA SameScanned ==
    ASSUME Scanned, UNCHANGED <<disk, mounted, tracks, folder, todo, known, failed>>, clean' => clean,
           \/ phase' = phase /\ listing' = listing
           \/ phase' = "importing" /\ phase # "idle"
           \/ phase' = "pruning" /\ listing' = OnDisk /\ phase # "idle" /\ FoldersFinished
           \/ phase' = "idle" /\ FoldersFinished /\ ~clean
    PROVE  Scanned'
<1>1. OnDisk' = OnDisk /\ \A f : FilesIn(f)' = FilesIn(f)
  BY DEF OnDisk, FilesIn
<1>2. FoldersFinished' <=> FoldersFinished
  BY DEF FoldersFinished
<1>3. TracksAreFiles' <=> TracksAreFiles
  BY <1>1 DEF TracksAreFiles
<1>4. ASSUME NEW f \in Folders, FolderState(f) PROVE FolderState(f)'
  BY <1>1, <1>4 DEF FolderState, Imported, KnownStays
<1> QED BY <1>1, <1>2, <1>3, <1>4 DEF Scanned

LEMMA FinalizeScanned == IInv /\ Scanned /\ FinalizeScan => Scanned'
<1> SUFFICES ASSUME IInv, Scanned, FinalizeScan PROVE Scanned'
  OBVIOUS
<1> USE DEF trackVars, importVars, diskVars
<1>1. CASE FinalizeFailed
  <2>1. ~clean
    BY <1>1 DEF FinalizeFailed, Scanned, FolderState
  <2> QED BY <1>1, <2>1, SameScanned DEF FinalizeFailed
<1>2. CASE ListLibrary
  <2>1. OnDisk = {} => ~clean
    BY <1>2 DEF ListLibrary, Scanned
  <2> QED BY <1>2, <2>1, SameScanned DEF ListLibrary
<1>3. CASE RetryPrune
  BY <1>3, SameScanned DEF RetryPrune
<1> QED BY <1>1, <1>2, <1>3, PruneScanned DEF FinalizeScan

LEMMA ChangeScanned == Scanned /\ ChangeFiles => Scanned'
<1> SUFFICES ASSUME Scanned, ChangeFiles PROVE Scanned'
  OBVIOUS
<1>1. UNCHANGED <<phase, folder>> /\ clean' = FALSE
  BY DEF ChangeFiles, Remove, Add, Edit, Move, Unmount, Mount, MayChange, importVars
<1> QED BY <1>1 DEF Scanned, FoldersFinished

LEMMA ScannedNext == IInv /\ Scanned /\ [Next]_vars => Scanned'
<1> SUFFICES ASSUME IInv, Scanned, [Next]_vars PROVE Scanned'
  OBVIOUS
<1>1. CASE UNCHANGED vars \/ \E t \in tracks : Listen(t)
  <2>1. UNCHANGED <<disk, mounted, tracks, folder, todo, known, failed, phase, listing, clean>>
    BY <1>1 DEF vars, Listen, trackVars, importVars, diskVars
  <2> QED BY <2>1, SameScanned
<1> QED BY <1>1, ChangeScanned, StartScanned, ImportScanned, FinalizeScanned DEF Next

LEMMA ScannedInit == Init => Scanned
BY DEF Init, Scanned, FoldersFinished

\* After a scan during which nothing changed, each row is of a file on disk, and
\* each file whose import did not raise has a row, with the size and time it
\* has: whatever an earlier scan left, however folders failed in it, and however
\* tasks are repeated in this one (import_folder, prune_library).
THEOREM ScanReconciles == Spec => [](phase = "idle" /\ clean => TracksAreFiles)
<1>1. Scanned => (phase = "idle" /\ clean => TracksAreFiles)
  BY DEF Scanned
<1> QED BY <1>1, Inductive, ScannedInit, ScannedNext, PTL DEF Spec

\* The tags of a row are those of its file at the time the row has, unless they
\* were taken from a file that looks like it; and so are the tags in hand.
Reads(f) ==
    folder[f] = "importing" /\ reading[f] # NoReading =>
        reading[f].tags = disk[reading[f].path]

TagsHold ==
    /\ \A f \in Folders : Reads(f)
    /\ \A t \in tracks : Alone(t.stamp) => t.tags = t.stamp

LEMMA ImportTags == ASSUME IInv, TagsHold, NEW f \in Folders, ImportFolder(f) PROVE TagsHold'
<1> USE DEF importVars, diskVars, trackVars
<1>t. TypeOK
  BY DEF IInv
<1>1. disk' = disk
  BY DEF ImportFolder, BeginFolder, SkipFile, ReadTags, FailFile, StoreFile, FolderDone,
         RetryFolder, FailFolder
<1>2. ASSUME NEW g \in Folders PROVE Reads(g)'
  <2>1. Reads(g)
    BY DEF TagsHold
  <2>2. CASE reading'[g] = reading[g] /\ (folder'[g] = "importing" => folder[g] = "importing")
    BY <1>1, <2>1, <2>2 DEF Reads
  <2>3. CASE reading'[g] = NoReading
    BY <2>3 DEF Reads
  <2>4. ASSUME NEW p \in Paths, g = f, ReadTags(f, p) PROVE Reads(g)'
    <3>1. reading'[g] = [path |-> p, tags |-> disk[p]]
      BY <1>t, <2>4 DEF ReadTags, TypeOK
    <3> QED BY <1>1, <3>1 DEF Reads
  <2>5. g # f => reading'[g] = reading[g] /\ folder'[g] = folder[g]
    BY <1>t DEF ImportFolder, BeginFolder, SkipFile, ReadTags, FailFile, StoreFile, FolderDone,
                RetryFolder, FailFolder, TypeOK
  <2>6. CASE g = f /\ (BeginFolder(f) \/ StoreFile(f) \/ \E p \in Paths : FailFile(f, p))
    BY <1>t, <2>3, <2>6 DEF BeginFolder, FailFile, StoreFile, TypeOK
  <2>7. CASE g = f /\ ((\E p \in Paths : SkipFile(f, p)) \/ FolderDone(f) \/ RetryFolder(f) \/ FailFolder(f))
    BY <1>t, <2>2, <2>7 DEF SkipFile, FolderDone, RetryFolder, FailFolder, TypeOK
  <2> QED BY <2>2, <2>4, <2>5, <2>6, <2>7 DEF ImportFolder
<1>3. ASSUME NEW u \in tracks', Alone(u.stamp) PROVE u.tags = u.stamp
  <2>1. CASE tracks' = tracks
    BY <1>3, <2>1 DEF TagsHold
  <2>2. CASE tracks' # tracks
    <3>0. PICK p : p = reading[f].path
      OBVIOUS
    <3>1. /\ StoreFile(f) /\ reading[f] # NoReading
          /\ Upsert(p, disk[p], reading[f].tags)
      BY <1>t, <2>2, <3>0, ImportStores
    <3>2. reading[f].tags = disk[p]
      BY <3>0, <3>1 DEF TagsHold, Reads, StoreFile
    <3>3. \A t \in tracks : t \in Row
      BY <1>t DEF TypeOK
    <3>4. /\ u.path = p => u.stamp = disk[p] /\ u.tags = disk[p]
          /\ u.path # p => u \in tracks
      BY <3>1, <3>2, <3>3, UpsertIs
    <3> QED BY <1>3, <3>4 DEF TagsHold
  <2> QED BY <2>1, <2>2
<1>4. \A v : Alone(v)' <=> Alone(v)
  BY DEF Alone
<1> QED BY <1>2, <1>3, <1>4 DEF TagsHold

LEMMA PruneTags == IInv /\ TagsHold /\ PruneLibrary => TagsHold'
<1> SUFFICES ASSUME IInv, TagsHold, PruneLibrary PROVE TagsHold'
  OBVIOUS
<1>1. \A f \in Folders : Reads(f)'
  BY DEF PruneLibrary, TagsHold, Reads, importVars, diskVars
<1>2. ASSUME NEW a \in tracks', Alone(a.stamp) PROVE a.tags = a.stamp
  <2>1. PICK t \in tracks :
           /\ a.tags = t.tags
           /\ \/ a = t /\ t \notin Missing
              \/ \E u \in tracks : <<t, u>> \in Pairs /\ a.path = u.path /\ a.stamp = u.stamp
    BY PruneRows DEF IInv
  <2>2. CASE a = t
    BY <1>2, <2>2 DEF TagsHold
  <2>3. ASSUME NEW u \in tracks, <<t, u>> \in Pairs, a.stamp = u.stamp PROVE a.tags = a.stamp
    <3>1. u \in Candidates(t, FirstSeen) /\ t.stamp \in Versions
      BY <2>3, PairIs DEF IInv, TypeOK, Row
    <3>2. t.stamp = u.stamp
      BY <1>2, <2>3, <3>1 DEF Candidates, Alone
    <3> QED BY <1>2, <2>1, <2>3, <3>2 DEF TagsHold
  <2> QED BY <2>1, <2>2, <2>3
<1>3. \A v : Alone(v)' <=> Alone(v)
  BY DEF Alone
<1> QED BY <1>1, <1>2, <1>3 DEF TagsHold

LEMMA TagsNext ==
    ASSUME ~DuringScan, IInv, Scanned, TagsHold, [Next]_vars
    PROVE  TagsHold'
<1>1. ASSUME UNCHANGED <<tracks, reading>>,
             \A f \in Folders : folder'[f] = "importing" => folder[f] = "importing" /\ disk' = disk
      PROVE  TagsHold'
  <2>1. \A v : Alone(v)' <=> Alone(v)
    BY DEF Alone
  <2> QED BY <1>1, <2>1 DEF TagsHold, Reads
<1>2. CASE ChangeFiles
  <2>1. UNCHANGED <<tracks, reading, folder>> /\ (disk' = disk \/ phase = "idle")
    BY <1>2 DEF ChangeFiles, Remove, Add, Edit, Move, Unmount, Mount, MayChange, importVars, trackVars
  <2>2. phase = "idle" => \A f \in Folders : folder[f] # "importing"
    BY DEF Scanned, FoldersFinished
  <2> QED BY <1>1, <2>1, <2>2
<1>3. CASE StartScan
  <2>1. UNCHANGED <<tracks, reading>> /\ \A f \in Folders : folder'[f] # "importing"
    BY <1>3 DEF StartScan, trackVars
  <2> QED BY <1>1, <2>1
<1>4. CASE UNCHANGED vars \/ (\E t \in tracks : Listen(t)) \/ FinalizeFailed \/ ListLibrary \/ RetryPrune
  <2>1. UNCHANGED <<disk, tracks, reading, folder>>
    BY <1>4 DEF vars, Listen, FinalizeFailed, ListLibrary, RetryPrune, trackVars, importVars, diskVars
  <2> QED BY <1>1, <2>1
<1> QED BY <1>2, <1>3, <1>4, ImportTags, PruneTags DEF Next, FinalizeScan

\* If files do not change while they are read, the rows a scan leaves have the
\* tags of their files too, but where a file was taken for one that looks like
\* it, or could not be read (prune.py, "Reconcile the tracks table with the audio
\* files on disk").
THEOREM LibraryReconciled ==
    ASSUME ~DuringScan
    PROVE  Spec => []Reconciled
<1>1. Init => TagsHold
  BY DEF Init, TagsHold, Reads
<1>2. IInv /\ Scanned /\ TagsHold /\ [Next]_vars => TagsHold'
  BY TagsNext
<1>3. Scanned /\ TagsHold => Reconciled
  BY DEF Scanned, TagsHold, Reconciled, TracksAreFiles
<1> QED BY <1>1, <1>2, <1>3, Inductive, ScannedInit, ScannedNext, PTL DEF Spec

-----------------------------------------------------------------------------
(* Files that are moved, between scans that are not disturbed.               *)

\* The file of t was moved, can be told by its looks, and has no row where it is
\* but one of the scan that runs.
Waits(t, v) ==
    /\ v \in moved /\ Distinct(v) /\ t.stamp = v /\ disk[t.path] = NoFile
    /\ v \in Stored
    /\ \A u \in tracks : disk[u.path] = v => phase # "idle" /\ u.created = scan

\* t is the track under which v was played.
HeardTrack(t, v) ==
    /\ t.id = heard[v]
    /\ phase # "idle" => t.created < scan
    /\ disk[t.path] = v \/ Waits(t, v)

\* A file whose track must be found.
Findable(v) == v \notin moved \/ (Distinct(v) /\ v \notin risked)

Kept ==
    \A v \in Versions :
        heard[v] # NoId /\ Findable(v) => \E t \in tracks : HeardTrack(t, v)

\* A file is at one place.
OnePlace == \A p, q \in Paths : disk[p] = disk[q] => p = q \/ disk[p] = NoFile

\* No two rows that a prune may find missing look the same, unless one is of a
\* file that could not be imported.
OneStamp ==
    \A t, u \in tracks :
        t.stamp = u.stamp /\ t.stamp \notin risked /\ (phase # "idle" => t.path \notin OnDisk /\ u.path \notin OnDisk)
            => t = u

\* A scan is not disturbed.
Undisturbed ==
    /\ \A f \in Folders : folder[f] # "failed"
    /\ phase # "idle" => mounted /\ clean

MInv == IInv /\ CreatedBefore /\ Scanned /\ Undisturbed /\ OnePlace /\ OneStamp /\ Kept

LEMMA DistinctStays == \A v : Distinct(v)' <=> Distinct(v)
BY DEF Distinct, Alone

LEMMA DistinctIs ==
    ASSUME NEW u \in Versions, NEW v \in Versions, Distinct(v), <<u, v>> \in Like \/ <<v, u>> \in Like
    PROVE  u = v
BY Constants DEF Distinct, Alone

LEMMA MInit == Init => MInv
<1> SUFFICES ASSUME Init PROVE MInv
  OBVIOUS
<1>1. OnePlace /\ Undisturbed
  BY DEF Init, OnePlace, Undisturbed
<1>2. OneStamp /\ Kept /\ CreatedBefore
  BY DEF Init, OneStamp, Kept, CreatedBefore
<1> QED BY <1>1, <1>2, InitInv, ScannedInit DEF MInv

\* Between scans a change leaves the history of a file it does not touch.
LEMMA HistoryStays ==
    ASSUME NEW w \in Versions, NEW t \in tracks, HeardTrack(t, w),
           UNCHANGED <<tracks, phase>>, phase = "idle", heard'[w] = heard[w], t.path \in Paths,
           w \in moved => w \in moved',
           \A u \in tracks : u.path \in Paths,
           \A x \in Paths : disk'[x] = w <=> disk[x] = w,
           Waits(t, w) => disk'[t.path] = NoFile
    PROVE  HeardTrack(t, w)'
<1>1. CASE disk[t.path] = w
  BY <1>1 DEF HeardTrack
<1>2. CASE Waits(t, w)
  <2>1. w \in Stored'
    BY <1>2 DEF Waits, Stored
  <2>2. Distinct(w)'
    BY <1>2, DistinctStays DEF Waits
  <2>3. Waits(t, w)'
    BY <1>2, <2>1, <2>2 DEF Waits
  <2> QED BY <2>3 DEF HeardTrack
<1> QED BY <1>1, <1>2 DEF HeardTrack

LEMMA ChangeKept == ASSUME ~DuringScan, MInv, ChangeFiles PROVE Kept' /\ OnePlace'
<1> USE DEF trackVars, importVars, ghostVars, diskVars
<1>t. /\ TypeOK /\ \A t, u \in tracks : t.id = u.id => t = u
      /\ \A t \in tracks : t.path \in Paths /\ t.stamp \in Versions
      /\ disk \in [Paths -> Versions \cup {NoFile}] /\ heard \in [Versions -> Nat]
      /\ NoFile \notin Versions /\ OnePlace
      /\ \A p \in OnDisk : p \in Paths /\ disk[p] \in Versions
  BY Constants, OnDiskType DEF MInv, IInv, OneTrackPerPath, TypeOK, Row
<1>1. UNCHANGED <<tracks, phase>> /\ phase = "idle"
  <2>1. UNCHANGED <<tracks, phase>>
    BY DEF ChangeFiles, Remove, Add, Edit, Move, Unmount, Mount, MayChange
  <2>2. phase = "idle"
    BY DEF ChangeFiles, Remove, Add, Edit, Move, Unmount, Mount, MayChange, MInv, Undisturbed
  <2> QED BY <2>1, <2>2
<1>k. ASSUME NEW w \in Versions, heard'[w] # NoId, Findable(w)',
             heard'[w] = heard[w], w \in moved <=> w \in moved', w \in risked => w \in risked'
      PROVE  \E t \in tracks : HeardTrack(t, w)
  BY <1>k, DistinctStays DEF MInv, Kept, Findable
<1>2. ASSUME NEW p \in Paths, Remove(p) PROVE Kept' /\ OnePlace'
  <2>1. /\ disk' = [disk EXCEPT ![p] = NoFile] /\ heard' = [heard EXCEPT ![disk[p]] = NoId]
        /\ disk[p] \in Versions /\ moved' = moved /\ risked' = risked
    BY <1>t, <1>2 DEF Remove
  <2>2. ASSUME NEW w \in Versions, heard'[w] # NoId, Findable(w)'
        PROVE  \E t \in tracks' : HeardTrack(t, w)'
    <3>1. w # disk[p] /\ heard'[w] = heard[w]
      BY <1>t, <2>1, <2>2
    <3>2. PICK t \in tracks : HeardTrack(t, w)
      BY <1>k, <2>1, <2>2, <3>1
    <3>3. \A x \in Paths : disk'[x] = w <=> disk[x] = w
      BY <1>t, <2>1, <3>1
    <3>4. Waits(t, w) => disk'[t.path] = NoFile
      BY <1>t, <2>1 DEF Waits
    <3> QED BY <1>t, <1>1, <2>1, <3>1, <3>2, <3>3, <3>4, HistoryStays
  <2>3. OnePlace'
    BY <1>t, <2>1 DEF OnePlace
  <2> QED BY <2>2, <2>3 DEF Kept
<1>3. ASSUME NEW p \in Paths, NEW v \in Versions, Add(p, v) PROVE Kept' /\ OnePlace'
  <2>1. /\ disk' = [disk EXCEPT ![p] = v] /\ heard' = heard /\ moved' = moved
        /\ disk[p] = NoFile /\ v \notin Stored
        /\ risked' = risked \cup TrackAt(p)
    BY <1>3 DEF Add
  <2>2. ASSUME NEW w \in Versions, heard'[w] # NoId, Findable(w)'
        PROVE  \E t \in tracks' : HeardTrack(t, w)'
    <3>2. PICK t \in tracks : HeardTrack(t, w)
      BY <1>k, <2>1, <2>2
    <3>1. w # v
      BY <1>t, <2>1, <3>2 DEF HeardTrack, Waits, Stored
    <3>3. \A x \in Paths : disk'[x] = w <=> disk[x] = w
      BY <1>t, <2>1, <3>1
    <3>4. Waits(t, w) => t.path # p
      BY <2>1, <2>2, <3>2 DEF HeardTrack, TrackAt, Findable, Waits
    <3>5. Waits(t, w) => disk'[t.path] = NoFile
      BY <1>t, <2>1, <3>4 DEF Waits
    <3> QED BY <1>t, <1>1, <2>1, <3>2, <3>3, <3>5, HistoryStays
  <2>3. OnePlace'
    BY <1>t, <2>1 DEF OnePlace, Stored
  <2> QED BY <2>2, <2>3 DEF Kept
<1>4. ASSUME NEW p \in Paths, NEW new \in Versions, Edit(p, new) PROVE Kept' /\ OnePlace'
  <2>0. PICK old : old = disk[p]
    OBVIOUS
  <2>1. /\ disk' = [disk EXCEPT ![p] = new]
        /\ heard' = [heard EXCEPT ![old] = NoId, ![new] = HeardAs(old, {t \in tracks : t.path = p})]
        /\ old \in Versions /\ new # old /\ new \notin Stored
        /\ \A w : w # new => (w \in moved <=> w \in moved')
        /\ \A w : w \in risked => w \in risked'
    BY <1>t, <1>4, <2>0 DEF Edit, Stored
  <2>2. ASSUME NEW w \in Versions, heard'[w] # NoId, Findable(w)'
        PROVE  \E t \in tracks' : HeardTrack(t, w)'
    <3>1. CASE w = new
      <4>1. heard'[new] = HeardAs(old, {t \in tracks : t.path = p})
        BY <1>t, <2>1
      <4>2. PICK t \in tracks : t.path = p /\ t.id = heard[old] /\ heard'[new] = heard[old]
        BY <2>2, <3>1, <4>1 DEF HeardAs
      <4>3. HeardTrack(t, new)'
        BY <1>t, <1>1, <2>1, <4>2 DEF HeardTrack
      <4> QED BY <1>1, <3>1, <4>3
    <3>2. CASE w # new
      <4>1. w # old /\ heard'[w] = heard[w]
        BY <1>t, <2>1, <2>2, <3>2
      <4>2. PICK t \in tracks : HeardTrack(t, w)
        BY <1>k, <2>1, <2>2, <3>2, <4>1
      <4>3. \A x \in Paths : disk'[x] = w <=> disk[x] = w
        BY <1>t, <2>0, <2>1, <3>2, <4>1
      <4>4. Waits(t, w) => disk'[t.path] = NoFile
        BY <1>t, <2>0, <2>1 DEF Waits
      <4> QED BY <1>t, <1>1, <2>1, <3>2, <4>1, <4>2, <4>3, <4>4, HistoryStays
    <3> QED BY <3>1, <3>2
  <2>3. OnePlace'
    BY <1>t, <2>1 DEF OnePlace, Stored
  <2> QED BY <2>2, <2>3 DEF Kept
<1>5. ASSUME NEW p \in Paths, NEW q \in Paths, Move(p, q) PROVE Kept' /\ OnePlace'
  <2>0. PICK v : v = disk[p]
    OBVIOUS
  <2>1. /\ disk' = [disk EXCEPT ![q] = v, ![p] = NoFile] /\ v \in Versions /\ disk[q] = NoFile
        /\ heard' = [heard EXCEPT ![v] = HeardAs(v, {t \in tracks : <<t.stamp, v>> \in Like})]
        /\ moved' = moved \cup {v} /\ p # q
        /\ \A w \in TrackAt(q) : w # v => w \in risked'
        /\ \A t \in tracks : t.path = q /\ t.id # heard[v] => v \in risked'
        /\ \A w : w \in risked => w \in risked'
    BY <1>t, <1>5, <2>0 DEF Move
  <2>2. /\ \A x \in Paths : disk'[x] = v <=> x = q
        /\ \A x \in Paths : disk[x] = v <=> x = p
        /\ disk'[p] = NoFile /\ \A x \in Paths : x # q /\ disk[x] = NoFile => disk'[x] = NoFile
    BY <1>t, <2>0, <2>1 DEF OnePlace
  <2>3. ASSUME NEW w \in Versions, heard'[w] # NoId, Findable(w)'
        PROVE  \E t \in tracks' : HeardTrack(t, w)'
    <3>1. CASE w = v
      <4>1. /\ Distinct(v) /\ v \notin risked' /\ Findable(v)
            /\ heard'[v] = HeardAs(v, {t \in tracks : <<t.stamp, v>> \in Like})
        BY <1>t, <2>1, <2>3, <3>1, DistinctStays DEF Findable
      <4>2. PICK t \in tracks : <<t.stamp, v>> \in Like /\ t.id = heard[v] /\ heard'[v] = heard[v]
        BY <2>3, <3>1, <4>1 DEF HeardAs
      <4>3. t.stamp = v
        BY <1>t, <2>1, <4>1, <4>2, DistinctIs
      <4>4. HeardTrack(t, v)
        <5>1. PICK u \in tracks : HeardTrack(u, v)
          BY <2>1, <2>3, <3>1, <4>1, <4>2 DEF MInv, Kept
        <5> QED BY <1>t, <4>2, <5>1 DEF HeardTrack
      <4>5. CASE t.path = q
        <5>1. disk'[t.path] = v
          BY <2>2, <4>5
        <5> QED BY <1>1, <3>1, <4>2, <5>1 DEF HeardTrack
      <4>6. CASE t.path # q
        <5>1. disk'[t.path] = NoFile
          BY <1>t, <2>1, <2>2, <4>4, <4>6 DEF HeardTrack, Waits
        <5>2. \A u \in tracks : u.path # q
          <6> SUFFICES ASSUME NEW u \in tracks, u.path = q PROVE FALSE
            OBVIOUS
          <6>1. u.id = heard[v]
            BY <2>1, <4>1
          <6>2. u = t
            BY <1>t, <4>2, <6>1
          <6> QED BY <4>6, <6>2
        <5>3. v \in Stored' /\ \A u \in tracks' : disk'[u.path] # v
          BY <1>t, <1>1, <2>1, <2>2, <5>2 DEF Stored
        <5>4. Waits(t, v)'
          BY <2>1, <4>1, <4>3, <5>1, <5>3, DistinctStays DEF Waits
        <5> QED BY <1>1, <3>1, <4>2, <5>4 DEF HeardTrack
      <4> QED BY <4>5, <4>6
    <3>2. CASE w # v
      <4>1. heard'[w] = heard[w] /\ (w \in moved <=> w \in moved')
        BY <1>t, <2>1, <2>3, <3>2
      <4>2. PICK t \in tracks : HeardTrack(t, w)
        BY <1>k, <2>1, <2>3, <4>1
      <4>3. \A x \in Paths : disk'[x] = w <=> disk[x] = w
        BY <1>t, <2>0, <2>1, <3>2
      <4>5. Waits(t, w) => t.path # q
        BY <2>1, <2>3, <3>2, <4>1, <4>2 DEF HeardTrack, TrackAt, Findable, Waits
      <4>4. Waits(t, w) => disk'[t.path] = NoFile
        BY <1>t, <2>1, <2>2, <4>5 DEF Waits
      <4> QED BY <1>t, <1>1, <4>1, <4>2, <4>3, <4>4, HistoryStays
    <3> QED BY <3>1, <3>2
  <2>4. OnePlace'
    BY <1>t, <2>0, <2>1 DEF OnePlace
  <2> QED BY <2>3, <2>4 DEF Kept
<1>6. CASE Unmount \/ Mount
  <2>1. UNCHANGED <<disk, heard, moved, risked>>
    BY <1>6 DEF Unmount, Mount
  <2>2. Kept'
    BY <1>1, <2>1, DistinctStays DEF MInv, Kept, Findable, HeardTrack, Waits, Stored
  <2> QED BY <1>t, <2>1, <2>2 DEF OnePlace
<1> QED BY <1>2, <1>3, <1>4, <1>5, <1>6 DEF ChangeFiles

LEMMA ChangeMoves == ASSUME ~DuringScan, MInv, ChangeFiles PROVE MInv'
<1>1. /\ UNCHANGED <<tracks, phase, scan, folder>> /\ phase = "idle"
      /\ \A w : w \in risked => w \in risked'
  <2>1. UNCHANGED <<tracks, phase, scan, folder>>
    BY DEF ChangeFiles, Remove, Add, Edit, Move, Unmount, Mount, MayChange, trackVars, importVars
  <2>2. phase = "idle"
    BY DEF ChangeFiles, Remove, Add, Edit, Move, Unmount, Mount, MayChange, MInv, Undisturbed
  <2>3. \A w : w \in risked => w \in risked'
    BY DEF ChangeFiles, Remove, Add, Edit, Move, Unmount, Mount, ghostVars
  <2> QED BY <2>1, <2>2, <2>3
<1>2. IInv' /\ Scanned' /\ Kept' /\ OnePlace'
  BY ChangeInv, ChangeScanned, ChangeKept DEF MInv
<1>3. CreatedBefore' /\ Undisturbed' /\ OneStamp'
  BY <1>1 DEF MInv, CreatedBefore, Undisturbed, OneStamp
<1> QED BY <1>2, <1>3 DEF MInv

LEMMA ListenMoves == ASSUME ~PlayedInScan, MInv, NEW t \in tracks, Listen(t) PROVE MInv'
<1> USE DEF trackVars, importVars, diskVars
<1>1. /\ UNCHANGED <<disk, mounted, tracks, scan, phase, folder, clean>> /\ phase = "idle"
      /\ disk[t.path] = t.stamp /\ heard' = [heard EXCEPT ![t.stamp] = t.id]
      /\ moved' = moved \ {t.stamp} /\ risked' = risked
  BY DEF Listen
<1>2. t.stamp \in Versions /\ heard \in [Versions -> Nat]
  BY DEF MInv, IInv, TypeOK, Row
<1>3. IInv' /\ Scanned'
  <2>1. Scanned'
    BY ScannedNext DEF MInv, Next
  <2> QED BY <2>1, ListenInv DEF MInv
<1>4. ASSUME NEW w \in Versions, heard'[w] # NoId, Findable(w)'
      PROVE  \E u \in tracks' : HeardTrack(u, w)'
  <2>1. CASE w = t.stamp
    BY <1>1, <1>2, <2>1 DEF HeardTrack
  <2>2. CASE w # t.stamp
    <3>1. heard'[w] = heard[w] /\ Findable(w) /\ (w \in moved => w \in moved')
      BY <1>1, <1>2, <1>4, <2>2, DistinctStays DEF Findable
    <3>2. PICK u \in tracks : HeardTrack(u, w)
      BY <1>4, <3>1 DEF MInv, Kept
    <3>3. Stored' = Stored /\ (Distinct(w)' <=> Distinct(w))
      BY <1>1, DistinctStays DEF Stored
    <3>4. HeardTrack(u, w)'
      BY <1>1, <3>1, <3>2, <3>3 DEF HeardTrack, Waits
    <3> QED BY <1>1, <3>2, <3>4
  <2> QED BY <2>1, <2>2
<1>5. CreatedBefore' /\ Undisturbed' /\ OneStamp' /\ OnePlace'
  BY <1>1 DEF MInv, CreatedBefore, Undisturbed, OneStamp, OnePlace
<1> QED BY <1>3, <1>4, <1>5 DEF MInv, Kept

\* A step of a scan that leaves the table alone.
LEMMA SameMoves ==
    ASSUME MInv, IInv', Scanned', Undisturbed', phase # "idle", phase' # "idle",
           UNCHANGED <<disk, mounted, tracks, scan, heard, moved, risked>>
    PROVE  MInv'
<1>1. OnDisk' = OnDisk /\ Stored' = Stored /\ \A v : Distinct(v)' <=> Distinct(v)
  BY DistinctStays DEF OnDisk, Stored
<1>2. ASSUME NEW t \in tracks, NEW v, HeardTrack(t, v) PROVE HeardTrack(t, v)'
  BY <1>1, <1>2 DEF HeardTrack, Waits
<1>3. Kept'
  BY <1>1, <1>2 DEF MInv, Kept, Findable
<1>4. CreatedBefore' /\ OneStamp' /\ OnePlace'
  BY <1>1 DEF MInv, CreatedBefore, OneStamp, OnePlace
<1> QED BY <1>3, <1>4 DEF MInv

LEMMA StartMoves == MInv /\ StartScan => MInv'
<1> SUFFICES ASSUME MInv, StartScan PROVE MInv'
  OBVIOUS
<1> USE DEF trackVars, importVars, diskVars, ghostVars
<1>1. /\ UNCHANGED <<disk, mounted, tracks, heard, moved, risked>> /\ scan' = scan + 1
      /\ phase = "idle" /\ phase' = "importing" /\ clean' = TRUE
      /\ folder' = [f \in Folders |-> IF FilesIn(f) = {} THEN "none" ELSE "pending"]
  BY DEF StartScan
<1>2. OnDisk' = OnDisk /\ Stored' = Stored /\ \A v : Distinct(v)' <=> Distinct(v)
  BY <1>1, DistinctStays DEF OnDisk, Stored
<1>3. scan \in Nat /\ \A t \in tracks : t.created \in Nat /\ t.created <= scan
  BY DEF MInv, IInv, TypeOK, Row, CreatedBefore
<1>4. ASSUME NEW t \in tracks, NEW v, HeardTrack(t, v) PROVE HeardTrack(t, v)'
  BY <1>1, <1>2, <1>3, <1>4 DEF HeardTrack, Waits
<1>5. Kept'
  BY <1>1, <1>2, <1>4 DEF MInv, Kept, Findable
<1>6. Undisturbed'
  <2>1. mounted
    BY DEF StartScan, OnDisk
  <2> QED BY <1>1, <2>1 DEF Undisturbed
<1>7. CreatedBefore' /\ OneStamp' /\ OnePlace'
  BY <1>1, <1>3 DEF MInv, CreatedBefore, OneStamp, OnePlace
<1> QED BY <1>5, <1>6, <1>7, StartInv, StartScanned DEF MInv

LEMMA ImportMoves == ASSUME ~FoldersMayFail, MInv, NEW f \in Folders, ImportFolder(f) PROVE MInv'
<1> USE DEF trackVars, importVars, diskVars, ghostVars
<1>t. TypeOK /\ IInv /\ Scanned /\ \A t \in tracks : t \in Row
  BY DEF MInv, IInv, TypeOK
<1>1. UNCHANGED <<disk, mounted, scan, phase, heard, moved, risked, clean>>
  BY DEF ImportFolder, BeginFolder, SkipFile, ReadTags, FailFile, StoreFile, FolderDone,
         RetryFolder, FailFolder
<1>2. phase = "importing"
  <2>1. folder[f] \in {"pending", "importing"}
    BY DEF ImportFolder, BeginFolder, SkipFile, ReadTags, FailFile, StoreFile, FolderDone,
         RetryFolder, FailFolder
  <2> QED BY <1>t, <2>1 DEF Scanned, FoldersFinished
<1>3. Undisturbed'
  <2>1. \A g \in Folders : folder'[g] \in {folder[g], "pending", "importing", "completed"}
    BY <1>t DEF ImportFolder, BeginFolder, SkipFile, ReadTags, FailFile, StoreFile, FolderDone,
                RetryFolder, FailFolder, TypeOK
  <2> QED BY <1>1, <2>1 DEF MInv, Undisturbed
<1>4. IInv' /\ Scanned'
  BY <1>t, ImportInv, ImportScanned
<1>5. CASE tracks' = tracks
  BY <1>1, <1>2, <1>3, <1>4, <1>5, SameMoves
<1>6. CASE tracks' # tracks
  <2>1. PICK p, tags : p \in OnDisk /\ Upsert(p, disk[p], tags)
    BY <1>t, <1>6, ImportStores
  <2>2. /\ \A t \in tracks : t.path # p => t \in tracks'
        /\ \A u \in tracks' : u.path # p => u \in tracks
        /\ \A u \in tracks' : u.created = scan \/ \E t \in tracks : t.path = u.path /\ t.created = u.created
    BY <1>t, <2>1, UpsertIs
  <2>3. \A t \in tracks : \E u \in tracks' : u.id = t.id /\ u.path = t.path /\ u.created = t.created
    BY <1>t, <2>1, UpsertRows
  <2>4. OnDisk' = OnDisk /\ Stored' = Stored /\ \A v : Distinct(v)' <=> Distinct(v)
    BY <1>1, DistinctStays DEF OnDisk, Stored
  <2>5. ASSUME NEW t \in tracks, NEW v \in Versions, HeardTrack(t, v)
        PROVE  \E u \in tracks' : HeardTrack(u, v)'
    <3>1. CASE disk[t.path] = v
      <4>1. PICK u \in tracks' : u.id = t.id /\ u.path = t.path /\ u.created = t.created
        BY <2>3
      <4> QED BY <1>1, <2>5, <3>1, <4>1 DEF HeardTrack
    <3>2. CASE Waits(t, v)
      <4>1. t.path # p
        BY <2>1, <3>2 DEF Waits, OnDisk
      <4>2. \A u \in tracks' : disk'[u.path] = v => phase' # "idle" /\ u.created = scan'
        BY <1>1, <1>2, <2>2, <3>2 DEF Waits
      <4>3. Waits(t, v)'
        BY <1>1, <2>4, <3>2, <4>2 DEF Waits
      <4> QED BY <1>1, <2>2, <2>5, <4>1, <4>3 DEF HeardTrack
    <3> QED BY <2>5, <3>1, <3>2 DEF HeardTrack
  <2>6. Kept'
    BY <1>1, <2>4, <2>5 DEF MInv, Kept, Findable
  <2>7. OneStamp'
    BY <1>1, <1>2, <2>1, <2>2, <2>4 DEF MInv, OneStamp
  <2>8. CreatedBefore'
    <3>1. scan \in Nat
      BY <1>t DEF TypeOK
    <3> QED BY <1>1, <2>2, <3>1 DEF MInv, CreatedBefore
  <2>9. OnePlace'
    BY <1>1 DEF MInv, OnePlace
  <2> QED BY <1>3, <1>4, <2>6, <2>7, <2>8, <2>9 DEF MInv
<1> QED BY <1>5, <1>6

\* A prune finds the row of a moved file: it is the only one that is missing and
\* looks like the only new one that does.
LEMMA MovePaired ==
    ASSUME MInv, phase = "pruning", NEW v \in Versions, NEW t \in tracks, Waits(t, v),
           v \notin risked, v \notin Unread
    PROVE  \E u \in tracks : <<t, u>> \in Pairs /\ disk[u.path] = v
<1>t. /\ IInv /\ Scanned /\ clean /\ mounted /\ listing = OnDisk /\ FoldersFinished
      /\ \A x \in tracks : x.stamp \in Versions /\ x.path \in Paths
      /\ NoFile \notin Versions /\ scan \in Nat
  BY Constants DEF MInv, Undisturbed, Scanned, IInv, TypeOK, Row
<1>1. PICK p \in Paths : disk[p] = v
  BY DEF Waits, Stored
<1>2. p \in OnDisk
  BY <1>t, <1>1 DEF OnDisk
<1>3. PICK u \in tracks : u.path = p /\ u.stamp = v
  <2>1. p \notin failed
    BY <1>1 DEF Unread
  <2> QED BY <1>t, <1>1, <1>2, <2>1, AllImported DEF Imported
<1>4. u \in FirstSeen
  BY <1>t, <1>1, <1>2, <1>3 DEF Waits, FirstSeen
<1>5. t.path \notin OnDisk /\ t \in Missing /\ t.stamp = v /\ Distinct(v)
  BY <1>t DEF Waits, OnDisk, Missing
<1>6. <<v, v>> \in Like
  BY <1>5 DEF Distinct
<1>7. ASSUME NEW x \in FirstSeen, <<v, x.stamp>> \in Like PROVE x = u
  <2>1. x \in tracks /\ x.path \in listing
    BY DEF FirstSeen
  <2>2. x.stamp = v
    BY <1>t, <1>5, <1>7, <2>1, DistinctIs
  <2>0. x.path \notin failed
    BY <2>1, <2>2 DEF Unread
  <2>3. disk[x.path] = v
    BY <1>t, <2>0, <2>1, <2>2, RowsAreRight
  <2>4. x.path = p
    BY <1>t, <1>1, <2>1, <2>3 DEF MInv, OnePlace
  <2> QED BY <1>t, <1>3, <2>1, <2>4 DEF IInv, OneTrackPerPath
<1>8. ASSUME NEW y \in Missing, <<v, y.stamp>> \in Like PROVE y = t
  <2>1. y \in tracks /\ y.path \notin OnDisk
    BY <1>t DEF Missing
  <2>2. y.stamp = v
    BY <1>t, <1>5, <1>8, <2>1, DistinctIs
  <2> QED BY <1>5, <2>1, <2>2 DEF MInv, OneStamp
<1>9. Candidates(t, FirstSeen) = {u} /\ Candidates(u, Missing) = {t}
  BY <1>3, <1>4, <1>5, <1>6, <1>7, <1>8 DEF Candidates
<1> QED BY <1>1, <1>3, <1>4, <1>5, <1>9, PairIs

LEMMA PruneMoves == MInv /\ PruneLibrary => MInv'
<1> SUFFICES ASSUME MInv, PruneLibrary PROVE MInv'
  OBVIOUS
<1> USE DEF importVars, diskVars, ghostVars
<1>1. /\ UNCHANGED <<disk, mounted, scan, folder, failed, heard, moved, clean>>
      /\ phase = "pruning" /\ phase' = "idle" /\ risked' = risked \cup Unread
  BY DEF PruneLibrary
<1>t. /\ IInv /\ TypeOK /\ Scanned /\ clean /\ mounted /\ listing = OnDisk
      /\ \A x \in tracks : x.path \in Paths /\ x.created \in Nat
      /\ NoFile \notin Versions /\ scan \in Nat
  BY <1>1, Constants DEF MInv, Undisturbed, Scanned, IInv, TypeOK, Row
<1>2. IInv' /\ Scanned'
  BY <1>t, PruneInv, PruneScanned
<1>3. Undisturbed' /\ OnePlace'
  BY <1>1 DEF MInv, Undisturbed, OnePlace
<1>4. CreatedBefore'
  BY <1>1, <1>t, PruneRows DEF MInv, CreatedBefore
<1>5. OneStamp'
  <2>1. TracksAreFiles' /\ OnDisk' = OnDisk
    BY <1>1, <1>2, <1>t DEF Scanned, OnDisk
  <2>2. ASSUME NEW a \in tracks', a.stamp \notin risked'
        PROVE  a.path \in OnDisk /\ a.stamp = disk[a.path]
    <3>1. a.path \in OnDisk
      BY <2>1 DEF TracksAreFiles
    <3>2. a.path \notin failed
      <4> SUFFICES ASSUME a.path \in failed PROVE FALSE
        OBVIOUS
      <4>1. PICK u \in tracks : a.path = u.path /\ a.stamp = u.stamp
        BY <1>t, PruneRows
      <4>2. u.stamp \in Versions
        BY <1>t DEF TypeOK, Row
      <4> QED BY <1>1, <2>2, <4>1, <4>2 DEF Unread
    <3>3. <<a.path, a.stamp>> \in {<<p, disk[p]>> : p \in OnDisk \ failed}
      BY <1>1, <2>1, <3>2 DEF TracksAreFiles
    <3> QED BY <3>3
  <2>3. \A p \in OnDisk : p \in Paths /\ disk[p] # NoFile
    BY DEF OnDisk
  <2> QED BY <1>2, <1>t, <2>2, <2>3 DEF OneStamp, MInv, OnePlace, IInv, OneTrackPerPath
<1>6. ASSUME NEW v \in Versions, NEW t \in tracks, HeardTrack(t, v), Findable(v)'
      PROVE  \E a \in tracks' : HeardTrack(a, v)'
  <2>1. CASE disk[t.path] = v
    <3>1. t.path \in OnDisk
      BY <1>t, <2>1 DEF OnDisk
    <3>2. t \notin Missing /\ t \notin FirstSeen
      BY <1>1, <1>t, <1>6, <3>1 DEF HeardTrack, Missing, FirstSeen
    <3>3. \A x : <<x, t>> \notin Pairs
      BY <3>2, PairIs
    <3>4. t \in tracks'
      BY <1>t, <3>2, <3>3, PruneRows
    <3> QED BY <1>1, <1>6, <2>1, <3>4 DEF HeardTrack
  <2>2. CASE Waits(t, v)
    <3>1. PICK u \in tracks : <<t, u>> \in Pairs /\ disk[u.path] = v
      BY <1>1, <1>6, <2>2, MovePaired DEF Waits, Findable
    <3>2. PICK a \in tracks' : a.id = t.id /\ a.path = u.path
      BY <1>t, <3>1, PruneRows
    <3> QED BY <1>1, <1>6, <3>1, <3>2 DEF HeardTrack
  <2> QED BY <1>6, <2>1, <2>2 DEF HeardTrack
<1>7. Kept'
  BY <1>1, <1>6, DistinctStays DEF MInv, Kept, Findable
<1> QED BY <1>2, <1>3, <1>4, <1>5, <1>7 DEF MInv

LEMMA FinalizeMoves == MInv /\ FinalizeScan => MInv'
<1> SUFFICES ASSUME MInv, FinalizeScan PROVE MInv'
  OBVIOUS
<1> USE DEF trackVars, importVars, diskVars, ghostVars
<1>1. IInv' /\ Scanned'
  BY FinalizeInv, FinalizeScanned DEF MInv
<1>2. ~FinalizeFailed
  BY DEF MInv, Undisturbed, FinalizeFailed
<1>3. CASE ListLibrary \/ RetryPrune
  <2>1. UNCHANGED <<disk, mounted, tracks, scan, heard, moved, risked, folder, clean>> /\ phase # "idle"
    BY <1>3 DEF ListLibrary, RetryPrune
  <2>2. phase' # "idle"
    <3>1. OnDisk # {}
      BY <2>1 DEF MInv, Undisturbed, Scanned
    <3> QED BY <1>3, <3>1 DEF ListLibrary, RetryPrune
  <2>3. Undisturbed'
    BY <2>1 DEF MInv, Undisturbed
  <2> QED BY <1>1, <2>1, <2>2, <2>3, SameMoves
<1> QED BY <1>2, <1>3, PruneMoves DEF FinalizeScan

LEMMA MovesNext ==
    ASSUME ~DuringScan, ~PlayedInScan, ~FoldersMayFail, MInv, [Next]_vars
    PROVE  MInv'
<1>1. CASE UNCHANGED vars
  <2>1. IInv' /\ Scanned'
    BY <1>1, StepInv, ScannedNext DEF MInv
  <2> QED BY <1>1, <2>1 DEF vars, MInv, CreatedBefore, Undisturbed, OnePlace, OneStamp, Kept, Findable,
                            HeardTrack, Waits, Distinct, Alone, Stored, OnDisk
<1> QED BY <1>1, ChangeMoves, ListenMoves, StartMoves, ImportMoves, FinalizeMoves DEF Next

\* However files are added, edited, moved in chains and cycles and removed
\* between scans, and whichever imports raise: a file that was played keeps its
\* track, and with it its history, if it stayed in its place, or if it could not
\* be taken for another, neither it nor another took the path of the other's
\* track, and the scans could import it (prune.py).  No folder fails, and nothing
\* changes or is played during a scan: without any of these there is a
\* counterexample.
THEOREM MovedKept ==
    ASSUME ~DuringScan, ~PlayedInScan, ~FoldersMayFail
    PROVE  Spec => []HistoryKept
<1>1. MInv => HistoryKept
  BY DEF MInv, Kept, Findable, HeardTrack, HistoryKept
<1>2. MInv /\ [Next]_vars => MInv'
  BY MovesNext
<1> QED BY <1>1, <1>2, MInit, PTL DEF Spec

\* After a scan the history of a file that could not be taken for another, was
\* not put in the place of another's track, and was imported, is that of the
\* track at its path, wherever it was moved.
THEOREM HistoryIsFollowed ==
    ASSUME ~DuringScan, ~PlayedInScan, ~FoldersMayFail
    PROVE  Spec => []HistoryFollows
<1>1. MInv => HistoryFollows
  <2> SUFFICES ASSUME MInv, phase = "idle", clean, NEW v \in Versions, heard[v] # NoId, Distinct(v),
                      v \notin risked
               PROVE  \E t \in tracks : t.id = heard[v] /\ disk[t.path] = v
    BY DEF HistoryFollows
  <2>1. PICK t \in tracks : HeardTrack(t, v)
    BY DEF MInv, Kept, Findable
  <2>2. t.path \in OnDisk
    BY DEF MInv, Scanned, TracksAreFiles
  <2>3. disk[t.path] # NoFile
    BY <2>2 DEF OnDisk
  <2> QED BY <2>1, <2>3 DEF HeardTrack, Waits
<1>2. MInv /\ [Next]_vars => MInv'
  BY MovesNext
<1> QED BY <1>1, <1>2, MInit, PTL DEF Spec
=============================================================================
