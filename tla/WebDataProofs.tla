--------------------------- MODULE WebDataProofs ---------------------------
(***************************************************************************)
(* Proofs about WebData: that a page which awaits nothing shows what the   *)
(* last invalidation asked for and what its own changes made, and that the *)
(* data it shows never goes back.                                          *)
(*                                                                         *)
(* The invariant has a part for the cache (what a fetch will bring, and    *)
(* what is not stale, is new enough for the last invalidation) and one for *)
(* the hooks (an own change has been told to every page that can follow    *)
(* it), which rests on the tables of what the hooks tell and the handlers  *)
(* change.                                                                 *)
(***************************************************************************)
EXTENDS WebData, TLAPS

-----------------------------------------------------------------------------
(* The tables *)

Names == {"saveStation", "deleteStation", "hide", "restore", "dismiss", "removePick", "addPlaylist",
          "syncPlaylist", "deletePlaylist", "like", "ban", "revokeDevice", "scan", "rescan",
          "genreStations", "genreStation", "correct", "uncorrect", "refresh", "rebuildGenres", "deleteUser"}

LEMMA NamesAre == Mutations = Names
BY DEF Mutations, Hooks, Names

LEMMA HooksAre ==
    /\ Hooks["saveStation"] = SaveStation /\ Hooks["deleteStation"] = DeleteStation
    /\ Hooks["hide"] = HideTrack /\ Hooks["restore"] = HideTrack /\ Hooks["dismiss"] = DismissSuggestion
    /\ Hooks["removePick"] = RemovePick /\ Hooks["addPlaylist"] = PlaylistActions
    /\ Hooks["syncPlaylist"] = PlaylistActions /\ Hooks["deletePlaylist"] = PlaylistActions
    /\ Hooks["like"] = SetFeedback("likes") /\ Hooks["ban"] = SetFeedback("bans")
    /\ Hooks["revokeDevice"] = RevokeDevice /\ Hooks["scan"] = StartScan /\ Hooks["rescan"] = StartScan
    /\ Hooks["genreStations"] = GenreStationsSaved /\ Hooks["genreStation"] = GenreStationsSaved
    /\ Hooks["correct"] = CorrectionActions /\ Hooks["uncorrect"] = CorrectionActions
    /\ Hooks["refresh"] = RefreshPipeline /\ Hooks["rebuildGenres"] = RebuildGenres
    /\ Hooks["deleteUser"] = DeleteUser
BY DEF Hooks

LEMMA ToldAre ==
    /\ Hooks["saveStation"].tells = {"queue", "stations", "suggestions", "browse", "genreStations"}
    /\ Hooks["deleteStation"].tells = {"stations", "suggestions", "browse", "genreStations"}
    /\ Hooks["hide"].tells = {"hidden", "queue", "stations"}
    /\ Hooks["restore"].tells = {"hidden", "queue", "stations"}
    /\ Hooks["dismiss"].tells = {"stations", "suggestions", "browse", "genreStations"}
    /\ Hooks["removePick"].tells = {"playlists", "stations"}
    /\ \A m \in {"addPlaylist", "syncPlaylist", "deletePlaylist"} : Hooks[m].tells = 
            {"playlists", "suggestions", "stations", "browse", "genreStations", "pipeline"}
    /\ Hooks["like"].tells = {"likes"}
    /\ Hooks["ban"].tells = {"bans"}
    /\ Hooks["revokeDevice"].tells = {"devices"}
    /\ Hooks["scan"].tells = {"scans"}
    /\ Hooks["rescan"].tells = {"scans"}
    /\ Hooks["genreStations"].tells = {"stations", "suggestions", "browse", "pipeline"}
    /\ Hooks["genreStation"].tells = {"stations", "suggestions", "browse", "pipeline"}
    /\ Hooks["correct"].tells = {"genreReview"}
    /\ Hooks["uncorrect"].tells = {"genreReview"}
    /\ Hooks["refresh"].tells = {"pipeline", "genreStations", "stations", "suggestions", "playlists", "browse"}
    /\ Hooks["rebuildGenres"].tells = {}
    /\ Hooks["deleteUser"].tells = {"users"}
BY HooksAre
   DEF Hook, Tells, InvalidateStations, SaveStation, DeleteStation, HideTrack,
       DismissSuggestion,
   RemovePick, PlaylistActions, SetFeedback, RevokeDevice, StartScan, GenreStationsSaved,
   CorrectionActions, RefreshPipeline, RebuildGenres, DeleteUser

LEMMA SetsAre ==
    \A m \in Mutations :
        Hooks[m].sets = IF m = "saveStation" THEN {"station"}
                        ELSE IF m \in {"genreStations", "genreStation"} THEN {"genreStations"}
                        ELSE IF m \in {"correct", "uncorrect"} THEN {"genreCorrections"} ELSE {}
<1>1. /\ SaveStation.sets = {"station"} /\ GenreStationsSaved.sets = {"genreStations"}
      /\ CorrectionActions.sets = {"genreCorrections"}
  BY DEF SaveStation, GenreStationsSaved, CorrectionActions, Hook
<1>2. /\ DeleteStation.sets = {} /\ HideTrack.sets = {} /\ DismissSuggestion.sets = {}
      /\ RemovePick.sets = {} /\ PlaylistActions.sets = {} /\ RevokeDevice.sets = {}
      /\ StartScan.sets = {} /\ RefreshPipeline.sets = {} /\ RebuildGenres.sets = {}
      /\ DeleteUser.sets = {} /\ SetFeedback("likes").sets = {} /\ SetFeedback("bans").sets = {}
  BY DEF DeleteStation, HideTrack, DismissSuggestion, RemovePick, PlaylistActions, RevokeDevice,
         StartScan, RefreshPipeline, RebuildGenres, DeleteUser, SetFeedback, Tells, Hook
<1>3. /\ Hooks["saveStation"].sets = {"station"}
      /\ Hooks["genreStations"].sets = {"genreStations"}
      /\ Hooks["genreStation"].sets = {"genreStations"}
      /\ Hooks["correct"].sets = {"genreCorrections"} /\ Hooks["uncorrect"].sets = {"genreCorrections"}
  BY <1>1, HooksAre
<1>4. \A m \in Names \ {"saveStation", "genreStations", "genreStation", "correct", "uncorrect"} :
          Hooks[m].sets = {}
  BY <1>2, HooksAre DEF Names
<1> QED BY <1>3, <1>4, NamesAre

LEMMA ChangesAre ==
    /\ Changes["saveStation"] = StationChange /\ Changes["deleteStation"] = StationChange
    /\ Changes["hide"] = HideChange /\ Changes["restore"] = HideChange
    /\ Changes["dismiss"] = {"suggestions"} /\ Changes["removePick"] = PicksChange
    /\ \A m \in {"addPlaylist", "syncPlaylist", "deletePlaylist"} : Changes[m] = RunChange
    /\ Changes["like"] = {"likes", "queue"} /\ Changes["ban"] = {"bans"} \cup PoolChange
    /\ Changes["revokeDevice"] = {"devices"}
    /\ Changes["scan"] = ScanChange /\ Changes["rescan"] = ScanChange
    /\ Changes["genreStations"] = RunChange /\ Changes["genreStation"] = RunChange
    /\ Changes["correct"] = CorrectionChange /\ Changes["uncorrect"] = CorrectionChange
    /\ Changes["refresh"] = MatchChange
    /\ Changes["rebuildGenres"] = {} /\ Changes["deleteUser"] = UserChange
<1>1. FeedbackChange.like = {"likes", "queue"} /\ FeedbackChange.ban = {"bans"} \cup PoolChange
  BY DEF FeedbackChange
<1> HIDE DEF FeedbackChange
<1> QED BY <1>1 DEF Changes

LEMMA CoveredIs ==
    ASSUME NEW K, NEW q
    PROVE  q \in Covered(K) <=> \/ q \in K
                                \/ q = "station" /\ "stations" \in K
                                \/ q \in {"playlist", "picks"} /\ "playlists" \in K
BY DEF Covered

\* The changes no hook tells.
NoHookTells ==
    (Mutations \X {"stationSearch", "poolGenres"})
        \cup ({"ban"} \X {"stations", "station", "queue"})
        \cup ({"hide", "restore", "refresh", "deleteUser"} \X {"genreReview"})
        \cup ({"scan", "rescan"} \X {"pipeline"})
        \cup ({"genreStations", "genreStation"} \X {"playlists", "playlist", "picks"})
        \cup {<<"like", "queue">>, <<"removePick", "suggestions">>}
\* The mutations that leave a station's songs untold, on other pages than its own.
QueueSilent ==
    {"deleteStation", "removePick", "addPlaylist", "syncPlaylist", "deletePlaylist",
     "genreStations", "genreStation", "refresh"}

LEMMA ChangesTold ==
    ASSUME NEW m \in Mutations,
           NEW q \in Changes[m], q \notin Overwritten, <<m, q>> \notin NoHookTells
    PROVE  q \in Covered(Hooks[m].tells) \/ (q = "queue" /\ m \in QueueSilent)
<1>0. q \in Covered(Hooks[m].tells) <=>
        \/ q \in Hooks[m].tells
        \/ q = "station" /\ "stations" \in Hooks[m].tells
        \/ q \in {"playlist", "picks"} /\ "playlists" \in Hooks[m].tells
  BY CoveredIs
<1>22. /\ q \notin {"stationSearch", "poolGenres"}
       /\ m = "ban" => q \notin {"stations", "station", "queue"}
       /\ m \in {"hide", "restore", "refresh", "deleteUser"} => q # "genreReview"
       /\ m \in {"scan", "rescan"} => q # "pipeline"
       /\ m \in {"genreStations", "genreStation"} => q \notin {"playlists", "playlist", "picks"}
       /\ m = "like" => q # "queue"
       /\ m = "removePick" => q # "suggestions"
  BY DEF NoHookTells
<1>1. CASE m = "saveStation"
  <2>1. q \in {"stations", "station", "queue", "stationSearch", "browse", "suggestions", "genreStations"}
    BY <1>1, ChangesAre DEF StationChange, PoolChange
  <2> QED BY <1>1, <1>0, <1>22, <2>1, ToldAre DEF QueueSilent, Overwritten
<1>2. CASE m = "deleteStation"
  <2>1. q \in {"stations", "station", "queue", "stationSearch", "browse", "suggestions", "genreStations"}
    BY <1>2, ChangesAre DEF StationChange, PoolChange
  <2> QED BY <1>2, <1>0, <1>22, <2>1, ToldAre DEF QueueSilent, Overwritten
<1>3. CASE m = "hide"
  <2>1. q \in {"hidden", "genreReview", "stations", "station", "queue", "stationSearch"}
    BY <1>3, ChangesAre DEF HideChange, PoolChange
  <2> QED BY <1>3, <1>0, <1>22, <2>1, ToldAre DEF QueueSilent, Overwritten
<1>4. CASE m = "restore"
  <2>1. q \in {"hidden", "genreReview", "stations", "station", "queue", "stationSearch"}
    BY <1>4, ChangesAre DEF HideChange, PoolChange
  <2> QED BY <1>4, <1>0, <1>22, <2>1, ToldAre DEF QueueSilent, Overwritten
<1>5. CASE m = "dismiss"
  BY <1>5, <1>0, <1>22, ChangesAre, ToldAre
     DEF QueueSilent, Overwritten
<1>6. CASE m = "removePick"
  <2>1. q \in {"playlists", "playlist", "picks", "poolGenres", "suggestions", "stations", "station", "queue", "stationSearch"}
    BY <1>6, ChangesAre DEF PicksChange, PoolChange
  <2> QED BY <1>6, <1>0, <1>22, <2>1, ToldAre DEF QueueSilent, Overwritten
<1>7. CASE m = "addPlaylist"
  <2>1. q \in {"playlists", "playlist", "picks", "poolGenres", "suggestions", "stations",
            "station", "queue", "stationSearch", "browse", "genreStations", "pipeline"}
    BY <1>7, ChangesAre DEF RunChange, PicksChange, StationChange, PoolChange
  <2> QED BY <1>7, <1>0, <1>22, <2>1, ToldAre DEF QueueSilent, Overwritten
<1>8. CASE m = "syncPlaylist"
  <2>1. q \in {"playlists", "playlist", "picks", "poolGenres", "suggestions", "stations",
            "station", "queue", "stationSearch", "browse", "genreStations", "pipeline"}
    BY <1>8, ChangesAre DEF RunChange, PicksChange, StationChange, PoolChange
  <2> QED BY <1>8, <1>0, <1>22, <2>1, ToldAre DEF QueueSilent, Overwritten
<1>9. CASE m = "deletePlaylist"
  <2>1. q \in {"playlists", "playlist", "picks", "poolGenres", "suggestions", "stations",
            "station", "queue", "stationSearch", "browse", "genreStations", "pipeline"}
    BY <1>9, ChangesAre DEF RunChange, PicksChange, StationChange, PoolChange
  <2> QED BY <1>9, <1>0, <1>22, <2>1, ToldAre DEF QueueSilent, Overwritten
<1>10. CASE m = "like"
  BY <1>10, <1>0, <1>22, ChangesAre, ToldAre
     DEF QueueSilent, Overwritten
<1>11. CASE m = "ban"
  <2>1. q \in {"bans", "stations", "station", "queue", "stationSearch"}
    BY <1>11, ChangesAre DEF PoolChange
  <2> QED BY <1>11, <1>0, <1>22, <2>1, ToldAre DEF QueueSilent, Overwritten
<1>12. CASE m = "revokeDevice"
  BY <1>12, <1>0, <1>22, ChangesAre, ToldAre
     DEF QueueSilent, Overwritten
<1>13. CASE m = "scan"
  <2>1. q \in {"scans", "pipeline"}
    BY <1>13, ChangesAre DEF ScanChange
  <2> QED BY <1>13, <1>0, <1>22, <2>1, ToldAre DEF QueueSilent, Overwritten
<1>14. CASE m = "rescan"
  <2>1. q \in {"scans", "pipeline"}
    BY <1>14, ChangesAre DEF ScanChange
  <2> QED BY <1>14, <1>0, <1>22, <2>1, ToldAre DEF QueueSilent, Overwritten
<1>15. CASE m = "genreStations"
  <2>1. q \in {"playlists", "playlist", "picks", "poolGenres", "suggestions", "stations",
            "station", "queue", "stationSearch", "browse", "genreStations", "pipeline"}
    BY <1>15, ChangesAre DEF RunChange, PicksChange, StationChange, PoolChange
  <2> QED BY <1>15, <1>0, <1>22, <2>1, ToldAre DEF QueueSilent, Overwritten
<1>16. CASE m = "genreStation"
  <2>1. q \in {"playlists", "playlist", "picks", "poolGenres", "suggestions", "stations",
            "station", "queue", "stationSearch", "browse", "genreStations", "pipeline"}
    BY <1>16, ChangesAre DEF RunChange, PicksChange, StationChange, PoolChange
  <2> QED BY <1>16, <1>0, <1>22, <2>1, ToldAre DEF QueueSilent, Overwritten
<1>17. CASE m = "correct"
  <2>1. q \in {"genreCorrections", "genreReview"}
    BY <1>17, ChangesAre DEF CorrectionChange
  <2> QED BY <1>17, <1>0, <1>22, <2>1, ToldAre DEF QueueSilent, Overwritten
<1>18. CASE m = "uncorrect"
  <2>1. q \in {"genreCorrections", "genreReview"}
    BY <1>18, ChangesAre DEF CorrectionChange
  <2> QED BY <1>18, <1>0, <1>22, <2>1, ToldAre DEF QueueSilent, Overwritten
<1>19. CASE m = "refresh"
  <2>1. q \in {"playlists", "playlist", "picks", "poolGenres", "suggestions", "stations",
            "station", "queue", "stationSearch", "browse", "genreStations", "pipeline", "genreReview"}
    BY <1>19, ChangesAre DEF MatchChange, RunChange, PicksChange, StationChange, PoolChange
  <2> QED BY <1>19, <1>0, <1>22, <2>1, ToldAre DEF QueueSilent, Overwritten
<1>20. CASE m = "rebuildGenres"
  BY <1>20, <1>0, <1>22, ChangesAre, ToldAre
     DEF QueueSilent, Overwritten
<1>21. CASE m = "deleteUser"
  <2>1. q \in {"users", "genreReview"}
    BY <1>21, ChangesAre DEF UserChange
  <2> QED BY <1>21, <1>0, <1>22, <2>1, ToldAre DEF QueueSilent, Overwritten
<1> QED
  BY <1>1, <1>2, <1>3, <1>4, <1>5, <1>6, <1>7, <1>8, <1>9, <1>10, <1>11, <1>12, <1>13, <1>14,
     <1>15, <1>16, <1>17, <1>18, <1>19, <1>20, <1>21, NamesAre
     DEF Names

LEMMA Shown == \A p \in Pages : "queue" \in Shell[p].shows => p \in {"station", "genreStation"}
BY DEF Shell, Pages, Beside, View, Route, Sidebar, PlayerBar, HomePage, StationsPage,
       GenrePage, StationPage, StationEditor,
       PlaylistsPage, PlaylistPage, Picks, AllTracks, FeedbackTracks, HistoryTab, SearchPage,
       BrowseGenres, Devices, AdminPage, HiddenTracks, ForAdmin, Health, Scans, Genres,
       GenreStations, GenreStationRow, GenreReviewRow, GenreReview, Pipeline, Users

LEMMA Offered ==
    ASSUME NEW p \in {"station", "genreStation"}, NEW m \in Shell[p].offers, m \in QueueSilent
    PROVE  m = "deleteStation"
BY DEF Shell, Pages, Beside, View, Route, Sidebar, StationEditor, PlayerBar, StationPage, HiddenTracks,
       ForAdmin, QueueSilent

LEMMA OfferedAreMutations ==
    \A p \in Pages : Shell[p].offers \subseteq Mutations
BY NamesAre
   DEF Names, Shell, Pages, Beside, View, Route, Sidebar, PlayerBar, HomePage, StationsPage,
       GenrePage, StationPage, StationEditor,
       PlaylistsPage, PlaylistPage, Picks, AllTracks, FeedbackTracks, HistoryTab, SearchPage,
       BrowseGenres, Devices, AdminPage, HiddenTracks, ForAdmin, Health, Scans, Genres,
       GenreStations, GenreStationRow, GenreReviewRow, GenreReview, Pipeline, Users

-----------------------------------------------------------------------------
(* The cache's operators, field by field *)

Entries == [data : Versions \cup {NoData}, get : Versions \cup {Sent, Idle}, stale : BOOLEAN]
Calls == [name : Mutations \cup {"none"}, answer : Int, held : BOOLEAN]

LEMMA EntryFields ==
    ASSUME NEW e \in Entries, NEW x
    PROVE  /\ [e EXCEPT !.data = x] = [data |-> x, get |-> e.get, stale |-> e.stale]
           /\ [e EXCEPT !.get = x] = [data |-> e.data, get |-> x, stale |-> e.stale]
           /\ [e EXCEPT !.stale = x] = [data |-> e.data, get |-> e.get, stale |-> x]
BY DEF Entries

LEMMA BegunIs ==
    ASSUME NEW e \in Entries
    PROVE  Begun(e) = [data |-> e.data, get |-> IF e.get = Idle THEN Sent ELSE e.get, stale |-> e.stale]
BY DEF Entries, Begun

LEMMA OpenedIs ==
    ASSUME NEW e \in Entries
    PROVE  Opened(e) = IF e.data = NoData \/ e.stale THEN Begun(e) ELSE e
BY DEF Entries, Opened

LEMMA InvalidatedIs ==
    ASSUME NEW e \in Entries
    PROVE  /\ ~Mounted(page) =>
                Invalidated(e) = [data |-> e.data, get |-> e.get, stale |-> TRUE]
           /\ Mounted(page) /\ e.data = NoData => Invalidated(e) = Begun(e)
           /\ Mounted(page) /\ e.data # NoData =>
                Invalidated(e) = [data |-> e.data, get |-> Sent, stale |-> TRUE]
<1> HIDE DEF Mounted
<1> QED BY DEF Entries, Invalidated

LEMMA WrittenIs ==
    ASSUME NEW e \in Entries, NEW v \in Versions \cup {NoData}
    PROVE  Written(e, v) = [data |-> v, get |-> e.get, stale |-> FALSE]
<1>1. [e EXCEPT !.data = v] = [data |-> v, get |-> e.get, stale |-> e.stale] BY EntryFields
<1>2. [data |-> v, get |-> e.get, stale |-> e.stale] \in Entries BY DEF Entries
<1>3. [[data |-> v, get |-> e.get, stale |-> e.stale] EXCEPT !.stale = FALSE]
        = [data |-> v, get |-> e.get, stale |-> FALSE]
  BY <1>2, EntryFields
<1>4. Written(e, v) = [[e EXCEPT !.data = v] EXCEPT !.stale = FALSE] BY DEF Written
<1> QED BY <1>1, <1>3, <1>4

LEMMA EntriesKept ==
    ASSUME NEW e \in Entries
    PROVE  Begun(e) \in Entries /\ Opened(e) \in Entries /\ Invalidated(e) \in Entries
<1>1. Begun(e) \in Entries BY BegunIs DEF Entries
<1>2. Opened(e) \in Entries BY <1>1, OpenedIs
<1>3. Invalidated(e) \in Entries
  <2>4. /\ [data |-> e.data, get |-> e.get, stale |-> TRUE] \in Entries
        /\ [data |-> e.data, get |-> Sent, stale |-> TRUE] \in Entries
    BY DEF Entries
  <2>1. CASE ~Mounted(page) BY <2>1, <2>4, InvalidatedIs
  <2>2. CASE Mounted(page) /\ e.data = NoData BY <2>2, <1>1, InvalidatedIs
  <2>3. CASE Mounted(page) /\ e.data # NoData BY <2>3, <2>4, InvalidatedIs
  <2> QED BY <2>1, <2>2, <2>3
<1> QED BY <1>1, <1>2, <1>3

-----------------------------------------------------------------------------
(* The invariant *)

\* What no action may lose of the calls: an answer is of a change that has
\* happened, and a button that is held is one of this page.
CallsInv ==
    /\ calls \in [1 .. MaxCalls -> Calls]
    /\ \A i \in 1 .. MaxCalls :
          /\ calls[i] = NoCall \/ calls[i].name \in Mutations
          /\ calls[i].answer <= version
          /\ calls[i].held => calls[i].name \in Shell[page].offers
CacheInv ==
    /\ entry \in Entries
    /\ entry.data <= version /\ entry.get <= version
StateInv ==
    /\ query \in Queries /\ page \in Pages /\ version \in Versions
    /\ due \in Versions /\ due <= version
    /\ own \in Versions /\ own <= version
    /\ failed \in BOOLEAN /\ timer \in BOOLEAN /\ failures \in 0 .. MaxFailures
    /\ spared \in BOOLEAN /\ lost \in BOOLEAN

\* The answer under way will be new enough, unless an invalidation spared it (s),
\* and so is what is not stale, unless it is such an answer (l).
Awaits(e, d, s, l) ==
    /\ e.get >= 0 => e.get >= d \/ s
    /\ e.data # NoData /\ ~e.stale => e.data >= d \/ l

\* The hooks' part: an own change is among those an invalidation asked for.
OwnIsDue == Mounted(page) /\ query \notin Overwritten => own <= due
\* A fetch under way brings nothing older than what is shown.
FetchIsNewer ==
    query \notin Overwritten \cup {"station"} /\ entry.get >= 0 => entry.get >= entry.data

Typed == StateInv /\ CacheInv /\ CallsInv

-----------------------------------------------------------------------------
(* Types *)

LEMMA VersionsAre == MaxVersion \in Nat /\ MaxFailures \in Nat /\ MaxCalls \in Nat
BY WebDataConstants

LEMMA InitTyped == Init => Typed
<1> SUFFICES ASSUME Init PROVE Typed OBVIOUS
<1>1. StateInv
  <2>1. page \in Pages BY DEF Init, Pages
  <2>2. version = 0 /\ due = 0 /\ own = 0 /\ failures = 0 BY DEF Init
  <2>3. 0 \in Versions /\ 0 \in 0 .. MaxFailures BY VersionsAre DEF Versions
  <2>4. query \in Queries /\ failed = FALSE /\ timer = FALSE /\ spared = FALSE /\ lost = FALSE BY DEF Init
  <2>5. 0 <= version /\ version \in Versions /\ due \in Versions /\ own \in Versions
    BY <2>2, <2>3
  <2>6. due <= version /\ own <= version BY <2>2
  <2> QED BY <2>1, <2>2, <2>3, <2>4, <2>5, <2>6 DEF StateInv
<1>2. CacheInv
  BY VersionsAre DEF Init, CacheInv, Entries, Versions, NoData, Sent, Idle
<1>3. CallsInv
  BY VersionsAre DEF Init, CallsInv, Calls, NoCall, Idle
<1> QED BY <1>1, <1>2, <1>3 DEF Typed

\* A call that forgets its button, and one that is answered.
LEMMA CallFields ==
    ASSUME NEW c \in Calls, NEW x
    PROVE  /\ [c EXCEPT !.held = x] = [name |-> c.name, answer |-> c.answer, held |-> x]
           /\ [c EXCEPT !.answer = x] = [name |-> c.name, answer |-> x, held |-> c.held]
BY DEF Calls

LEMMA NoCallIs == NoCall \in Calls /\ NoCall.answer < 0 /\ ~NoCall.held
BY DEF NoCall, Calls, Idle

LEMMA ShowPageTyped ==
    ASSUME Typed, NEW p \in Pages, ShowPage(p)
    PROVE  Typed'
<1> USE DEF Typed
<1>1. StateInv' BY VersionsAre DEF StateInv, ShowPage, Goes, Versions
<1>2. CacheInv'
  BY EntriesKept, OpenedIs, BegunIs, VersionsAre
     DEF CacheInv, StateInv, ShowPage, Goes, Entries, Versions, Sent, NoData, Idle
<1>3. ASSUME NEW i \in 1 .. MaxCalls
      PROVE  /\ calls'[i] \in Calls /\ (calls[i] = NoCall => calls'[i] = NoCall)
             /\ calls'[i].answer = calls[i].answer /\ calls'[i].name = calls[i].name /\ ~calls'[i].held
  <2>1. calls[i] \in Calls /\ i \in DOMAIN calls BY DEF CallsInv
  <2>2. calls'[i] = IF calls[i] = NoCall THEN NoCall ELSE [calls[i] EXCEPT !.held = FALSE]
    BY <2>1 DEF ShowPage, Goes
  <2>3. CASE calls[i] = NoCall BY <2>2, <2>3, NoCallIs
  <2>4. CASE calls[i] # NoCall
    <3>1. calls'[i] = [name |-> calls[i].name, answer |-> calls[i].answer, held |-> FALSE]
      BY <2>1, <2>2, <2>4, CallFields
    <3> QED BY <2>1, <2>4, <3>1 DEF Calls
  <2> QED BY <2>3, <2>4
<1>4. calls' = [i \in 1 .. MaxCalls |-> calls'[i]] BY DEF CallsInv, ShowPage, Goes
<1>5. version' = version BY DEF ShowPage
<1>6. calls' \in [1 .. MaxCalls -> Calls] BY <1>3, <1>4
<1>7. CallsInv' BY <1>3, <1>5, <1>6 DEF CallsInv
<1> QED BY <1>1, <1>2, <1>7

LEMMA CacheTyped ==
    ASSUME Typed, GrowsStale \/ Polls \/ Collected \/ ServerReads \/ Arrives \/ GetFails \/ Shuffle
    PROVE  Typed'
<1> USE DEF Typed
<1>1. StateInv'
  <2>1. UNCHANGED <<query, page, version, timer, own>> /\ due' \in {due, 0} 
    BY DEF GrowsStale, Polls, Collected, ServerReads, Arrives, GetFails, Shuffle
  <2>2. failures' \in 0 .. MaxFailures
    BY VersionsAre
       DEF StateInv, GrowsStale, Polls, Collected, ServerReads, Arrives, GetFails, Shuffle
  <2>3. failed' \in BOOLEAN /\ spared' \in BOOLEAN /\ lost' \in BOOLEAN
    BY DEF StateInv, GrowsStale, Polls, Collected, ServerReads, Arrives, GetFails, Shuffle
  <2>4. 0 \in Versions /\ 0 <= version BY VersionsAre DEF StateInv, Versions
  <2> QED BY <2>1, <2>2, <2>3, <2>4 DEF StateInv
<1>2. CallsInv'
  BY DEF CallsInv, GrowsStale, Polls, Collected, ServerReads, Arrives, GetFails, Shuffle
<1>3. CacheInv'
  <2> USE EntryFields, VersionsAre DEF CacheInv, StateInv, Entries, Versions, Sent, NoData, Idle
  <2>1. CASE GrowsStale BY <2>1 DEF GrowsStale
  <2>2. CASE Polls BY <2>2, BegunIs DEF Polls
  <2>3. CASE Collected
    <3>1. entry' = Written(entry, NoData) BY <2>3 DEF Collected, Written
    <3>2. entry' = [data |-> NoData, get |-> entry.get, stale |-> FALSE] BY <3>1, WrittenIs
    <3> QED BY <3>2, <2>3 DEF Collected
  <2>4. CASE ServerReads BY <2>4 DEF ServerReads
  <2>5. CASE Arrives BY <2>5 DEF Arrives
  <2>6. CASE GetFails BY <2>6 DEF GetFails
  <2>7. CASE Shuffle
    <3>1. CASE entry.data = NoData BY <2>7, <3>1, BegunIs DEF Shuffle
    <3>2. CASE entry.data # NoData BY <2>7, <3>2 DEF Shuffle
    <3> QED BY <3>1, <3>2
  <2> QED BY <2>1, <2>2, <2>3, <2>4, <2>5, <2>6, <2>7
<1> QED BY <1>1, <1>2, <1>3

\* A call is written at its place.
LEMMA CallsSet ==
    ASSUME Typed, NEW i \in 1 .. MaxCalls, NEW c \in Calls, calls' = [calls EXCEPT ![i] = c],
           page' = page, version \in Nat, version' \in Nat, version <= version',
           c = NoCall \/ c.name \in Mutations, c.answer <= version',
           c.held => c.name \in Shell[page].offers
    PROVE  CallsInv'
<1>1. calls \in [1 .. MaxCalls -> Calls] /\ CallsInv BY DEF Typed, CallsInv
<1>2. calls' \in [1 .. MaxCalls -> Calls] BY <1>1
<1>3. ASSUME NEW j \in 1 .. MaxCalls
      PROVE  /\ calls'[j] = NoCall \/ calls'[j].name \in Mutations
             /\ calls'[j].answer <= version'
             /\ calls'[j].held => calls'[j].name \in Shell[page].offers
  <2>1. CASE j = i BY <1>1, <2>1
  <2>2. CASE j # i
    <3>1. calls'[j] = calls[j] /\ calls[j] \in Calls BY <1>1, <2>2
    <3> QED BY <1>1, <3>1 DEF CallsInv, Calls
  <2> QED BY <2>1, <2>2
<1> QED BY <1>2, <1>3 DEF CallsInv

LEMMA PressTyped ==
    ASSUME Typed, NEW m \in Mutations, Press(m)
    PROVE  Typed'
<1> DEFINE c == [name |-> m, answer |-> Sent, held |-> TRUE]
<1>1. UNCHANGED <<query, page, version, entry, failed, timer, due, own, failures, spared, lost>>
      /\ m \in Shell[page].offers
  BY DEF Press
<1>2. PICK i \in 1 .. MaxCalls : calls' = [calls EXCEPT ![i] = c] BY DEF Press, Typed, CallsInv
<1>3. c \in Calls /\ c.answer < 0 /\ c.name = m BY DEF Calls, Sent
<1>4. version \in Nat /\ version' \in Nat /\ version <= version'
  BY <1>1, VersionsAre
     DEF Typed, StateInv, Versions
<1> HIDE DEF c
<1>5. c.answer <= version' BY <1>3, <1>4 DEF Calls
<1>6. CallsInv' BY <1>1, <1>2, <1>3, <1>4, <1>5, CallsSet
<1> QED BY <1>1, <1>6 DEF Typed, StateInv, CacheInv

LEMMA HandledTyped ==
    ASSUME Typed, NEW i \in 1 .. MaxCalls, Handled(i)
    PROVE  Typed'
<1> DEFINE c == [name |-> calls[i].name, answer |-> version', held |-> calls[i].held]
<1>1. UNCHANGED <<query, page, entry, failed, timer, due, own, failures, spared, lost>> /\ calls[i] # NoCall
      /\ calls[i].answer = Sent
  BY DEF Handled
<1>2. version \in Versions /\ version' \in Versions /\ version <= version'
  BY VersionsAre DEF Handled, Typed, StateInv, Versions
<1>3. calls[i] \in Calls /\ calls \in [1 .. MaxCalls -> Calls] BY DEF Typed, CallsInv
<1>4. calls' = [calls EXCEPT ![i] = c]
  <2>1. calls' = [calls EXCEPT ![i] = [calls[i] EXCEPT !.answer = version']] BY <1>3 DEF Handled
  <2> QED BY <2>1, <1>3, CallFields
<1>5. c \in Calls /\ c.answer = version' /\ c.name = calls[i].name /\ c.held = calls[i].held
  BY <1>2, <1>3, VersionsAre DEF Calls, Versions
<1>6. c.name \in Mutations BY <1>1, <1>5 DEF Typed, CallsInv
<1>7. version \in Nat /\ version' \in Nat BY <1>2, VersionsAre DEF Versions
<1> HIDE DEF c
<1>8. CallsInv' BY <1>1, <1>2, <1>4, <1>5, <1>6, <1>7, CallsSet DEF Typed, CallsInv, Calls
<1>9. StateInv' BY <1>1, <1>2, <1>7, VersionsAre DEF Typed, StateInv, Versions
<1>10. CacheInv'
  BY <1>1, <1>2, <1>7, VersionsAre
     DEF Typed, CacheInv, Entries, Versions, NoData, Sent, Idle
<1> QED BY <1>8, <1>9, <1>10 DEF Typed

LEMMA TurnedTyped ==
    ASSUME Typed, NEW i \in 1 .. MaxCalls, Turned(i)
    PROVE  Typed'
<1> DEFINE c == [name |-> calls[i].name, answer |-> Refused, held |-> calls[i].held]
<1>1. UNCHANGED <<query, page, version, entry, failed, timer, due, own, spared, lost>> /\ calls[i] # NoCall
  BY DEF Turned
<1>2. failures' \in 0 .. MaxFailures BY VersionsAre DEF Turned, Typed, StateInv
<1>3. calls[i] \in Calls /\ calls \in [1 .. MaxCalls -> Calls] BY DEF Typed, CallsInv
<1>4. calls' = [calls EXCEPT ![i] = c]
  <2>1. calls' = [calls EXCEPT ![i] = [calls[i] EXCEPT !.answer = Refused]] BY <1>3 DEF Turned
  <2> QED BY <2>1, <1>3, CallFields
<1>5. c \in Calls /\ c.answer < 0 /\ c.name = calls[i].name /\ c.held = calls[i].held
  BY <1>3 DEF Calls, Refused
<1>6. c.name \in Mutations BY <1>1, <1>5 DEF Typed, CallsInv
<1>7. version \in Nat /\ version' \in Nat /\ version <= version'
  BY <1>1, VersionsAre DEF Typed, StateInv, Versions
<1> HIDE DEF c
<1>8. c.answer <= version' BY <1>5, <1>7 DEF Calls
<1>9. c.held => c.name \in Shell[page].offers BY <1>5 DEF Typed, CallsInv
<1>10. CallsInv' BY <1>1, <1>4, <1>5, <1>6, <1>7, <1>8, <1>9, CallsSet
<1> QED BY <1>1, <1>2, <1>10 DEF Typed, StateInv, CacheInv

\* A query that is told.
LEMMA ToldTyped ==
    ASSUME Typed, NEW e \in Entries, e.data <= version, e.get <= version
    PROVE  /\ Invalidated(e) \in Entries
           /\ Invalidated(e).data <= version /\ Invalidated(e).get <= version
           /\ Opened(e) \in Entries
           /\ Opened(e).data <= version /\ Opened(e).get <= version
<1>1. version \in Nat /\ Sent <= version BY VersionsAre DEF Typed, StateInv, Versions, Sent
<1>2. Begun(e).data <= version /\ Begun(e).get <= version BY <1>1, BegunIs
<1>3. Opened(e).data <= version /\ Opened(e).get <= version BY <1>2, OpenedIs
<1>4. Invalidated(e).data <= version /\ Invalidated(e).get <= version
  <2>1. CASE ~Mounted(page) BY <2>1, InvalidatedIs
  <2>2. CASE Mounted(page) /\ e.data = NoData BY <1>2, <2>2, InvalidatedIs
  <2>3. CASE Mounted(page) /\ e.data # NoData BY <1>1, <2>3, InvalidatedIs
  <2> QED BY <2>1, <2>2, <2>3
<1> QED BY <1>3, <1>4, EntriesKept

LEMMA FailsTyped ==
    ASSUME Typed, NEW i \in 1 .. MaxCalls, Fails(i)
    PROVE  Typed'
<1>1. UNCHANGED <<query, page, version, failed, own, lost>> /\ calls' = [calls EXCEPT ![i] = NoCall]
      /\ due' \in {due, version} /\ entry' \in {entry, Invalidated(entry)}
  BY DEF Fails, Tell
<1>2. failures' \in 0 .. MaxFailures BY VersionsAre DEF Fails, Typed, StateInv
<1>3. timer' \in BOOLEAN /\ spared' \in BOOLEAN
  BY DEF Fails, Tell, Missed, Typed, StateInv
<1>4. StateInv' BY <1>1, <1>2, <1>3, VersionsAre DEF Typed, StateInv, Versions
<1>5. CacheInv' BY <1>1, ToldTyped DEF Typed, CacheInv
<1>6. version \in Nat /\ version' \in Nat /\ version <= version'
  BY <1>1, VersionsAre DEF Typed, StateInv, Versions
<1>7. NoCall.answer <= version' BY <1>6, NoCallIs DEF Calls
<1>8. CallsInv' BY <1>1, <1>6, <1>7, NoCallIs, CallsSet
<1> QED BY <1>4, <1>5, <1>8 DEF Typed

LEMMA ServerTyped ==
    ASSUME Typed, TimerFires \/ ServerChanges \/ ScanEnds
    PROVE  Typed'
<1>1. UNCHANGED <<query, page, failed, calls, own, failures, lost>> /\ timer' \in BOOLEAN
      /\ spared' \in BOOLEAN
  BY DEF Typed, StateInv, Tell, Missed, TimerFires, ServerChanges, ScanEnds
<1>2. version \in Nat /\ version' \in Versions /\ version <= version'
  BY VersionsAre DEF Typed, StateInv, Versions, TimerFires, ServerChanges, ScanEnds
<1>3. due' \in {due, version} /\ entry' \in {entry, Invalidated(entry)}
  BY DEF TimerFires, ServerChanges, ScanEnds, Tell
<1>4. StateInv' BY <1>1, <1>2, <1>3, VersionsAre DEF Typed, StateInv, Versions
<1>5. CacheInv'
  <2>1. entry' \in Entries /\ entry'.data <= version /\ entry'.get <= version
    BY <1>3, ToldTyped DEF Typed, CacheInv
  <2> QED BY <1>2, <2>1, VersionsAre DEF Typed, CacheInv, Entries, Versions, NoData, Sent, Idle
<1>6. CallsInv'
  <2>1. ASSUME NEW i \in 1 .. MaxCalls PROVE calls[i].answer <= version'
    BY <1>2, VersionsAre DEF Typed, CallsInv, Calls, Versions
  <2> QED BY <1>1, <2>1 DEF Typed, CallsInv
<1> QED BY <1>4, <1>5, <1>6 DEF Typed

\* What the answer to a change does, before another page opens.
Sets(i) == IF query \in Hooks[calls[i].name].sets THEN Written(entry, calls[i].answer) ELSE entry
Told(i) == IF query \in Covered(Hooks[calls[i].name].tells) THEN Invalidated(Sets(i)) ELSE Sets(i)

LEMMA SucceedsIs ==
    ASSUME NEW i \in 1 .. MaxCalls, Succeeds(i)
    PROVE  /\ calls[i].answer >= 0
           /\ page' \in IF calls[i].held THEN NextPages(calls[i].name) ELSE {page}
           /\ entry' = IF ~Mounted(page) /\ Mounted(page') THEN Opened(Told(i)) ELSE Told(i)
           /\ due' = IF query \in Covered(Hooks[calls[i].name].tells) THEN version ELSE due
           /\ spared' = IF query \in Covered(Hooks[calls[i].name].tells) THEN Missed(Sets(i)) ELSE spared
           /\ lost' = (lost /\ query \notin Hooks[calls[i].name].sets)
           /\ calls' = [j \in DOMAIN calls |->
                           IF j = i THEN NoCall
                           ELSE IF page' = page \/ calls[j] = NoCall THEN calls[j]
                           ELSE [calls[j] EXCEPT !.held = FALSE]]
           /\ own' = IF query \in Changes[calls[i].name] /\ calls[i].held
                        /\ calls[i].answer > own /\ <<calls[i].name, query>> \notin Unheard
                     THEN calls[i].answer
                     ELSE IF page' = page THEN own ELSE 0
           /\ timer' = (timer \/ query \in Hooks[calls[i].name].later)
           /\ UNCHANGED <<query, version, failed, failures>>
BY Zenon DEF Succeeds, Sets, Told

LEMMA SetsTyped ==
    ASSUME Typed, NEW i \in 1 .. MaxCalls, calls[i].answer >= 0
    PROVE  /\ calls[i].answer \in Versions /\ calls[i].answer <= version
           /\ calls[i].name \in Mutations
           /\ Sets(i) \in Entries /\ Sets(i).data <= version /\ Sets(i).get <= version
           /\ Sets(i).get = entry.get
           /\ Told(i) \in Entries /\ Told(i).data <= version /\ Told(i).get <= version
<1>1. calls[i].answer \in Versions /\ calls[i].answer <= version /\ calls[i].name \in Mutations
  BY NoCallIs, VersionsAre DEF Typed, CallsInv, Calls, StateInv, Versions
<1>2. /\ Sets(i) \in Entries /\ Sets(i).data <= version /\ Sets(i).get <= version
      /\ Sets(i).get = entry.get
  <2>1. CASE query \in Hooks[calls[i].name].sets
    <3>1. Sets(i) = [data |-> calls[i].answer, get |-> entry.get, stale |-> FALSE]
      BY <1>1, <2>1, WrittenIs DEF Sets, Typed, CacheInv
    <3> QED BY <1>1, <3>1 DEF Typed, CacheInv, Entries
  <2>2. CASE query \notin Hooks[calls[i].name].sets
    BY <2>2 DEF Sets, Typed, CacheInv
  <2> QED BY <2>1, <2>2
<1>3. Told(i) \in Entries /\ Told(i).data <= version /\ Told(i).get <= version
  BY <1>2, ToldTyped DEF Told
<1> QED BY <1>1, <1>2, <1>3

LEMMA PagesNext ==
    ASSUME NEW m, page \in Pages
    PROVE  NextPages(m) \subseteq Pages
BY DEF NextPages, Pages

LEMMA SucceedsTyped ==
    ASSUME Typed, NEW i \in 1 .. MaxCalls, Succeeds(i)
    PROVE  Typed'
<1>1. calls[i].answer >= 0 BY SucceedsIs
<1>2. page \in Pages /\ page' \in Pages BY SucceedsIs, PagesNext DEF Typed, StateInv
<1>3. /\ UNCHANGED <<query, version, failed, failures>> /\ timer' \in BOOLEAN
      /\ spared' \in BOOLEAN /\ lost' \in BOOLEAN
  BY SucceedsIs DEF Typed, StateInv, Missed
<1>4. due' \in {due, version} /\ own' \in {own, 0, calls[i].answer} BY SucceedsIs
<1>5. StateInv' BY <1>1, <1>2, <1>3, <1>4, SetsTyped, VersionsAre DEF Typed, StateInv, Versions
<1>6. CacheInv'
  <2>1. entry' \in {Told(i), Opened(Told(i))} BY SucceedsIs
  <2> QED BY <1>1, <1>3, <2>1, SetsTyped, ToldTyped DEF CacheInv
<1>7. calls \in [1 .. MaxCalls -> Calls] BY DEF Typed, CallsInv
<1>8. ASSUME NEW j \in 1 .. MaxCalls
      PROVE  /\ calls'[j] \in Calls
             /\ calls'[j] = NoCall \/ calls'[j].name \in Mutations
             /\ calls'[j].answer <= version
             /\ calls'[j].held => calls'[j].name \in Shell[page'].offers
  <2>1. calls'[j] = IF j = i THEN NoCall
                    ELSE IF page' = page \/ calls[j] = NoCall THEN calls[j]
                    ELSE [calls[j] EXCEPT !.held = FALSE]
    BY <1>7, SucceedsIs
  <2>2. NoCall \in Calls /\ NoCall.answer <= version /\ ~NoCall.held
    BY NoCallIs, VersionsAre DEF Typed, StateInv, Versions, Calls
  <2>3. CASE j = i BY <2>1, <2>2, <2>3
  <2>4. CASE j # i /\ calls[j] = NoCall BY <2>1, <2>2, <2>4
  <2>5. CASE j # i /\ calls[j] # NoCall /\ page' = page
    BY <1>7, <2>1, <2>5 DEF Typed, CallsInv
  <2>6. CASE j # i /\ calls[j] # NoCall /\ page' # page
    <3>1. calls'[j] = [name |-> calls[j].name, answer |-> calls[j].answer, held |-> FALSE]
      BY <1>7, <2>1, <2>6, CallFields
    <3>2. calls[j] \in Calls /\ calls[j].name \in Mutations /\ calls[j].answer <= version
      BY <2>6 DEF Typed, CallsInv
    <3> QED BY <3>1, <3>2 DEF Calls
  <2> QED BY <2>3, <2>4, <2>5, <2>6
<1>9. calls' = [j \in 1 .. MaxCalls |-> calls'[j]] BY <1>7, SucceedsIs
<1>10. calls' \in [1 .. MaxCalls -> Calls] BY <1>8, <1>9
<1>11. CallsInv' BY <1>3, <1>8, <1>10 DEF CallsInv
<1> QED BY <1>5, <1>6, <1>11 DEF Typed

LEMMA StepTyped ==
    ASSUME Typed, [Next]_vars
    PROVE  Typed'
<1>1. DOMAIN calls = 1 .. MaxCalls BY DEF Typed, CallsInv
<1>2. CASE UNCHANGED vars BY <1>2 DEF vars, Typed, StateInv, CacheInv, CallsInv
<1>3. CASE Next
  BY <1>1, <1>3, ShowPageTyped, CacheTyped, PressTyped, HandledTyped, TurnedTyped,
     SucceedsTyped, FailsTyped,
     ServerTyped
     DEF Next
<1> QED BY <1>2, <1>3

\* Every variable holds a value of its kind, whatever the bounds.
THEOREM DataTyped == Spec => []DataTypeOK
<1>1. Typed => DataTypeOK BY DEF Typed, StateInv, CacheInv, CallsInv, Entries, DataTypeOK
<1> QED BY <1>1, InitTyped, StepTyped, PTL DEF Spec

-----------------------------------------------------------------------------
(* An invalidation is not lost *)

LEMMA InvalidatedAwaits ==
    ASSUME NEW e \in Entries, NEW d \in Versions, NEW l \in BOOLEAN
    PROVE  /\ Awaits(Invalidated(e), d, Missed(e), l)
           /\ Mounted(page) => Invalidated(e).get # Idle
<1>1. CASE ~Mounted(page)
  <2>1. Invalidated(e) = [data |-> e.data, get |-> e.get, stale |-> TRUE] BY <1>1, InvalidatedIs
  <2>2. CASE e.get = Idle BY <1>1, <2>1, <2>2 DEF Awaits, Idle
  <2>3. CASE e.get # Idle
    <3>1. Missed(e) BY <1>1, <2>3 DEF Missed
    <3> QED BY <1>1, <2>1, <3>1 DEF Awaits
  <2> QED BY <2>2, <2>3
<1>2. CASE Mounted(page) /\ e.data = NoData
  <2>1. Invalidated(e) = [data |-> NoData, get |-> IF e.get = Idle THEN Sent ELSE e.get, stale |-> e.stale]
    BY <1>2, InvalidatedIs, BegunIs
  <2>2. CASE e.get = Idle BY <2>1, <2>2 DEF Awaits, Idle, Sent
  <2>3. CASE e.get # Idle
    <3>1. Missed(e) BY <1>2, <2>3 DEF Missed
    <3> QED BY <2>1, <2>3, <3>1 DEF Awaits
  <2> QED BY <2>2, <2>3
<1>3. CASE Mounted(page) /\ e.data # NoData
  BY <1>3, InvalidatedIs DEF Awaits, Idle, Sent
<1> QED BY <1>1, <1>2, <1>3

LEMMA OpenedAwaits ==
    ASSUME NEW e \in Entries,
           NEW d \in Versions, NEW s \in BOOLEAN, NEW l \in BOOLEAN, Awaits(e, d, s, l)
    PROVE  /\ Awaits(Opened(e), d, s, l)
           /\ Opened(e).get = Idle => Opened(e).data >= d \/ l
<1>1. CASE e.data = NoData \/ e.stale
  BY <1>1, OpenedIs, BegunIs DEF Awaits, Sent, Idle
<1>2. CASE e.data # NoData /\ ~e.stale
  BY <1>2, OpenedIs DEF Awaits
<1> QED BY <1>1, <1>2

\* The cache's part of the invariant.
Followed ==
    query \notin Overwritten => Awaits(entry, due, spared, lost) /\ (Settled => entry.data >= due \/ lost)

LEMMA ShowPageFollowed ==
    ASSUME Typed, Followed, NEW p \in Pages, ShowPage(p)
    PROVE  Followed'
<1> SUFFICES ASSUME query \notin Overwritten
             PROVE  /\ Awaits(entry', due, spared, lost)
                    /\ query \in Shell[p].shows /\ entry'.get = Idle /\ ~failed => entry'.data >= due \/ lost
  BY DEF Followed, ShowPage, Goes, Settled, Mounted, Overwritten, Awaits
<1>1. entry \in Entries /\ due \in Versions /\ spared \in BOOLEAN /\ lost \in BOOLEAN
  BY DEF Typed, CacheInv, StateInv
<1>2. CASE ~Mounted(page) /\ Mounted(p)
  BY <1>1, <1>2, OpenedAwaits DEF ShowPage, Goes, Followed, Awaits
<1>3. CASE ~(~Mounted(page) /\ Mounted(p))
  BY <1>1, <1>3 DEF ShowPage, Goes, Followed, Settled, Mounted, Awaits
<1> QED BY <1>2, <1>3

LEMMA CacheFollowed ==
    ASSUME Typed, Followed, GrowsStale \/ Polls \/ Collected \/ ServerReads \/ Arrives \/ GetFails \/ Shuffle
    PROVE  Followed'
<1> SUFFICES ASSUME query \notin Overwritten
             PROVE  /\ Awaits(entry', due', spared', lost')
                    /\ Mounted(page) /\ entry'.get = Idle /\ ~failed' => entry'.data >= due' \/ lost'
  BY DEF Followed, GrowsStale, Polls, Collected, ServerReads, Arrives, GetFails, Shuffle,
         Settled, Mounted,
         Overwritten, Awaits
<1>1. entry \in Entries /\ due \in Versions /\ version \in Versions /\ due <= version
  BY DEF Typed, CacheInv, StateInv
<1>2. /\ spared \in BOOLEAN /\ Awaits(entry, due, spared, lost)
      /\ Mounted(page) /\ entry.get = Idle /\ ~failed => entry.data >= due \/ lost
  BY DEF Typed, StateInv, Followed, Settled
<1> HIDE DEF Mounted
<1> USE DEF Awaits
<1>3. CASE GrowsStale
  BY <1>1, <1>2, <1>3, EntryFields DEF GrowsStale
<1>4. CASE Polls
  BY <1>1, <1>2, <1>4, BegunIs DEF Polls, Sent, Idle
<1>5. CASE Collected
  <2>1. entry' = Written(entry, NoData) /\ ~Mounted(page) /\ entry.get = Idle /\ due' = 0
    BY <1>5 DEF Collected, Written
  <2>2. entry' = [data |-> NoData, get |-> entry.get, stale |-> FALSE] BY <1>1, <2>1, WrittenIs
  <2> QED BY <2>1, <2>2 DEF Idle
<1>6. CASE ServerReads
  <2>1. entry' = [data |-> entry.data, get |-> version, stale |-> entry.stale]
    BY <1>1, <1>6, EntryFields
       DEF ServerReads
  <2>2. version # Idle BY <1>1, VersionsAre DEF Versions, Idle
  <2> QED BY <1>1, <1>2, <1>6, <2>1, <2>2 DEF ServerReads
<1>7. CASE Arrives
  BY <1>1, <1>2, <1>7 DEF Arrives, Idle
<1>8. CASE GetFails
  <2>1. entry' = [data |-> entry.data, get |-> Idle, stale |-> entry.stale]
    BY <1>1, <1>8, EntryFields
       DEF GetFails
  <2> QED BY <1>1, <1>2, <1>8, <2>1 DEF GetFails, Idle
<1>9. CASE Shuffle
  <2>1. CASE entry.data = NoData BY <1>1, <1>2, <1>9, <2>1, BegunIs DEF Shuffle, Sent, Idle
  <2>2. CASE entry.data # NoData BY <1>1, <1>2, <1>9, <2>2, EntryFields DEF Shuffle, Sent, Idle
  <2> QED BY <2>1, <2>2
<1> QED BY <1>3, <1>4, <1>5, <1>6, <1>7, <1>8, <1>9

LEMMA ToldFollowed ==
    ASSUME Typed, Followed, NEW K, Tell(K, entry), UNCHANGED <<query, page, failed, lost>>
    PROVE  Followed'
<1>1. CASE query \notin Covered(K)
  BY <1>1 DEF Tell, Followed, Settled, Mounted, Awaits, Overwritten
<1>2. CASE query \in Covered(K)
  <2>1. entry \in Entries /\ version \in Versions /\ lost' \in BOOLEAN
    BY DEF Typed, CacheInv, StateInv
  <2>2. entry' = Invalidated(entry) /\ due' = version /\ spared' = Missed(entry)
    BY <1>2 DEF Tell
  <2> SUFFICES ASSUME query \notin Overwritten
               PROVE  Awaits(entry', due', spared', lost') /\ (Mounted(page) => entry'.get # Idle)
    BY DEF Followed, Settled, Mounted, Overwritten, Awaits
  <2> QED BY <2>1, <2>2, InvalidatedAwaits
<1> QED BY <1>1, <1>2

LEMMA SucceedsFollowed ==
    ASSUME Typed, Followed, NEW i \in 1 .. MaxCalls, Succeeds(i)
    PROVE  Followed'
<1> DEFINE told == query \in Covered(Hooks[calls[i].name].tells)
<1> SUFFICES ASSUME query \notin Overwritten
             PROVE  /\ Awaits(entry', due', spared', lost')
                    /\ Mounted(page') /\ entry'.get = Idle /\ ~failed => entry'.data >= due' \/ lost'
  BY DEF Followed, Settled, Mounted, Overwritten, Awaits, Succeeds
<1>1. calls[i].answer >= 0 BY SucceedsIs
<1>2. /\ entry \in Entries /\ due \in Versions /\ version \in Versions
      /\ Sets(i) \in Entries /\ Sets(i).get = entry.get /\ Told(i) \in Entries
      /\ calls[i].name \in Mutations
  BY <1>1, SetsTyped DEF Typed, CacheInv, StateInv
<1>3. /\ due' = IF told THEN version ELSE due
      /\ spared' = IF told THEN Missed(Sets(i)) ELSE spared
      /\ lost' = (lost /\ query \notin Hooks[calls[i].name].sets)
  BY SucceedsIs
<1>4. due' \in Versions /\ spared' \in BOOLEAN /\ lost' \in BOOLEAN
  BY <1>2, <1>3 DEF Missed, Typed, StateInv
<1>6. /\ Awaits(Told(i), due', spared', lost')
      /\ Mounted(page) /\ Told(i).get = Idle /\ ~failed => Told(i).data >= due' \/ lost'
  <2>1. CASE told
    BY <1>2, <1>3, <1>4, <2>1, InvalidatedAwaits DEF Told
  <2>2. CASE ~told
    <3>1. query \notin Hooks[calls[i].name].sets
      BY <1>2, <2>2, SetsAre, ToldAre, CoveredIs DEF Overwritten
    <3>2. Told(i) = entry /\ due' = due /\ spared' = spared /\ lost' = lost
      BY <1>3, <2>2, <3>1 DEF Told, Sets, Typed, StateInv
    <3> QED BY <3>2 DEF Followed, Settled
  <2> QED BY <2>1, <2>2
<1>7. CASE ~Mounted(page) /\ Mounted(page')
  BY <1>2, <1>4, <1>6, <1>7, SucceedsIs, OpenedAwaits
<1>8. CASE ~(~Mounted(page) /\ Mounted(page'))
  <2>1. entry' = Told(i) BY <1>8, SucceedsIs
  <2> QED BY <1>6, <1>8, <2>1
<1> QED BY <1>7, <1>8

LEMMA FailsFollowed ==
    ASSUME Typed, Followed, NEW i \in 1 .. MaxCalls, Fails(i)
    PROVE  Followed'
<1>1. CASE Hooks[calls[i].name].always
  BY <1>1, ToldFollowed DEF Fails
<1>2. CASE ~Hooks[calls[i].name].always
  BY <1>2 DEF Fails, Followed, Settled, Mounted, Awaits, Overwritten
<1> QED BY <1>1, <1>2

LEMMA StepFollowed ==
    ASSUME Typed, Followed, [Next]_vars
    PROVE  Followed'
<1>1. DOMAIN calls = 1 .. MaxCalls BY DEF Typed, CallsInv
<1>2. ASSUME UNCHANGED <<query, page, entry, failed, due, spared, lost>>
      PROVE  Followed'
  BY <1>2 DEF Followed, Settled, Mounted, Awaits, Overwritten
<1>3. CASE UNCHANGED vars BY <1>2, <1>3 DEF vars
<1>4. CASE \E m \in Mutations : Press(m) BY <1>2, <1>4 DEF Press
<1>5. CASE \E i \in DOMAIN calls : Handled(i) \/ Turned(i) BY <1>2, <1>5 DEF Handled, Turned
<1>6. CASE ServerChanges \/ ScanEnds BY <1>2, <1>6 DEF ServerChanges, ScanEnds
<1>7. CASE TimerFires BY <1>7, ToldFollowed DEF TimerFires
<1>8. CASE \E p \in Pages : ShowPage(p) BY <1>8, ShowPageFollowed
<1>9. CASE \E i \in DOMAIN calls : Succeeds(i) \/ Fails(i)
  BY <1>1, <1>9, SucceedsFollowed, FailsFollowed
<1>10. CASE GrowsStale \/ Polls \/ Collected \/ ServerReads \/ Arrives \/ GetFails \/ Shuffle
  BY <1>10, CacheFollowed
<1> QED BY <1>3, <1>4, <1>5, <1>6, <1>7, <1>8, <1>9, <1>10 DEF Next

LEMMA InitFollowed == Init => Followed
<1> SUFFICES ASSUME Init PROVE Followed OBVIOUS
<1>1. entry.data = NoData /\ entry.get \in {Sent, Idle} /\ due = 0 /\ (Mounted(page) => entry.get = Sent)
  BY DEF Init
<1> QED BY <1>1 DEF Followed, Settled, Awaits, Sent, Idle

\* A page that awaits nothing shows what the last invalidation asked for, unless
\* what it shows is the answer to a GET that an invalidation left alone: that is
\* the only order of pages, polls, failures, answers and other changes to lose one.
THEOREM InvalidationsAlwaysShow == Spec => []InvalidationsShow
<1>1. Followed => InvalidationsShow BY DEF Followed, InvalidationsShow
<1> QED BY <1>1, InitTyped, StepTyped, InitFollowed, StepFollowed, PTL DEF Spec

-----------------------------------------------------------------------------
(* A page's own changes are told *)

\* A change that leaves the queue untold leads away from the pages that show it.
LEMMA QueueIsLeft ==
    ASSUME Typed, NEW i \in 1 .. MaxCalls, calls[i].held, calls[i].name \in QueueSilent,
           NEW p \in NextPages(calls[i].name)
    PROVE  "queue" \notin Shell[p].shows
<1>1. page \in Pages /\ p \in Pages BY PagesNext DEF Typed, StateInv
<1>2. SUFFICES ASSUME p \in {"station", "genreStation"} PROVE FALSE
  BY <1>1, Shown
<1>3. calls[i].name \in Shell[page].offers BY DEF Typed, CallsInv
<1>4. CASE calls[i].name = "deleteStation" BY <1>2, <1>4 DEF NextPages
<1>5. CASE calls[i].name = "deletePlaylist" BY <1>2, <1>5 DEF NextPages
<1>6. CASE calls[i].name \in QueueSilent \ {"deleteStation", "deletePlaylist"}
  <2>1. p = page BY <1>6 DEF NextPages, QueueSilent
  <2>2. calls[i].name = "deleteStation" BY <1>2, <1>3, <2>1, Offered
  <2> QED BY <1>6, <2>2
<1> QED BY <1>4, <1>5, <1>6 DEF QueueSilent

LEMMA SucceedsOwn ==
    ASSUME NoHookTells \subseteq Unheard, Typed, OwnIsDue, NEW i \in 1 .. MaxCalls, Succeeds(i)
    PROVE  OwnIsDue'
<1> SUFFICES ASSUME Mounted(page'), query \notin Overwritten PROVE own' <= due'
  BY DEF OwnIsDue, Mounted, Succeeds, Overwritten
<1> DEFINE name == calls[i].name
           mine == query \in Changes[name] /\ calls[i].held
                   /\ calls[i].answer > own /\ <<name, query>> \notin Unheard
<1>1. /\ calls[i].answer >= 0
      /\ own' = IF mine THEN calls[i].answer ELSE IF page' = page THEN own ELSE 0
      /\ due' = IF query \in Covered(Hooks[name].tells) THEN version ELSE due
      /\ page' \in IF calls[i].held THEN NextPages(name) ELSE {page}
  BY SucceedsIs
<1>2. name \in Mutations /\ calls[i].answer \in Versions /\ calls[i].answer <= version
  BY <1>1, SetsTyped
<1>3. /\ due \in Versions /\ own \in Versions /\ version \in Versions /\ due <= version /\ own <= version
  BY DEF Typed, StateInv
<1>4. CASE mine
  <2>1. query \in Changes[name] /\ calls[i].held /\ <<name, query>> \notin NoHookTells BY <1>4
  <2>2. CASE query \in Covered(Hooks[name].tells)
    BY <1>1, <1>2, <1>4, <2>2
  <2>3. CASE query = "queue" /\ name \in QueueSilent
    BY <1>1, <2>1, <2>3, QueueIsLeft DEF Mounted
  <2> QED BY <1>2, <2>1, <2>2, <2>3, ChangesTold
<1>5. CASE ~mine /\ page' = page
  <2>1. own <= due BY <1>5 DEF OwnIsDue
  <2> QED BY <1>1, <1>3, <1>5, <2>1
<1>6. CASE ~mine /\ page' # page
  <2> HIDE DEF mine
  <2>1. own' = 0 BY <1>1, <1>6
  <2> QED BY <1>1, <1>3, <2>1, VersionsAre DEF Versions
<1> QED BY <1>4, <1>5, <1>6

LEMMA StepOwn ==
    ASSUME NoHookTells \subseteq Unheard, Typed, OwnIsDue, [Next]_vars
    PROVE  OwnIsDue'
<1>1. DOMAIN calls = 1 .. MaxCalls BY DEF Typed, CallsInv
<1>2. due \in Nat /\ own \in Nat /\ version \in Nat /\ due <= version /\ own <= version
  BY VersionsAre DEF Typed, StateInv, Versions
<1>3. ASSUME UNCHANGED <<query, page, own>>, due' \in {due, version}
      PROVE  OwnIsDue'
  BY <1>2, <1>3 DEF OwnIsDue, Mounted, Overwritten
<1>4. CASE UNCHANGED vars BY <1>3, <1>4 DEF vars
<1>5. CASE \E m \in Mutations : Press(m) BY <1>3, <1>5 DEF Press
<1>6. CASE \E i \in DOMAIN calls : Handled(i) \/ Turned(i) \/ Fails(i)
  BY <1>3, <1>6 DEF Handled, Turned, Fails, Tell
<1>7. CASE ServerChanges \/ ScanEnds \/ TimerFires
  BY <1>3, <1>7 DEF ServerChanges, ScanEnds, TimerFires, Tell
<1>8. CASE \E p \in Pages : ShowPage(p)
  BY <1>2, <1>8 DEF ShowPage, Goes, OwnIsDue
<1>9. CASE \E i \in DOMAIN calls : Succeeds(i) BY <1>1, <1>9, SucceedsOwn
<1>10. CASE GrowsStale \/ Polls \/ ServerReads \/ Arrives \/ GetFails \/ Shuffle
  BY <1>3, <1>10 DEF GrowsStale, Polls, ServerReads, Arrives, GetFails, Shuffle
<1>11. CASE Collected
  BY <1>11 DEF Collected, OwnIsDue, Mounted, Overwritten
<1> QED BY <1>4, <1>5, <1>6, <1>7, <1>8, <1>9, <1>10, <1>11 DEF Next

\* After this page's own changes it shows them, whatever page a change led to,
\* with the same exception and that of the changes no hook tells, which are only
\* those listed: the hooks' table covers all the others of the handlers'.
THEOREM OwnChangesAlwaysShow ==
    ASSUME NoHookTells \subseteq Unheard
    PROVE  Spec => []OwnChangesShow
<1>1. Init => OwnIsDue
  BY DEF Init, OwnIsDue
<1>2. Typed /\ Followed /\ OwnIsDue => OwnChangesShow
  <2> SUFFICES ASSUME Typed, Followed, OwnIsDue, Settled, query \notin Overwritten, ~lost
               PROVE  entry.data >= own
    BY DEF OwnChangesShow
  <2>1. own <= due /\ entry.data >= due BY DEF OwnIsDue, Followed, Settled
  <2>2. own \in Int /\ due \in Int /\ entry.data \in Int
    BY VersionsAre DEF Typed, StateInv, CacheInv, Entries, Versions, NoData
  <2> QED BY <2>1, <2>2
<1>3. Typed /\ OwnIsDue /\ [Next]_vars => OwnIsDue' BY StepOwn
<1> QED BY <1>1, <1>2, <1>3, InitTyped, StepTyped, InitFollowed, StepFollowed, PTL DEF Spec

-----------------------------------------------------------------------------
(* What is shown never goes back *)

Exempt == Overwritten \cup {"station"}

\* A step keeps the data, with the fetch under way or a new one, or drops it, or
\* replaces it by the answer of the fetch.
LEMMA DataStep ==
    ASSUME Typed, query \notin Exempt, [Next]_vars
    PROVE  /\ query' = query
           /\ \/ entry'.data = entry.data /\ (entry'.get < 0 \/ entry'.get \in {entry.get, version})
              \/ entry'.data = NoData /\ entry'.get < 0
              \/ entry.get >= 0 /\ entry'.data = entry.get /\ entry'.get < 0
<1> USE DEF Exempt
<1>1. DOMAIN calls = 1 .. MaxCalls BY DEF Typed, CallsInv
<1>2. entry \in Entries BY DEF Typed, CacheInv
<1>3. ASSUME NEW e \in Entries
      PROVE  /\ Invalidated(e).data = e.data /\ Opened(e).data = e.data /\ Begun(e).data = e.data
             /\ Invalidated(e).get < 0 \/ Invalidated(e).get = e.get
             /\ Opened(e).get < 0 \/ Opened(e).get = e.get
             /\ Begun(e).get < 0 \/ Begun(e).get = e.get
  <2>1. Begun(e).data = e.data /\ (Begun(e).get < 0 \/ Begun(e).get = e.get) BY BegunIs DEF Sent
  <2>2. Opened(e).data = e.data /\ (Opened(e).get < 0 \/ Opened(e).get = e.get)
    BY <2>1, OpenedIs
  <2>3. Invalidated(e).data = e.data /\ (Invalidated(e).get < 0 \/ Invalidated(e).get = e.get)
    <3>1. CASE ~Mounted(page) BY <3>1, InvalidatedIs
    <3>2. CASE Mounted(page) /\ e.data = NoData BY <2>1, <3>2, InvalidatedIs
    <3>3. CASE Mounted(page) /\ e.data # NoData BY <3>3, InvalidatedIs DEF Sent
    <3> QED BY <3>1, <3>2, <3>3
  <2> QED BY <2>1, <2>2, <2>3
<1>4. ASSUME query' = query, NEW e \in Entries, entry' \in {e, Invalidated(e), Opened(e), Begun(e)},
             e.data = entry.data, e.get < 0 \/ e.get = entry.get
      PROVE  entry'.data = entry.data /\ (entry'.get < 0 \/ entry'.get = entry.get)
  BY <1>3, <1>4
<1>5. CASE UNCHANGED vars BY <1>5 DEF vars
<1>6. CASE \E m \in Mutations : Press(m) BY <1>6 DEF Press
<1>7. CASE \E i \in DOMAIN calls : Handled(i) \/ Turned(i) \/ Fails(i)
  <2>1. query' = query /\ entry' \in {entry, Invalidated(entry)}
    BY <1>7 DEF Handled, Turned, Fails, Tell
  <2> QED BY <1>2, <1>4, <2>1
<1>8. CASE ServerChanges \/ ScanEnds \/ TimerFires \/ Polls \/ \E p \in Pages : ShowPage(p)
  <2>1. query' = query /\ entry' \in {entry, Invalidated(entry), Begun(entry), Opened(entry)}
    BY <1>8 DEF ServerChanges, ScanEnds, TimerFires, Tell, Polls, ShowPage, Goes
  <2> QED BY <1>2, <1>4, <2>1
<1>9. CASE \E i \in DOMAIN calls : Succeeds(i)
  <2>1. PICK i \in 1 .. MaxCalls : Succeeds(i) BY <1>1, <1>9
  <2>2. calls[i].answer >= 0 /\ query' = query BY <2>1, SucceedsIs
  <2>3. query \notin Hooks[calls[i].name].sets
    BY <2>2, SetsTyped, SetsAre DEF Overwritten
  <2>4. Told(i) \in Entries /\ Told(i).data = entry.data /\ (Told(i).get < 0 \/ Told(i).get = entry.get)
    BY <1>2, <1>3, <2>2, <2>3, SetsTyped DEF Told, Sets
  <2>5. entry' \in {Told(i), Opened(Told(i))} BY <2>1, SucceedsIs
  <2> QED BY <1>4, <2>2, <2>4, <2>5
<1>10. CASE GrowsStale
  BY <1>2, <1>10, EntryFields DEF GrowsStale
<1>11. CASE Collected
  <2>1. query' = query /\ entry' = Written(entry, NoData) /\ entry.get = Idle
    BY <1>11
       DEF Collected, Written
  <2> QED BY <1>2, <2>1, WrittenIs DEF Idle
<1>12. CASE ServerReads BY <1>2, <1>12, EntryFields DEF ServerReads
<1>13. CASE Arrives BY <1>13 DEF Arrives, Idle
<1>14. CASE GetFails BY <1>2, <1>14, EntryFields DEF GetFails, Idle
<1>15. CASE Shuffle
  <2>1. CASE entry.data = NoData BY <1>2, <1>4, <1>15, <2>1 DEF Shuffle
  <2>2. CASE entry.data # NoData BY <1>2, <1>15, <2>2, EntryFields DEF Shuffle, Sent
  <2> QED BY <2>1, <2>2
<1> QED
  BY <1>5, <1>6, <1>7, <1>8, <1>9, <1>10, <1>11, <1>12, <1>13, <1>14, <1>15 DEF Next

\* What is shown is never replaced by what the server said earlier, except by an
\* answer that setQueryData puts in the cache.
THEOREM DataNeverGoesBack == Spec => NeverBack
<1>1. Init => FetchIsNewer
  BY DEF Init, FetchIsNewer, Sent, Idle
<1>2. Typed /\ FetchIsNewer /\ [Next]_vars
        => FetchIsNewer' /\ (entry'.data = NoData \/ entry'.data >= entry.data \/ query \in Exempt)
  <2> SUFFICES ASSUME Typed, FetchIsNewer, [Next]_vars
               PROVE  FetchIsNewer' /\ (entry'.data = NoData \/ entry'.data >= entry.data \/ query \in Exempt)
    OBVIOUS
  <2>1. CASE query \in Exempt
    <3>1. query' = query
      BY DEF Next, vars, ShowPage, GrowsStale, Polls, Collected, ServerReads, Arrives,
             GetFails, Press, Handled,
             Turned, Succeeds, Fails, TimerFires, Shuffle, ServerChanges, ScanEnds
    <3> QED BY <2>1, <3>1 DEF FetchIsNewer, Exempt, Overwritten
  <2>2. CASE query \notin Exempt
    <3>1. entry.data \in Int /\ entry.get \in Int /\ version \in Nat /\ entry.data <= version
      BY VersionsAre DEF Typed, CacheInv, StateInv, Entries, Versions, NoData, Sent, Idle
    <3>2. entry.get >= 0 => entry.get >= entry.data BY <2>2 DEF FetchIsNewer, Exempt
    <3>3. entry' \in Entries BY StepTyped DEF Typed, CacheInv
    <3>4. entry'.get \in Int /\ entry'.data \in Int
      BY <3>3, VersionsAre DEF Entries, Versions, NoData, Sent, Idle
    <3>5. /\ entry'.get >= 0 => entry'.get >= entry'.data
          /\ entry'.data = NoData \/ entry'.data >= entry.data
      <4>1. CASE entry'.data = entry.data /\ (entry'.get < 0 \/ entry'.get \in {entry.get, version})
        BY <3>1, <3>2, <3>4, <4>1
      <4>2. CASE entry'.data = NoData /\ entry'.get < 0 BY <3>4, <4>2
      <4>3. CASE entry.get >= 0 /\ entry'.data = entry.get /\ entry'.get < 0
        BY <3>1, <3>2, <3>4, <4>3
      <4> QED BY <2>2, <4>1, <4>2, <4>3, DataStep
    <3> QED BY <3>5 DEF FetchIsNewer
  <2> QED BY <2>1, <2>2
<1> QED BY <1>1, <1>2, InitTyped, StepTyped, PTL DEF Spec, NeverBack, Exempt
=============================================================================
