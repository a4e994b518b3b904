-------------------------------- MODULE WebData --------------------------------
(***************************************************************************)
(* The data the web app's pages show (lib/queries.ts and the pages): each  *)
(* query is cached, fetched when a page that shows it opens, and fetched   *)
(* again when a mutation invalidates it or writes its answer into it.      *)
(*                                                                         *)
(* No query reads another one, so one query is followed at a time, any of  *)
(* them, with every page that shows it and every mutation that concerns    *)
(* it.  What the server would answer is a version that every change        *)
(* raises; the cache holds the version it was given.  An odd version of    *)
(* the scans is a list with a scan under way.                              *)
(***************************************************************************)
EXTENDS Integers, FiniteSets

CONSTANTS
    MaxVersion,  \* bounds the changes to the query that is followed
    MaxCalls,    \* bounds the mutations in flight
    Crowded,     \* the queries so many buttons change that only one mutation
                 \* is in flight at a time
    MaxFailures, \* bounds the requests that fail
    Admin,       \* user.is_admin
    Unheard      \* <<mutation, query>>: changes that are not looked for on the
                 \* page that made them

ASSUME WebDataConstants == {MaxVersion, MaxCalls, MaxFailures} \subseteq Nat /\ Admin \in BOOLEAN

VARIABLES
    query,    \* the query that is followed
    page,     \* the page, or the tab or state of one, that is open
    version,  \* what the server answers for the query now
    entry,    \* its cache entry: data, the GET in flight, stale or not
    failed,   \* the last GET failed
    calls,    \* mutations in flight
    timer,    \* a timeout of a genre correction is running
    due,      \* the version the cache must come to hold
    own,      \* the latest change this page made
    spared,   \* an invalidation left the GET in flight alone
    lost,     \* the data is the answer to such a GET
    failures

vars == <<query, page, version, entry, failed, calls, timer, due, own, spared, lost, failures>>

NoData == -1
Idle == -2    \* no GET in flight
Sent == -1    \* a GET the server has not read
Versions == 0 .. MaxVersion

-----------------------------------------------------------------------------
(* Query keys, and what a mutation does to the cache *)

\* A key covers the keys that begin with it.
Covered(K) ==
    K \cup (IF "stations" \in K THEN {"station"} ELSE {})
      \cup (IF "playlists" \in K THEN {"playlist", "picks"} ELSE {})

Hook(tells, sets, later, always) ==
    [tells |-> tells, sets |-> sets, later |-> later, always |-> always]
Tells(K) == Hook(K, {}, {}, FALSE)

InvalidateStations == {"stations", "suggestions", "browse", "genreStations"}
SaveStation == Hook({"queue"} \cup InvalidateStations, {"station"}, {}, FALSE)
DeleteStation == Tells(InvalidateStations)

\* Mistake: the queue is not told.
HideTrackQuietly == Hook({"hidden", "stations"}, {}, {}, TRUE)

HideTrack == Hook({"hidden", "queue", "stations"}, {}, {}, TRUE)
DismissSuggestion == Tells(InvalidateStations)
RemovePick == Tells({"playlists", "stations"})
PlaylistActions ==
    Tells({"playlists", "suggestions", "stations", "browse", "genreStations", "pipeline"})
SetFeedback(list) == Hook({list}, {}, {}, TRUE)
RevokeDevice == Tells({"devices"})
StartScan == Tells({"scans"})
GenreStationsSaved ==
    Hook({"stations", "suggestions", "browse", "pipeline"}, {"genreStations"}, {}, FALSE)
CorrectionActions ==
    Hook({"genreReview"}, {"genreCorrections"},
         {"genreReview", "genres", "genreStations", "stations"}, FALSE)

\* Mistake: the answer is put in the cache.
RefreshPipelineSets ==
    Hook({"genreStations", "stations", "suggestions", "playlists", "browse"}, {"pipeline"}, {}, FALSE)

RefreshPipeline ==
    Tells({"pipeline", "genreStations", "stations", "suggestions", "playlists", "browse"})
RebuildGenres == Hook({}, {}, {"genres"}, TRUE)
DeleteUser == Hook({"users"}, {}, {}, TRUE)

Hooks ==
    [saveStation |-> SaveStation, deleteStation |-> DeleteStation,
     hide |-> HideTrack, restore |-> HideTrack, dismiss |-> DismissSuggestion,
     removePick |-> RemovePick, addPlaylist |-> PlaylistActions,
     syncPlaylist |-> PlaylistActions, deletePlaylist |-> PlaylistActions,
     like |-> SetFeedback("likes"), ban |-> SetFeedback("bans"),
     revokeDevice |-> RevokeDevice, scan |-> StartScan, rescan |-> StartScan,
     genreStations |-> GenreStationsSaved, genreStation |-> GenreStationsSaved,
     correct |-> CorrectionActions, uncorrect |-> CorrectionActions,
     refresh |-> RefreshPipeline, rebuildGenres |-> RebuildGenres, deleteUser |-> DeleteUser]
Mutations == DOMAIN Hooks

-----------------------------------------------------------------------------
(* What the server's handlers change *)

\* A station's songs; the search for stations by an artist counts them.
PoolChange == {"stations", "station", "queue", "stationSearch"}
StationChange == PoolChange \cup {"browse", "suggestions", "genreStations"}
HideChange == {"hidden", "genreReview"} \cup PoolChange
FeedbackChange == [like |-> {"likes", "queue"}, ban |-> {"bans"} \cup PoolChange]
PicksChange == {"playlists", "playlist", "picks", "poolGenres", "suggestions"} \cup PoolChange
\* A run of the pipeline: picks, genre stations, the log of runs.
RunChange == PicksChange \cup StationChange \cup {"pipeline"}
\* One that matches as well groups the copies of a song.
MatchChange == RunChange \cup {"genreReview"}
CorrectionChange == {"genreCorrections", "genreReview"}
\* The pipeline's card names the newest scan.
ScanChange == {"scans", "pipeline"}
\* What a user hid goes with the user.
UserChange == {"users", "genreReview"}

Changes ==
    [saveStation |-> StationChange, deleteStation |-> StationChange,
     hide |-> HideChange, restore |-> HideChange,
     dismiss |-> {"suggestions"}, removePick |-> PicksChange,
     addPlaylist |-> RunChange, syncPlaylist |-> RunChange, deletePlaylist |-> RunChange,
     like |-> FeedbackChange.like, ban |-> FeedbackChange.ban,
     revokeDevice |-> {"devices"}, scan |-> ScanChange, rescan |-> ScanChange,
     genreStations |-> RunChange, genreStation |-> RunChange,
     correct |-> CorrectionChange, uncorrect |-> CorrectionChange,
     refresh |-> MatchChange, rebuildGenres |-> {}, deleteUser |-> UserChange]

-----------------------------------------------------------------------------
(* The pages: the queries each shows and the mutations it offers *)

View(shown, offered) == [shows |-> shown, offers |-> offered]
Beside(v, w) == View(v.shows \cup w.shows, v.offers \cup w.offers)
ForAdmin(K) == IF Admin THEN K ELSE {}

\* An editor keeps its list of genres when it is closed.
StationEditor == View({"playlists", "poolGenres"}, {"saveStation"})

\* Everything below is shown beside the sidebar, its editor and the player bar.
Sidebar == Beside(StationEditor, View({"stations", "playlists"}, {}))
PlayerBar == View({}, {"like", "ban", "hide"})

HomePage ==
    Beside(StationEditor, View({"stations", "browse", "genres"} \cup ForAdmin({"suggestions"}),
                               {"saveStation"} \cup ForAdmin({"dismiss"})))
StationsPage == Beside(StationEditor, View({"stations", "genres"}, {}))
GenrePage == View({"browse", "stations", "genres"}, {})
HiddenTracks == View({"hidden"}, {"restore"})

\* A station, its preview unless it is the one that plays, and the buttons of a
\* station this listener may change; a genre station is not deleted.
StationPage(playing, genreStation) ==
    Beside(HiddenTracks,
           View({"station", "playlists", "genres"} \cup IF playing THEN {} ELSE {"queue"},
                {"hide", "ban", "like"}
                    \cup (IF genreStation THEN ForAdmin({"saveStation"})
                                          ELSE {"saveStation", "deleteStation"})))

PlaylistsPage == View({"playlists"}, ForAdmin({"addPlaylist"}))
PlaylistPage ==
    Beside(StationEditor, View({"playlist"}, ForAdmin({"syncPlaylist", "deletePlaylist"})))
Picks == Beside(PlaylistPage, View({"picks"}, ForAdmin({"removePick"})))

AllTracks == View({"tracks"}, {})
FeedbackTracks(kind) == View({kind}, {IF kind = "likes" THEN "like" ELSE "ban"})
HistoryTab == View({"history"}, {})
SearchPage == View({"search", "stationSearch", "stations"}, {})
BrowseGenres == View({"browse"}, {})
Devices == View({"devices"}, {"revokeDevice"})

\* The cards of the admin page.
Running == query = "scans" /\ entry.data > 0 /\ entry.data % 2 = 1
Health == View({"health"}, {})
Scans == View({"scans"}, {"scan", "rescan"})
Genres == View({"genres", "genreReport"}, {"rebuildGenres"})
GenreStations == View({"genreStations"}, {"genreStations"})
GenreStationRow == View({}, {"genreStation"})
GenreReviewRow == View({}, {"correct"})
GenreReview == View({"genreReview", "genreCorrections", "genres"}, {"uncorrect"})
Pipeline == View({"pipeline"}, {"refresh"})
Users == View({"users"}, {"deleteUser"})
AdminPage ==
    LET cards == {Health, Scans, Genres, GenreStations, GenreStationRow,
                  GenreReviewRow, GenreReview, Pipeline, Users}
    IN  View(UNION {c.shows : c \in cards}, UNION {c.offers : c \in cards})

Pages ==
    {"home", "stations", "genre", "station", "playing", "genreStation", "playlists",
     "playlist", "picks", "tracks", "liked", "banned", "history", "search", "browse",
     "settings", "admin"}
Route(p) ==
    CASE p = "home" -> HomePage
      [] p = "stations" -> StationsPage
      [] p = "genre" -> GenrePage
      [] p = "station" -> StationPage(FALSE, FALSE)
      [] p = "playing" -> StationPage(TRUE, FALSE)
      [] p = "genreStation" -> StationPage(FALSE, TRUE)
      [] p = "playlists" -> PlaylistsPage
      [] p = "playlist" -> PlaylistPage
      [] p = "picks" -> Picks
      [] p = "tracks" -> AllTracks
      [] p = "liked" -> FeedbackTracks("likes")
      [] p = "banned" -> FeedbackTracks("bans")
      [] p = "history" -> HistoryTab
      [] p = "search" -> SearchPage
      [] p = "browse" -> BrowseGenres
      [] p = "settings" -> Devices
      [] p = "admin" -> AdminPage
Shell == [p \in Pages |-> Beside(Beside(Sidebar, PlayerBar), Route(p))]
Queries == UNION {Shell[p].shows : p \in Pages}

\* Buttons that are disabled while their own mutation is under way.  The others
\* stay enabled, or there is one for every row.
OneAtATime ==
    {"restore", "removePick", "addPlaylist", "syncPlaylist", "scan", "rescan",
     "genreStations", "uncorrect", "refresh", "rebuildGenres"}

\* The query whose rows, or whose page, carry the button: there is none before
\* the first answer.
ShownWith ==
    [deleteStation |-> "station", restore |-> "hidden", dismiss |-> "suggestions",
     syncPlaylist |-> "playlist", deletePlaylist |-> "playlist", removePick |-> "picks",
     revokeDevice |-> "devices", genreStations |-> "genreStations",
     genreStation |-> "genreStations", correct |-> "genreReview",
     uncorrect |-> "genreCorrections", deleteUser |-> "users"]

-----------------------------------------------------------------------------
(* The cache: the query client's part *)

\* The mutations that change the query or touch its entry.
Concern ==
    [q \in Queries |-> {m \in Mutations :
        q \in Changes[m] \cup Covered(Hooks[m].tells) \cup Hooks[m].sets \cup Hooks[m].later}]
Concerns(m) == m \in Concern[query]

Mounted(p) == query \in Shell[p].shows

Begun(e) == IF e.get = Idle THEN [e EXCEPT !.get = Sent] ELSE e

\* A page that shows the query opens: it is fetched when absent or stale.
Opened(e) == IF e.data = NoData \/ e.stale THEN Begun(e) ELSE e

\* Mistake: a fetch under way is left to answer.
InvalidatedShares(e) == [Begun(e) EXCEPT !.stale = TRUE]

\* invalidateQueries: a query that is shown is fetched again, and a fetch under
\* way is dropped for the new one, unless it is the first one.
Invalidated(e) ==
    IF ~Mounted(page) THEN [e EXCEPT !.stale = TRUE]
    ELSE IF e.data = NoData THEN Begun(e)
    ELSE [e EXCEPT !.get = Sent, !.stale = TRUE]

\* setQueryData: a fetch under way goes on.
Written(e, v) == [e EXCEPT !.data = v, !.stale = FALSE]

\* The fetches an invalidation leaves alone: their answer counts as fresh.
Missed(e) == e.get # Idle /\ (~Mounted(page) \/ e.data = NoData)

-----------------------------------------------------------------------------
(* Actions *)

NoCall == [name |-> "none", answer |-> Idle, held |-> FALSE]
Refused == -3

Init ==
    /\ query \in Queries
    /\ page = "home"
    /\ version = 0
    /\ entry = [data |-> NoData, get |-> IF Mounted(page) THEN Sent ELSE Idle, stale |-> FALSE]
    /\ failed = FALSE
    /\ calls = [i \in 1 .. MaxCalls |-> NoCall]
    /\ timer = FALSE
    /\ due = 0
    /\ own = 0
    /\ spared = FALSE
    /\ lost = FALSE
    /\ failures = 0

\* Another page: the buttons of the one that closes are gone.
Goes(p) ==
    /\ page' = p
    /\ entry' = IF ~Mounted(page) /\ Mounted(p) THEN Opened(entry) ELSE entry
    /\ calls' = [i \in DOMAIN calls |-> IF calls[i] = NoCall THEN NoCall ELSE [calls[i] EXCEPT !.held = FALSE]]
    /\ own' = 0

\* Of the pages that all show the query, or all do not, and offer the same of
\* its changes, one stands for them.
Alike(p, r, q) ==
    /\ q \in Shell[p].shows <=> q \in Shell[r].shows
    /\ Shell[p].offers \cap Concern[q] = Shell[r].offers \cap Concern[q]
Open == IF Admin THEN Pages ELSE Pages \ {"admin"}
Related == [q \in Queries |-> {CHOOSE r \in Open : Alike(p, r, q) : p \in Open}]

ShowPage(p) ==
    /\ p # page
    /\ p \in Related[query]
    /\ Goes(p)
    /\ UNCHANGED <<query, version, failed, timer, due, failures, spared, lost>>

\* staleTime passes; a queue is never stale by itself.
GrowsStale ==
    /\ query # "queue"
    /\ entry.data # NoData /\ ~entry.stale
    /\ entry' = [entry EXCEPT !.stale = TRUE]
    /\ UNCHANGED <<query, page, version, failed, calls, timer, due, own, failures, spared, lost>>

\* Mistake: a failed poll ends the interval.
PollsUntilFailure ==
    /\ Mounted(page) /\ ~failed
    /\ Running \/ query = "pipeline"
    /\ entry.get = Idle
    /\ entry' = Begun(entry)
    /\ UNCHANGED <<query, page, version, failed, calls, timer, due, own, failures, spared, lost>>

\* refetchInterval: scans while one is under way, the pipeline always.
Polls ==
    /\ Mounted(page)
    /\ Running \/ query = "pipeline"
    /\ entry.get = Idle
    /\ entry' = Begun(entry)
    /\ UNCHANGED <<query, page, version, failed, calls, timer, due, own, failures, spared, lost>>

\* Data no page has shown for some minutes is dropped.
Collected ==
    /\ ~Mounted(page)
    /\ entry.data # NoData /\ entry.get = Idle
    /\ entry' = [entry EXCEPT !.data = NoData, !.stale = FALSE]
    /\ due' = 0 /\ lost' = FALSE
    /\ UNCHANGED <<query, page, version, failed, calls, timer, own, failures, spared>>

ServerReads ==
    /\ entry.get = Sent
    /\ entry' = [entry EXCEPT !.get = version]
    /\ UNCHANGED <<query, page, version, failed, calls, timer, due, own, failures, spared, lost>>

Arrives ==
    /\ entry.get >= 0
    /\ entry' = [data |-> entry.get, get |-> Idle, stale |-> FALSE]
    /\ lost' = spared /\ spared' = FALSE
    /\ failed' = FALSE
    /\ UNCHANGED <<query, page, version, calls, timer, due, own, failures>>

\* A GET fails for good, its retries included.
GetFails ==
    /\ entry.get # Idle
    /\ failures < MaxFailures
    /\ failures' = failures + 1
    /\ entry' = [entry EXCEPT !.get = Idle]
    /\ spared' = FALSE
    /\ failed' = TRUE
    /\ UNCHANGED <<query, page, version, calls, timer, due, own, lost>>

-----------------------------------------------------------------------------

Press(m) ==
    /\ m \in Shell[page].offers
    /\ Concerns(m)
    /\ m \in DOMAIN ShownWith /\ query = ShownWith[m] => entry.data # NoData
    /\ m \in {"scan", "rescan"} => ~Running   \* both buttons are disabled
    /\ m \in OneAtATime => \A i \in DOMAIN calls : calls[i].name = m => ~calls[i].held
    /\ query \in Crowded => \A i \in DOMAIN calls : calls[i] = NoCall
    /\ \E i \in DOMAIN calls :
         /\ calls[i] = NoCall
         /\ \A j \in 1 .. i - 1 : calls[j] # NoCall
         /\ calls' = [calls EXCEPT ![i] = [name |-> m, answer |-> Sent, held |-> TRUE]]
    /\ UNCHANGED <<query, page, version, entry, failed, timer, due, own, failures, spared, lost>>

\* The server handles it.  A scan that is asked for while one is under way is
\* that one.
Handled(i) ==
    /\ calls[i].answer = Sent /\ calls[i] # NoCall
    /\ LET changed == query \in Changes[calls[i].name]
                        /\ ~(query = "scans" /\ version % 2 = 1)
       IN  /\ changed => version < MaxVersion
           /\ version' = IF changed THEN version + 1 ELSE version
    /\ calls' = [calls EXCEPT ![i].answer = version']
    /\ UNCHANGED <<query, page, entry, failed, timer, due, own, failures, spared, lost>>

Turned(i) ==
    /\ calls[i].answer = Sent /\ calls[i] # NoCall
    /\ failures < MaxFailures
    /\ failures' = failures + 1
    /\ calls' = [calls EXCEPT ![i].answer = Refused]
    /\ UNCHANGED <<query, page, version, entry, failed, timer, due, own, spared, lost>>

\* The queries in K are invalidated, and owe what the server has now.
Tell(K, e) ==
    /\ entry' = IF query \in Covered(K) THEN Invalidated(e) ELSE e
    /\ due' = IF query \in Covered(K) THEN version ELSE due
    /\ spared' = IF query \in Covered(K) THEN Missed(e) ELSE spared

\* Where a change that is answered leads, while its button is still there.
NextPages(m) ==
    CASE m = "saveStation" -> {page, "station"}
      [] m = "deleteStation" -> {"stations"}
      [] m = "deletePlaylist" -> {"playlists"}
      [] OTHER -> {page}

Succeeds(i) ==
    LET call == calls[i]
        h == Hooks[call.name]
        e == IF query \in h.sets THEN Written(entry, call.answer) ELSE entry
        told == IF query \in Covered(h.tells) THEN Invalidated(e) ELSE e
    IN  /\ call.answer >= 0
        /\ page' \in IF call.held THEN NextPages(call.name) ELSE {page}
        /\ entry' = IF ~Mounted(page) /\ Mounted(page') THEN Opened(told) ELSE told
        /\ due' = IF query \in Covered(h.tells) THEN version ELSE due
        /\ spared' = IF query \in Covered(h.tells) THEN Missed(e) ELSE spared
        /\ lost' = (lost /\ query \notin h.sets)
        /\ calls' = [j \in DOMAIN calls |->
                        IF j = i THEN NoCall
                        ELSE IF page' = page \/ calls[j] = NoCall THEN calls[j]
                        ELSE [calls[j] EXCEPT !.held = FALSE]]
        /\ own' = IF query \in Changes[call.name] /\ call.held
                     /\ call.answer > own /\ <<call.name, query>> \notin Unheard
                  THEN call.answer
                  ELSE IF page' = page THEN own ELSE 0
        /\ timer' = (timer \/ query \in h.later)
        /\ UNCHANGED <<query, version, failed, failures>>

\* The answer is an error, or is lost on its way.
Fails(i) ==
    LET call == calls[i]
        h == Hooks[call.name]
    IN  /\ \/ call.answer = Refused /\ UNCHANGED failures
           \/ /\ call.answer >= 0 /\ failures < MaxFailures
              /\ failures' = failures + 1
        /\ IF h.always
           THEN Tell(h.tells, entry) /\ timer' = (timer \/ query \in h.later)
           ELSE UNCHANGED <<entry, due, spared, timer>>
        /\ calls' = [calls EXCEPT ![i] = NoCall]
        /\ UNCHANGED <<query, page, version, failed, own, lost>>

\* A timeout of useGenreCorrectionActions, or of the Genres card, of any page
\* that was open; another one may still run.
TimerFires ==
    /\ timer
    /\ timer' \in BOOLEAN
    /\ Tell({query}, entry)
    /\ UNCHANGED <<query, page, version, failed, calls, own, lost, failures>>

\* "Shuffle the preview" of a station: a refetch drops a fetch under way.
Shuffle ==
    /\ query = "queue" /\ Mounted(page)
    /\ entry' = IF entry.data = NoData THEN Begun(entry) ELSE [entry EXCEPT !.get = Sent]
    /\ spared' = (spared /\ entry.data = NoData)
    /\ UNCHANGED <<query, page, version, failed, calls, timer, due, own, lost, failures>>

-----------------------------------------------------------------------------
(* The server, of itself *)

\* Someone else, the pipeline or the worker changes it.
ServerChanges ==
    /\ version < MaxVersion
    /\ ~(query = "scans" /\ version % 2 = 1)
    /\ version' = version + 1
    /\ UNCHANGED <<query, page, entry, failed, calls, timer, due, own, failures, spared, lost>>

ScanEnds ==
    /\ query = "scans" /\ version % 2 = 1
    /\ version < MaxVersion
    /\ version' = version + 1
    /\ UNCHANGED <<query, page, entry, failed, calls, timer, due, own, failures, spared, lost>>

Next ==
    \/ \E p \in Pages : ShowPage(p)
    \/ GrowsStale \/ Polls \/ Collected \/ ServerReads \/ Arrives \/ GetFails
    \/ \E m \in Mutations : Press(m)
    \/ \E i \in DOMAIN calls : Handled(i) \/ Turned(i) \/ Succeeds(i) \/ Fails(i)
    \/ TimerFires \/ Shuffle \/ ServerChanges \/ ScanEnds

\* A GET is answered, an interval passes, a scan ends.
Fairness ==
    /\ WF_vars(ServerReads) /\ WF_vars(Arrives)
    /\ WF_vars(Polls) /\ WF_vars(ScanEnds)

Spec == Init /\ [][Next]_vars /\ Fairness

-----------------------------------------------------------------------------
(* Properties *)

\* Every variable holds a value of its kind.
DataTypeOK ==
    /\ query \in Queries /\ page \in Pages
    /\ version \in Versions /\ due \in Versions /\ own \in Versions
    /\ entry \in [data : Versions \cup {NoData}, get : Versions \cup {Sent, Idle}, stale : BOOLEAN]
    /\ {failed, timer, spared, lost} \subseteq BOOLEAN
    /\ \A i \in DOMAIN calls : calls[i] = NoCall \/ calls[i].name \in Mutations
    /\ failures \in 0 .. MaxFailures

\* A page that is open and awaits nothing.
Settled == Mounted(page) /\ entry.get = Idle /\ ~failed

\* The settings' answer is put in the cache beside fetches that go on.
Overwritten == {"genreStations", "genreCorrections"}

\* A page that awaits nothing shows what the last invalidation asked for
\* (invalidateQueries in the hooks of queries.ts), through every interleaving of
\* pages that open and close, polls, failures and other changes, except one: the
\* invalidation met the first fetch of the query, or one of a page that was
\* closed, which react-query leaves to answer, and that answer is what is shown.
InvalidationsShow ==
    Settled /\ query \notin Overwritten /\ ~lost => entry.data >= due

\* That order does lose one: every invalidation is shown.
EveryInvalidationShows ==
    Settled /\ query \notin Overwritten => entry.data >= due

\* After this page's own changes it shows them (queries.ts:18, "Query keys in
\* one place so invalidations stay consistent"), whatever page the change led
\* to, with the same exception.
OwnChangesShow ==
    Settled /\ query \notin Overwritten /\ ~lost => entry.data >= own

\* The settings that are shown are those the page's own changes made
\* (useGenreStationsSaved, useGenreCorrectionActions).
SettingsShow ==
    Settled /\ query \in Overwritten => entry.data >= own

\* What is shown is never replaced by what the server said earlier, except by
\* an answer that setQueryData puts in the cache.
NeverBack ==
    [][entry'.data = NoData \/ entry'.data >= entry.data
       \/ query \in Overwritten \cup {"station"}]_vars

\* A scan that is shown as running on the admin page is followed until it is
\* over (refetchInterval of useScans), failed polls included.
ScanFollowed == Running /\ Mounted(page) ~> ~Running \/ ~Mounted(page)
=============================================================================
