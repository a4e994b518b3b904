# OwnWave: specifications, model checks and proofs

OwnWave is a self-hosted music server: a Go API, a Python analytics service
that scans and analyses the library, PostgreSQL between them, and a web player.
This directory specifies the parts of it that run concurrently, retry, crash or
keep state over time, checks them with TLC on small instances and proves the
most important properties with TLAPS for every instance.

Paths below are relative to the repository.

## 1. The system

| Part | Source | State | Operations | Hard behaviour |
|---|---|---|---|---|
| Task queue | `services/python-analytics/src/task_queue.py` | table `task_queue`: task, args, status, attempts, run_after | `enqueue`, `claim`, `complete`, `fail`, `_give_up`, `requeue_running`, worker processes and their supervisor | workers claim in parallel; killed workers leave `running` rows; retries; giving up is two transactions |
| Scan steps | `tasks.py`, `db.py` | table `scan_jobs`: a master job per scan, a job per folder | `queue_library_scan`, `trigger_library_scan`, `process_audio_folder`, `_finish_folder`, `finalize_scan`, `rebuild_analysis` | every step may run twice; parallel finishers; scans queued by requests and by the watcher |
| Folder watcher | `watcher.py` | a timer, a dirty flag, the time of the first change, a cooldown | `on_any_event`, `_maybe_trigger` | timer thread against observer thread; a cancelled timer may already be firing; changes during a scan |
| Importer and prune | `folder_importer.py`, `library_scan/prune.py`, `db.py` | table `tracks` against the files on disk | `import_folder`, `match_moved_tracks`, `prune_library` | files move while folders are imported; a retried import; a failed folder |
| Genre refresh | `tasks.py`, `musicbrainz.py`, `genre_scoring.py` | `musicbrainz_artists`, `track_station_genres`, an advisory lock | `fetch_artist_genres`, `score_genres` | batches that queue the next; a second fetcher skips |
| Pipeline runner | `services/go-api-server/internal/pipeline/pipeline.go` | a one-slot channel, the run in progress, `station_refresh_runs` | `Trigger`, `listen`, `work`, `Run` | notices lost while disconnected; triggers during a run; HTTP runs beside the loop |
| Playlists | `internal/playlists/*.go` | playlists, their items, matches, picks, copies | `Sync`, `MatchPending`, `GroupCopies`, `RebuildPicks`, `RemovePick` | read, compute, write without a lock; rebuilds against admin edits |
| Genre stations | `internal/stations/*.go` | stations and their songs, shown or hidden | `Refresh`, admin edits, suggestions, corrections | refresh against admin edits; show and hide thresholds |
| Playback queue | `internal/playback/service.go` | `station_tracks`, history | `Record`, `BuildQueue`, `spreadArtists` | greedy spreading of artists |
| Transcode cache | `internal/streaming/cache.go` | files, `.part` files, jobs, slots | `Serve`, `start`, `transcode`, `evict` | one job per key; eviction against readers; kills |
| Cover cache | `internal/streaming/cover_cache.go` | map of entries, counts of hits and misses | `GetOrExtract`, `lookup`, `store` | the counts against the map |
| Authentication | `internal/auth/*.go` | users, sessions, invites, devices | `Register`, `Login`, `ChangePassword`, invites | the first user; an invite used once |
| Player engine | `apps/web/src/player/engine.ts` | queue, position, two audio elements, a crossfade, what is preloaded | `load`, `append`, `remove`, `play`, `next`, `previous`, element events | calls, events and an interval in any order; indexes into a queue that changes |
| Web player | `PlayerProvider.tsx`, `player-ui.tsx`, `media.tsx` | the station that is on, requests for its queue, what is shown | `playStation`, `loadMore`, `ban`, `hide`, buttons and media keys | answers that arrive after the station changed |
| Web session | `lib/auth.tsx`, `App.tsx`, `api/client.ts`, `pages/Setup.tsx`, `Login.tsx`, `Invite.tsx`, part of `Settings.tsx` | cached answers of `/api/me` and `/api/setup/status`, the route, the wizard's step | sign in, out, up, `refresh`, `onUnauthorized`, redirects | late 401s, a cache cleared under its observers, two cached answers of different moments |
| Web pages | `lib/queries.ts`, `pages/*.tsx`, `Shell.tsx`, `StationEditor.tsx` | the query cache | queries, mutations, invalidation, polls, timers | fetches that overlap changes; pages that open and close meanwhile |
| API surface, browse, search, Spotify embed, metrics | handlers, `browse.go`, `spotify/` | none of their own | requests and views | none beyond the parts above |

How they interact. The API posts scan requests to the analytics service's HTTP
API, which queues a scan in the same transaction as its job; the worker service
drains the queue and watches the music folder. When a scan is done and when
genres are scored the worker posts a notice on the channel `ownwave_pipeline`
in the same transaction; the API's pipeline runner listens, matches playlist
items to the new files and refreshes the stations. The web app asks the API who
is signed in, shows lists from its query cache, and hands a station's next tracks
to the player, whose two audio elements stream them through the transcode cache.

What makes each part correct:

- Task queue and scan steps: a task is run until it is done or given up, whoever
  dies meanwhile; a scan's folders are finished by exactly one finisher; the
  prune sees a library that is imported completely; every scan ends; one scan of
  a path at a time.
- Folder watcher: no change is forgotten and none waits beyond a known time,
  however timers and events race.
- Importer and prune: after a scan the tracks are the files; a file keeps its
  track, and with it its history, as long as it is there.
- Genre refresh: every name is looked up in the end, and every new track scored.
- Pipeline runner: what a notice announced is used by a run that starts later.
- Playlists and genre stations: what is stored was computed from what is there
  or is computed again; an admin's edit is not undone by a background run.
- Caches: a finished file is complete; one job per key; the bounds hold.
- Authentication: one first user, an invite used once, no session after a
  password change but the one that made it.
- Player engine: what is wanted plays and is what is shown as current; one
  element sounds outside a crossfade; the next track waits in the other; the
  volume is the listener's.
- Web player: what is shown is what plays; no spinner stays; the music goes on at
  the end of a queue; the tracks that follow are those of the station that plays.
- Web session: who is signed in comes to be shown so, and stays; nobody sees the
  data of the user before; no circle of redirects and no spinner for ever.
- Web pages: a change is shown by every page that shows what it changed; an older
  answer replaces no newer one; a running scan is followed to its end.

## 2. The modules

| Module | What it is |
|---|---|
| `ScanPipeline` | task queue and scan steps: a library scan from request to scoring |
| `MCScanPipeline` | its instances for TLC |
| `ScanPipelineProofs` | its inductive invariant and theorems |
| `ScanOverlapProofs` | its theorems about lost tasks and about scans that meet, on top of them |
| `Watcher`, `MCWatcher`, `WatcherProofs` | the folder watcher |
| `LibraryFiles`, `MCLibraryFiles`, `LibraryFilesProofs` | importer and prune |
| `PlayOrder` | abstract: what the player engine promises its owner |
| `PlayerEngine`, `MCPlayerEngine`, `PlayerEngineProofs` | the engine, which implements `PlayOrder` |
| `WebPlayer`, `MCWebPlayer`, `WebPlayerProofs` | the player of the web app: `PlayerEngine` (by EXTENDS) composed with requests and views |
| `WebSession`, `MCWebSession`, `WebSessionProofs` | who is signed in, and where the app sends them |
| `WebData`, `MCWebData`, `WebDataProofs` | the query cache behind the pages |

`*.cfg` are the TLC configurations. Definitions commented *Mistake* are not
part of a specification: each is a wrong version of the definition after it,
used to check that the properties can fail.

### ScanPipeline

State: `queue` is the table `task_queue` (a set of rows), `master` and `job` the
statuses in `scan_jobs` of scans and of their folders, `asking` where each caller
is in `queue_library_scan` and `scanLock` its advisory lock, `masterLock` the row
lock `_finish_folder` takes, `fetchLock` the advisory lock of
`fetch_artist_genres`, `svc`, `pc` and `cur` the worker service, where each of its
processes is and the row it works on. `finalizers` and `batches` only count, the second for its bound.

An action is one transaction, or a step between two. `_finish_folder` is split
at the row lock (`FinishMark`, `FinishLock`, `FinishCount`, `FinishCommit`),
because the lock is what it is about; `queue_library_scan` is split after its lock
(`LockScanCreation`) and after its look (`NoActiveScan`), and
`fetch_artist_genres` at its lock, before its commit and before the unlock, which
comes after it (`FetchSkip` or `FetchBegin`, `FetchArtists`, `FetchUnlock`). `GiveUp` commits the failed row, and the
failure handler follows in the steps of `_finish_folder`, as in `_give_up`. A
kill (`CrashWorker`, `KillService`) is possible between any two actions; it
drops locks and what was not committed. `Restart` waits for the surviving
workers, as `run_worker` joins them, and `RequeueGiveUp` and `RequeueRest` are
`requeue_running`.

Abstractions. All scans are of one path. A folder's import is one step that
writes no task and no job. Whether a task raises is a choice, for the tasks in
`FailingTasks`. `RETRY_DELAY_SECONDS` is a status "delayed" that ends at any
time. `MusicBrainz` is the setting (`config.py:20`, on by default): with it
`queue_genre_refresh` queues a fetch, without it `score_genres`. A fetch leaves
artists for another one at most `MaxBatches` times in a row; whom it looks up is
not modelled, so neither is a fetch that is skipped for one that had read the
names before the new scan's artists were there. The names of folders found on
disk are any subset of `Folders`.

### Watcher

Time is a number of ticks to go (`left`, `cooling`) or gone (`age`); a tick
passes only when no event and no expired timer is waiting to be handled, so the
handler is fast compared with a tick. A `threading.Timer` that is cancelled when
its wait is over still runs: it is `firing`, and `_schedule` only stops timers
that are `waiting`. The handler's lock makes `on_any_event` and `_maybe_trigger`
one action each; `queue_scan` runs after it is released. The scan is reduced to
queued, read and finished.

`event` is the file event on its way, of a file that is called like a music file
or of something else, which the handler's filter drops (`IgnoreEvent`). `Change`
is a change of music files, whose only event may be one that is dropped if
"other" is in `Kinds`: a file that loses its music file name, a directory that is
moved out. `ChangeBeside` is any other change. `unseen` holds the kinds of change
that no scan has read, and `fate` how their last request ended: it may be "open",
the call of `queue_scan` may have failed or been answered with a scan past its
reading, or the import may have failed (`ImportFails`, if `ImportMayFail`).

### LibraryFiles

State: `disk` is what the music folder holds, `tracks` the table, `folder`,
`todo`, `known` and `reading` what each `import_folder` has in hand, `listing`
the `on_disk` of `prune_library`. A *version* of a file stands for all a scan
reads of it; `Like` says which versions have one size and about one duration,
which is all that `match_moved_tracks` compares. A version that is not like itself
is a file whose duration cannot be read (`get_duration` returns None), which is
paired with nothing. `created_at >= started_at` is a comparison of the numbers of
scans. `heard` (which track a version was first played as), `moved`, `risked`
(those that met another file's track, or an import that failed) and `clean` are
there for the properties only.

An import is a step per read: the listing and the known rows, then for each file
the check of size and time, the reading of the tags, and size, time and upsert in
one. A file that is gone, or whose import raises, is skipped and its folder goes on
(`SkipFile`, and `FailFile` for the `except` of `folder_importer.py:159-162`, if
`FilesMayFail`). Files are imported in any order, folders in parallel, and a
folder may be imported again at any time. The prune is two steps: the listing, then the
transaction. Not modelled: forced scans, artists and albums, features and genres,
and tracks outside the scanned root.

### PlayerEngine and PlayOrder

The engine is one record, `eng`, with the fields of the class; a method is an
operator from records to records (`Load`, `AppendPage`, `Remove`, `Start`,
`StopFade`, ...), since the methods call one another, and an action applies one
of them. `el` is the two audio elements: what they hold, what they do (`run`),
where they are in it and how loud they are. A `<audio>` event is an action
enabled by what the element does, because setting `src` drops what was not
delivered. The argument `ok` is whether the browser allows an element to begin,
which `handlePlayError` takes back. Positions are three places: the start (where
`previous` goes back a track), the body, and the last seconds, where a crossfade
begins. The callbacks `onNeedMore` and `onTrack` are the flags `asks` and
`changed`, which the owner consumes in the same step. The ramp of a crossfade has
`FadeSteps` ticks.

`PlayOrder` has three variables, the list, the position and what is heard, and
four actions: another list, an extension, a removal ahead, a move by one. Its
promise is that a track begins to sound only as the current one and that what
waits is never repeated. `Order` in `PlayerEngine` is the refinement mapping.

### WebPlayer

`station` is `stationRef` and the state's station, `view` what the provider's
state shows, `requests` the queue requests in flight by kind and station,
`fetching` the flag of `loadMore`. A click, an answer, a failure and an audio
event are actions that call an operator of `PlayerEngine` and then what the
callbacks do (`Calls`). An answer is any order of some of its station's songs, as
songs are banned, hidden and deleted meanwhile. Next and previous may be asked for
by the buttons or by the media keys, which act with no track shown as well. Answers of `playStation` may come
in any order and after the provider is gone. Not modelled: likes, the count of
plays, the media session's metadata, the position bar, artwork colours, settings
(they meet only the engine).

### WebSession

The server has accounts, an admin, whether the wizard is completed, and sessions,
which end at any time. The browser has its cookie, the cache entries of `/api/me`
(`me`) and of the setup status (`setup`), what `useAuth()` returns (`shown`), the
route, the wizard's step, requests of pages in flight with the session they
were sent with, and one form under way. A render is `Render`: the route's guards
(`RequireUser`, `SetupPage`, the login page) are operators on the two cached
answers, and `Redirects` is a `<Navigate>`. `refresh` is split at its awaits
(`SignedInArrives`, `MeAwaited`, `FormDone`). `clear()` and `removeQueries`
leave an observer on an entry that is no longer in the cache: `setup.gone` and
`watching` say so. The cache library is external and modelled from its use:
a mounted observer fetches what is absent, invalidation repeats a fetch except
the first one, a removed query's answer enters no cache.

If `ServerMayFail`, a request may be answered `Mistaken`, the 401 that
`UserFromRequest` and `RequireUser` give for any error of the database, or
`Broken`, another error after its retries: of `/api/me` (`auth.tsx:26`) that leaves
the data it had, and `behind` says so; with no data it counts as signed out.
Not modelled: a setup status that fails, other tabs that share the cookie,
devices, and what the forms hold.

### WebData

No query reads another one, so one query at a time is followed, any of those the
app has, through every page that shows it and every mutation that concerns it.
The server's answer is a version that each change raises, the cache entry holds
the version it was given. `Hooks` says for each mutation what its hook in
`queries.ts` invalidates, writes and fetches later. `Changes` says what the
server's handler changes, from parts that are named for what changes
(`PoolChange`, `RunChange`, `ScanChange`, ...): a run of the pipeline rebuilds
picks and genre stations, a scan is on the pipeline's card too. `Route` says what
each page shows and offers, the editor that a page or the sidebar mounts included.
`InvalidationsShow` and `OwnChangesShow` compare the tables over every
interleaving of fetches, page changes, mutations and failures. Of the pages that
are alike for the query that is followed, one is opened (`Related`).

An invalidation does not repeat the first fetch of a query, nor one that goes on
for a page that was closed. `spared` says that the fetch in flight was left to
answer so, and `lost` that what is shown is such an answer: the properties say that
this is the only way to lose an invalidation, and `WebSharedFetch` that it is one.
An odd version of the scans is a list with a scan under way. Not modelled: pages of
one list (offset paging is one version), refetches on focus, fields of forms, and
that a song's genre or play changes counts elsewhere (the sizes in the browse
tree, health, history).

## 3. The runs

| Run | Instance | What it shows |
|---|---|---|
| `ScanCrashes` | 1 scan, 2 folders, 2 workers, 3 attempts, 1 kill, imports and prunes raise, MusicBrainz with 1 batch more | `TypeOK`, `ExactlyOneFinalizer`, `PruneAfterImports` |
| `ScanOverlap` | 2 scans, 2 callers, 1 folder, 2 attempts, imports and prunes raise, MusicBrainz | `FolderJobHasTask`, `OneActiveScan`, `CompletedIsFinal` |
| `ScanLiveness` | 2 scans, 1 folder, imports raise, MusicBrainz, fair | `ScanEnds`, `RefreshFollows` |
| `WatcherTimers` | 4 timers, waits 2, 4 and 2, queueing and imports may fail, fair | `NoChangeForgotten`, `WaitBounded`, `LostOnlyKnownWays`, `RequestFollows`, `ReadOrKnownWhy` |
| `LibraryMoves` | 3 paths in 2 folders, 3 versions (2 alike), 3 changes between 2 scans, onto known paths too, imports raise | `OneTrackPerPath`, `HistoryKept`, `Reconciled`, `HistoryFollows` |
| `LibraryUnmount` | 3 paths, 2 versions (1 without a duration), 3 changes at any time but no move, imports raise, folders fail, 2 scans | `TypeOK`, `HistoryKept` |
| `Player` | 3 tracks (2 long enough to fade), queues of up to 3, crossfades of 2 ticks, 2 volumes | `TypeOK`, `PlaysWhatIsWanted`, `OneSounds`, `StandbyIsNext`, `VolumeIsSet`, `KeepsOrder` |
| `WebPlayer` | 2 stations of 2 songs and 1, one request of a kind per station, queues of up to 2 | `ShownIsReal`, `ShownStationIsLoaded`, `LoadingIsAwaited`, `OneMoreAtATime`, `DryIsAsked` |
| `WebSession` | 2 users, 3 sessions, 1 page request, 1 more page load, passwords mistyped, the server may fail | `SessionTypeOK`, `CacheIsOwn`, `SpinnerIsAwaited`, `NoRedirectLoop`, `WizardIsAdmins`, `KeepsSession` |
| `WebData` | every query, 2 changes, 2 mutations in flight (1 for the queries most buttons change), 1 failure, fair | `InvalidationsShow`, `OwnChangesShow`, `NeverBack`, `ScanFollowed` |

Why these bounds. Two finishers are what `_finish_folder` is about, and two
folders make them; a third only repeats the race. Three attempts with one kill
let a row be killed, raise and still be retried or given up. Two scans are
enough for a late step of one to meet the other; in a third the first is
forgotten. One batch that leaves artists to another lets a fetch be skipped for
one that queues the next, and for one that queues the scoring. Four timers let a
live one, one that was cancelled too late and two that are queueing a scan (for as
long as the database takes) be alive at once; when all are taken, an event waits for one to end,
which the proofs do not need. Waits are small, but the maximum wait
is longer than the quiet time, so that it sets the timer of some events and not of
others, and a timer that was cancelled too late may fire in the cooldown. Three paths in two folders have a folder with two
files, which can be exchanged, and a second one imported in parallel; three
versions, two of them alike, make a pair that is ambiguous and a file that is
not; three changes make a chain or an exchange of moves, or a move with an edit or
a removal, and the second scan meets the rows of the first; that a row is moved
again by a third is left to the proofs. `LibraryMoves` and `LibraryUnmount`
use symmetry, of the two paths of one folder and, in the first, of the two
versions that are alike; no liveness is checked there.

A queue of three tracks has one played, one current and one waiting, which are
the three parts the engine tells apart, and a page may still be appended to it or
taken out of it at each place; a crossfade of two ticks has one in its middle,
where everything may interrupt it. `Player` explores all of it without symmetry,
and the proofs lift it to any length. In `WebPlayer` two stations make an answer
that is late, one song each in common and not; one station has a single song, so
its queue runs out at once; `RecentSkip` is 1, so that a page may bring only songs
that were just played (the real 50 in a station of fewer songs, which
`PlayerSmallStation` is about). Three sessions let a
sign-in, a change of password and another sign-in follow one another, a second
user makes the data of another one, and one late request is enough to overtake.
Two changes with two mutations in flight let each answer lag behind the other's.

Deadlock is not checked in the runs of `ScanPipeline` (all scans done and kills
used up: the service idles), of `LibraryFiles` (changes and scans bounded), of
the player (nothing happens after `dispose`) and of the web app (nobody clicks,
and the bounds on sessions and changes are reached).

Fairness. Workers, the supervisor, timer threads and the observer keep running
(weak fairness of each), and time passes. The row lock of `_finish_folder` is
granted in the order it is asked for, which strong fairness of `FinishLock`
stands for. Nothing forces a request, an event, an exception or a kill, and
nothing stops changes from going on for ever. `WebSession` states that the browser
and its server keep going (`Browser`: answers are given, promises continue, routes
render), for `SignInReaches` below. In `WebData` a fetch
is read and answered, an interval's poll is sent (`refetchInterval` is a timer of
the page), and a scan ends, which `ScanEnds` of `ScanPipeline` shows of the worker;
`ScanFollowed` says that the page learns of it. The player has safety
properties only: nothing makes a listener or a server act.

### What the code does not do

Two runs end in a counterexample to what the repository says.

| Run | Property | What happens |
|---|---|---|
| `PlayerSmallStation` | `ReshufflesWhenDry` | a station of no more songs than `RECENT_SKIP` (50): every song of the next page was just played and is skipped, nothing is asked for again, and the music ends. `README.md:10` says "reshuffles when the queue runs out" |
| `WebPassword` | `SignsOutOthersOnly` | a mistyped current password is answered with 401, which `client.ts` takes for the end of the session: the user is sent to the login page, still signed in. `client.ts:14` says "Called on 401 so the app can drop back to the login page", and `Settings.tsx:85` of this form "Signs out every other browser and app." |

The other configurations in this directory are kept to reproduce, with
`tlc -config X.cfg M`, disagreements of the same kind:

- `ScanOrphanedFolder` (`FolderJobHasTask`): a worker is killed between the commit
  of a given-up folder task and its failure handler; the folder job stays
  `running` without a task, and its scan active for ever.
- `ScanTwoActive` (`OneActiveScan`): a trigger that ended its scan at once (no
  audio) is killed before its row is deleted; run again, it reopens the scan
  beside the next one.
- `ScanStuck` (`ScanEnds`): a task other than `process_audio_folder` is given up;
  nothing ends its scan, which is returned to every later caller.
- `ScanPruneOverlap` (`PruneSeesNoImport`): the retry of a failed prune runs
  while the next scan imports.
- `ScanFetchGivenUp`, `ScanFetchMissed` (`ScoringFollows`): a fetch of artists that
  is out of attempts has no failure handler; one that finds the lock with a fetch
  that has queued what follows it, and not unlocked yet, is skipped. Neither is
  followed by `score_genres`.
- `WatcherLostChange` (`EveryChangeIsRead`): a change after a scan has read the
  folder is answered with that scan.
- `WatcherUnheard` (`EveryKindIsRead`): a file that loses its music file name, or a
  directory that is moved out, has no event the handler takes.
- `WatcherDebounce` (`QuietFirst`): a timer that was cancelled too late clears
  `self._timer`, so that the live timer can no longer be postponed.
- `LibraryFailedFolder`, `LibraryFailedFile`, `LibraryMoveDuringScan`,
  `LibraryRenamedOver`, `LibraryPlayedInScan` (`HistorySurvives`): the row of a
  moved file counts as old after a scan whose prune was skipped; the import of a
  moved file raises, its folder completes all the same, and the prune finds no row
  to pair with the old one; a file moves after its folder was imported; takes the
  path of another track; is played under the row that the prune will delete.
- `LibraryTornRead` (`TagsAsOnDisk`): a file is saved between the reading of its
  tags and of its time. With `Like <- SameSize`, `Changes = {"edit", "move"}`,
  `DuringScan = FALSE` and two changes it fails as well: a file that is moved and
  retagged in one keeps the row's old tags with the new time.
- `PlayerMixedStations` (`UpNextIsOfStation`): a page asked for one station is
  appended to the queue of the next, which the bar calls "Playing from station"
  (`player-ui.tsx:195`).
- `WebSharedFetch` (`EveryInvalidationShows`): the first fetch of a query, or one of
  a page that was closed, was read before a change; the invalidation leaves it to
  answer, and the answer lands as fresh.
- `WebBans` (`OwnChangesShow` with `Unheard` empty): a ban refreshes the list of
  bans only, the station's preview, counts and queue go on showing the song; and so
  for the other changes of `NoHookTells` (section 4).
- `WebSettings` (`SettingsShow`): the answer of a settings change is put in the
  cache beside a fetch that was read before it and replaces it.
- `WebEarlyLogin` (`SignInReaches` with a form sent before the first `/api/me` is
  answered): that first fetch is not repeated, and its `null` stands. With
  `Early = FALSE` it passes.
- `WebFailedMe` (`CacheAlwaysOwn`): a sign-in as another user whose `/api/me` fails
  goes on showing the user before, over the new one's data.
- `WebLateAnswer`, `WebLookupFails` (`KeepsLiveSession`): a 401 of a request sent
  before a sign-in puts the new user out; so does the 401 that an error of the
  database is answered with.
- `SignedOutShows`, as an invariant in place of those of `WebSession.cfg`:
  `clear()` removes the entry `AuthProvider` observes, so that it does not see the
  `null` that is set next.

`HistoryKept` and the runs that pass state by their constants when the promise
does hold. No folder fails, nothing moves or is played during a scan; and of the
files that moved it speaks of those that can be told apart, that took no other
track's path and whose import did not raise (`risked`).

## 4. The proofs

All are for any values of the constants (any number of workers, folders, scans,
kills, timers, files, tracks, stations, users, requests), from the named
assumptions of each module.

`ScanPipelineProofs`. `TypeCorrect` is `[]TypeOK`; the part about attempts needs
that a requeue gives up rows that have none left. `OneFinalizer` is
`[]ExactlyOneFinalizer` and `PrunesLast` is `PruneAfterImports`. Neither is
inductive. `IInv` adds:

- `RowsInv`: ids are unique, a folder's row has a folder job, and a folder has
  one row at most;
- `HoldInv`: a process at work holds a row of the queue that is running or that
  it has just failed, no two hold the same, and its step fits its row's kind;
- `FinishInv`: who is past the row lock of a scan owns it, and what it counted
  under the lock is still so (the last finisher is the last, the others not),
  because only the owner can finish a folder;
- `FinalizerRows`: a `finalize_scan` row exists only if its scan was given one.

The prune then follows: its row exists, so a finalizer was given, so no folder is
unfinished; and `Prune`'s own check leaves no failed one.

`ScanOverlapProofs` adds to `IInv`, one part at a time:

- `RowInv` (`EveryJobHasRow`, of every specification): an unfinished folder job
  has a row in the queue, because rows only change their status, and a row is
  deleted only by the process that finished its folder (`FolderDone`).
- `FoldersFinish` and `FoldersSurvive` are `[]FolderJobHasTask`, that this row
  will still be run or has its failure handler at work. Either nothing is killed
  and a failed row is in the hands of who gave it up (`FailedHeld`), whatever
  raises; or imports do not raise and there are fewer kills than attempts, so that
  a row, which a kill costs one attempt, always has one left (`AttemptsLast`).
  Kills and exceptions together do lose a folder (`ScanOrphanedFolder`).
- `OverlapInv`, for `ScansDoNotOverlap` (`[]OneActiveScan`) and `CompletedStays`
  (`CompletedIsFinal`) when nothing is killed: no lock is held between the tasks of
  a scan, so it says which of them may still run (`Active`). A trigger that may
  belongs to a scan that waits for it, a `finalize_scan` that may to one that is
  not completed and has queued nothing further, and a scan is completed only
  without folders or after its finalizer. A kill lets a task run again after it
  has committed, and breaks both (`ScanTwoActive`).
- `PrunesAlone` is `PruneSeesNoImport` when, besides, no prune raises, which is
  the retry that `ScanPruneOverlap` shows.

`WatcherProofs`. `Remembered` is `[]NoChangeForgotten` and `BoundedWait` is
`[]WaitBounded`. `IInv` says that while there is an unserved change some timer is
firing in time, or will fire before the change is older than the larger of
`MAX_WAIT_SECONDS` and `cooldown_seconds`; and that a change that meets a
cooldown is younger than it, which is why the wait for the end of the cooldown
does not add to the wait before it. `LossesKnown` is `[]LostOnlyKnownWays`: a change
that is not read is on its way (`OnItsWay`: an event, a timer, a call or a scan that
has not read yet) until it is read, or until its request ends in one of the three
ways that `fate` names.

`LibraryFilesProofs`. `TypeCorrect` is `[]TypeOK`, `UniqueTracks` is
`[]OneTrackPerPath`, which rests on the lemma `PairsOneToOne`, that
`match_moved_tracks` pairs no track twice, so that the `UPDATE`s of a prune have
different paths, all just freed. `UnmovedKept` is `[]HistoryKept` when nothing
moves and nothing is played during a scan, whichever imports raise: the invariant
`InPlace` keeps the row of a file that was played at its path, created by an earlier
scan and therefore neither missing nor new to the prune.

`ScanReconciles` says, of every specification, that a scan during which nothing
changed and no folder failed leaves a row for each file whose import did not raise,
and no row but of a file. `Scanned`
is its invariant: a file that an import has done with has a row with the size and
time it has (`Imported`), or is among the failed, because what the import knew of it, read before, is
still so or was overwritten with what it is now (`KnownStays`); so the prune,
whose listing is the same, meets rows that are right, and rows of nothing.
`LibraryReconciled` (`[]Reconciled`) adds `TagsHold`, the tags in hand and in the
table, and needs `~DuringScan` (`LibraryTornRead`).

`MovedKept` and `HistoryIsFollowed` are `[]HistoryKept` and `[]HistoryFollows` with
moves. `MInv` says of each file that was played, and that stayed in its place, or can
be told apart and is not `risked`, that its row is at its place or `Waits`: the row looks like the
file, nothing is at its path, and the file has no row but one of this scan. Two
rows that may be missing never look the same (`OneStamp`, from `ScanReconciles`
after the scan before), so that the prune finds this pair and no other
(`MovePaired`). They assume that nothing changes or is played during a scan and
that no folder fails, as `LibraryMoveDuringScan`, `LibraryPlayedInScan` and
`LibraryFailedFolder` show they must; what `LibraryRenamedOver` and
`LibraryFailedFile` show is in the statements, as `risked`. A single import may
raise, and a duration be missing, without any other file losing its history.

`PlayerEngineProofs`. The engine's methods call one another, so they are shown,
once each and in the order they use one another, to take a good record to a good
record, and the actions cite that. `Good` is the four properties and what they
need: `One` (outside a crossfade the other element is silent), `Waits` and
`Follows` (what waits is the track after the current one, as an index and as the
element's source), `Ramps` (a crossfade leads to the active element and is not
past its end; outside of one the volume is the listener's), `Located` and
`Plays`. `Ready` is the part that holds in the middle of a method, when the next
track is about to start. `TypeCorrect`, `WantedIsPlayed`, `OnlyOneSounds`,
`StandbyHoldsNext` and `VolumeComesBack` follow. `OrderIsKept` is the refinement:
every step of `PlayerEngine` is a `Replace`, `Extend`, `Drop` or `Move` of
`PlayOrder` under the mapping `Order`, or a stutter.

`WebPlayerProofs` extends those proofs to the page. `PInv` has two halves. `RInv`
is about requests: they are counted, a spinner has a `load` out for its station,
and `fetching` is set exactly while one `more` is out; whether a click or an
answer keeps it does not depend on the engine. `EInv` is about the engine: what
the page shows is what the engine holds, because every method that changes the
track says so (`changed`), runs out or keeps queue and index (the lemmas *Told*);
and `Inv` of `PlayerEngineProofs` while the page is there. Once the
provider is gone, a late answer loads a disposed engine, so that `Inv` is shown
while `Mounted` only (`EngineInThePage`); `PageShowsTheEngine`,
`RightStationPlays`, `SpinnerEnds` and `OneRequestForMore` hold throughout.
`DryQueueIsAsked` is `[]DryIsAsked`: the lemmas *Told* also say of every method
that it asks for more when it leaves a queue at its end, or leaves alone a queue
that was there already; and an answer that adds a track ends the drought, so that
only one that adds none (`lost`) leaves nothing under way.

`WebSessionProofs` assumes `~Early`: a form is sent after the first `/api/me` is
answered. The login and invite pages do not wait for that, but filling in a form
takes longer, less surely so when `/api/me` fails and is tried again. Without the
assumption TLC still finds the types, `NoRedirectLoop` and `WizardIsAdmins` to hold,
and counterexamples to `CacheIsOwn`, `SpinnerIsAwaited`, `KeepsSession` and
`SignInReaches` (`WebEarlyLogin`). `CacheStaysOwn`, `RoutesEnd`,
`SessionIsKept` and `TypeCorrect` rest on `SInv`:

- `Own`: what is cached or on its way is the shown user's;
- `Asked`: while `/api/me` is out, whose answer may be another user, nothing is
  cached or on its way, and that answer is of the present cookie;
- `Agree`: what the observer shows is what is cached;
- `Told`: sessions only end, so an answer may be too late when it names a user
  and never when it names nobody;
- `Mine`, `Filled`: the cookie is the shown user's; where each form can be and
  what it can be answered;
- `Unfresh`: "no users yet" is never cached beside a user, which leaves three
  redirects at most.

`CacheStaysOwn` speaks of a browser whose last request for `/api/me` was answered
(`behind`), as `WebFailedMe` shows it must. `SessionIsKept` says of every step that
puts a signed-in user out that the session is over, or that it is one of the three
answers it names: a 401 for an earlier session (`WebLateAnswer`), for an error of the
server (`WebLookupFails`), or for a mistyped password (`WebPassword`); no render,
redirect, form or other answer does.
`SpinnerAwaited` (`[]SpinnerIsAwaited`) and `WizardIsForAdmins`
(`[]WizardIsAdmins`) add `Routed`, about the setup status: a page that shows it
and does not know it has asked for it (`Spins`); an entry that `clear` or
`removeQueries` took from under its observer is there only while a form will
still lead away from the page, or render it again (`Gones`, `Outs`); and the
wizard's first step is that of a server without accounts (`Wizards`).

`WebDataProofs` is about any query and any number of changes, mutations and
failures. `InvalidationsAlwaysShow` rests on `Followed`: what is cached and not
stale, or will be brought by the fetch under way, is as new as the last
invalidation (`due`), unless that invalidation left the fetch alone (`spared`,
`lost`). So no order of pages, polls, failures and answers loses one but the one of
`WebSharedFetch`. `OwnChangesAlwaysShow` adds `OwnIsDue`, that a page's own
changes are no newer than that; here the tables of what hooks tell and
handlers change are compared, query by query and page by page. It assumes that
`Unheard`, the changes that are not looked for, has those that no hook tells
(`NoHookTells`): any change to the search for stations by artist and to the genres
of playlists, a ban to the previews, counts and queues of stations, a like to the
queue, a hidden song, grouped copies and a deleted user to the review, a scan to the
pipeline's card, the genre stations' settings to the playlists and picks their run
rebuilds, a removed pick to the suggestions. These it does not show, and the app does
not either, until they are stale. Where a hook leaves the queue untold on a page
that does not show it, the change leads elsewhere or the button is elsewhere
(`QueueSilent`), which is part of the proof. `DataNeverGoesBack` is `NeverBack`.

Assumptions on constants: `Constants` of `ScanPipeline`, `Watcher` and
`LibraryFiles`; `EngineConstants` and `PagesAreTracks` (a page that the engine
alone is given is a non-empty sequence of tracks; the empty answers of a station
are in `WebPlayer`); `StationConstants` (a station has a finite, non-empty set of songs); and
`WebSessionConstants` (names of users are not names of states). TLC evaluates
each of them in the runs.

Every safety property of the passing runs is proved, on the hypotheses named above.
Only model-checked is what is temporal with fairness (`ScanEnds`, `RefreshFollows`,
`RequestFollows`, `ReadOrKnownWhy`, `ScanFollowed`), which is out of
the prover's reach.

## 5. Not modelled

Parts with state that could be modelled as the ones above are, in the order of
what it would add:

1. Genre refresh beyond its tasks: which artists a batch looks up and which tracks
   are scored, so that a fetch that is skipped for one that read the names before the
   new scan's artists is seen to miss them.
2. Pipeline runner: notices, `LISTEN`, reconnects, the one-slot channel; a kick
   that was folded or taken is followed by a run that reads later.
3. Transcode and cover caches: one job per key, growing readers, eviction.
4. Playlist picks and genre stations: read, compute and write against edits.
5. Authentication beyond what the browser meets: two registrations at once,
   invites that expire, devices.
6. `spreadArtists` of the playback queue against a reference definition.
7. The composition of `Watcher`, `ScanPipeline` and `LibraryFiles`: the bounds on
   a scan in `LibraryFiles` (one at a time, prune last) are what `ScanPipeline`
   shows.

Not worth a model: read-only queries, parsing, signal processing, scoring
formulas, migrations and API documentation, which keep no state of their own or
are sequential computations on floating-point numbers (see `PROJECT.json`).
What each module leaves out of its own part is said in section 2.

### Hazards of the parts that are not modelled

| Where | What |
|---|---|
| `tasks.py:160` | the retry of a failed prune runs when the next scan has begun |
| `tasks.py:232` | a fetch is skipped for another that read its names before this scan's artists |
| `tasks.py:277` | failed lookups end a batch early; the next batch is queued before the lock is released |
| `pipeline.go:197`, `:237` | a run that fails waits for the hourly one; notices are lost while the listener is down |
| `picks.go:103`, `:239` | staleness is read outside the lock; a removal meets a rebuild |
| `genre_stations.go:164` | a refresh meets an admin's edit |
| `cache.go:118`, `:140`, `:228` | busy slots; a finished file is evicted before it is opened; a `.part` file is left by a kill |
| `auth/service.go:106` | two first users register at once |

### Seen while modelling the web app

Smaller than the runs above, and stated by no property:

- `PlayerProvider.tsx:124` says of a failed request for more "Retried at the next
  track change." `askedMore` stays set, so nothing asks again before `append`,
  `load` or an ask of `start` at the end of the queue; and the ask that `append`
  makes while `fetching` is still set is dropped.
- `engine.ts:207`: `next()` or a ban on the last track leaves it sounding until
  more tracks arrive. `engine.ts:70`: an error of the element that preloads is
  ignored.
- `PlayerProvider.tsx`: a play may be counted with the next station's id; an
  error of the station before may be shown over the one that is on; the first
  toggle after the system paused pauses again; two likes in flight may be
  answered in the other order; a double click loads a station twice; an answer
  after signing out plays; a page read before a ban may bring the track back.
- `StationEditor.tsx:89`: Enter twice submits twice. The page of users goes on
  saying "Copied" for another invite. A row of genre stations that is gone when
  its mutation is answered does not run the handler it passed to `mutate`.
- "Full rescan" is dropped when a scan is already under way. `useTracks`
  (`queries.ts:241`) pages by offset, so a removal in between skips a track.
  Corrections (`queries.ts:389`) are shown after five seconds, whether the server
  is done or not. `Setup.tsx` goes on when `setup/complete` fails, and its
  account step meets another first user by a 403 only.
