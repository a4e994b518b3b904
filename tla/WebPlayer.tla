------------------------------ MODULE WebPlayer ------------------------------
(***************************************************************************)
(* The player of the web app (player/PlayerProvider.tsx, player-ui.tsx):   *)
(* it asks the server for a station's queue, hands the tracks to the       *)
(* engine, and shows what plays.  It composes PlayerEngine with requests   *)
(* whose answers come late, in any order or not at all.                    *)
(*                                                                         *)
(* A station's queue is any order of some of its songs: songs are banned,  *)
(* hidden and deleted meanwhile, by this page's requests and by others.    *)
(* The settings stay as they are, without a crossfade: they meet only the  *)
(* engine.                                                                 *)
(***************************************************************************)
EXTENDS PlayerEngine

CONSTANTS
    Stations,
    NoStation,   \* stationRef.current is null
    Songs,       \* the songs of each station
    MaxRequests  \* bounds the requests of a kind in flight for one station

ASSUME StationConstants ==
    /\ NoStation \notin Stations
    /\ Songs \in [Stations -> (SUBSET Tracks) \ {{}}]
    /\ \A s \in Stations : IsFiniteSet(Songs[s])

VARIABLES
    station,   \* stationRef and state.station, set together
    view,      \* what state shows: track, upcoming, loading, error
    requests,  \* queue requests in flight: "load" of playStation, "more" of loadMore
    fetching,  \* fetching.current
    lost,      \* the last answer to a "more": an error or no tracks ("failed"), only
               \* tracks just played ("repeats"), or more to play ("no")
    loaded     \* the engine's last load was the queue of the station that is on

playerVars == <<station, view, requests, fetching, lost, loaded>>
vars == <<eng, playerVars>>

Queues(s) ==
    UNION {{q \in [1 .. Cardinality(S) -> S] : \A t \in S : \E k \in DOMAIN q : q[k] = t} :
             S \in SUBSET Songs[s]}

PlayerInit ==
    /\ Init
    /\ station = NoStation
    /\ view = [track |-> NoTrack, upcoming |-> <<>>, loading |-> FALSE, error |-> FALSE]
    /\ requests = [k \in {"load", "more"} |-> [s \in Stations |-> 0]]
    /\ fetching = FALSE
    /\ lost = "no"
    /\ loaded = FALSE

-----------------------------------------------------------------------------
(* What the callbacks do *)

\* sync(): state takes the engine's track, the tracks ahead and e.playing.
Synced(v, e) ==
    [v EXCEPT !.track = IF HasCurrent(e) THEN Current(e) ELSE NoTrack,
              !.upcoming = Ahead(e)]

\* The engine becomes e, with sync() at onTrack if it announced a track.
EngineBecomes(e, v) ==
    /\ eng' = Quiet(e)
    /\ view' = IF e.changed THEN Synced(v, e) ELSE v

\* loadMore(): dropped when one is under way or no station is on.
LoadMore(asks, flights, busy) ==
    IF asks /\ station # NoStation /\ ~busy
    THEN /\ requests' = [flights EXCEPT !["more"][station] = @ + 1]
         /\ fetching' = TRUE
    ELSE /\ requests' = flights
         /\ fetching' = busy

\* A method of the engine is called, and the callbacks it makes run.
Calls(e) ==
    /\ EngineBecomes(e, view)
    /\ LoadMore(e.asks, requests, fetching)

-----------------------------------------------------------------------------
(* The listener *)

Mounted == eng.attached

PlayStation(s) ==
    /\ requests["load"][s] < MaxRequests
    /\ station' = s
    /\ view' = [view EXCEPT !.loading = TRUE, !.error = FALSE]
    /\ requests' = [requests EXCEPT !["load"][s] = @ + 1]
    /\ loaded' = (loaded /\ s = station)
    /\ UNCHANGED <<eng, fetching, lost>>

\* The play button: toggle() when there is a track, or else the station again.
TogglePlay ==
    /\ Mounted
    /\ station # NoStation
    /\ IF HasCurrent(eng)
       THEN Calls(Toggle(eng, TRUE)) /\ UNCHANGED <<station, lost, loaded>>
       ELSE PlayStation(station)

\* A station's play button: the one that is on is toggled.
ClickStation(s) ==
    /\ Mounted
    /\ s # station
    /\ PlayStation(s)

\* The other buttons, headset keys, which act with no track shown too, and the
\* seek bar.
PressNext == Mounted /\ Calls(SkipNext(eng, TRUE))
PressPrevious == Mounted /\ Calls(Previous(eng, TRUE))
MediaKeys == Mounted /\ (Calls(Play(eng, TRUE)) \/ Calls(Pause(eng)))
MoveTo(place) == Mounted /\ Calls(Seek(eng, place))

Press ==
    /\ \/ PressNext \/ PressPrevious \/ MediaKeys
       \/ \E place \in Places : MoveTo(place)
    /\ UNCHANGED <<station, lost, loaded>>

\* Mistake: the page is not told.
BanUnseen(t) ==
    /\ Mounted
    /\ Calls(Remove(eng, t, TRUE))
    /\ UNCHANGED <<station, lost, loaded>>

\* ban() and hide(): the engine drops the track at once, then sync().
Ban(t) ==
    /\ Mounted
    /\ LET e == Remove(eng, t, TRUE)
       IN  /\ EngineBecomes([e EXCEPT !.shown = e.wantPlaying], Synced(view, e))
           /\ LoadMore(e.asks, requests, fetching)
    /\ UNCHANGED <<station, lost, loaded>>

\* Signing out unmounts the provider.
Unmount ==
    /\ Mounted
    /\ Calls(Dispose(eng))
    /\ UNCHANGED <<station, lost, loaded>>

-----------------------------------------------------------------------------
(* The answers *)

Landed(k, s) == [requests EXCEPT ![k][s] = @ - 1]

\* Mistake: the answer of a station that was left is loaded.
QueueArrivesLate(s, q, ok) ==
    /\ requests["load"][s] > 0 /\ q # <<>>
    /\ LET e == Load(eng, q, ok)
       IN  /\ EngineBecomes(e, [view EXCEPT !.loading = FALSE])
           /\ LoadMore(e.asks, Landed("load", s), fetching)
    /\ loaded' = (s = station)
    /\ UNCHANGED <<station, lost>>

\* playStation's queue: of another station than the latest, empty, or loaded.
QueueArrives(s, q, ok) ==
    /\ requests["load"][s] > 0
    /\ \/ /\ s # station
          /\ requests' = Landed("load", s)
          /\ UNCHANGED <<eng, view, fetching, loaded>>
       \/ /\ s = station /\ q = <<>>
          /\ requests' = Landed("load", s)
          /\ view' = [view EXCEPT !.loading = FALSE, !.error = TRUE]
          /\ UNCHANGED <<eng, fetching, loaded>>
       \/ /\ s = station /\ q # <<>>
          /\ LET e == Load(eng, q, ok)
             IN  /\ EngineBecomes(e, [view EXCEPT !.loading = FALSE])
                 /\ LoadMore(e.asks, Landed("load", s), fetching)
          /\ loaded' = (s = station)
    /\ UNCHANGED <<station, lost>>

\* Mistake: a failure is not shown.
QueueFailsUnseen(s) ==
    /\ requests["load"][s] > 0
    /\ requests' = Landed("load", s)
    /\ UNCHANGED <<eng, station, view, fetching, lost, loaded>>

QueueFails(s) ==
    /\ requests["load"][s] > 0
    /\ requests' = Landed("load", s)
    /\ view' = [view EXCEPT !.loading = FALSE, !.error = TRUE]
    /\ UNCHANGED <<eng, station, fetching, lost, loaded>>

\* loadMore's answer goes to the queue whatever station is on by then; what
\* append() asks for is dropped, since fetching is reset last.
MoreArrives(s, q, ok) ==
    /\ requests["more"][s] > 0
    /\ requests' = Landed("more", s)
    /\ fetching' = FALSE
    /\ lost' = IF q = <<>> THEN "failed"
               ELSE IF Without(q, Skipped(eng)) = <<>> THEN "repeats" ELSE "no"
    /\ UNCHANGED <<station, loaded>>
    /\ LET e == AppendPage(eng, q, ok)
       IN  /\ Len(e.queue) <= MaxQueue
           /\ EngineBecomes([e EXCEPT !.shown = e.wantPlaying], Synced(view, e))

\* Mistake: a failure leaves the flag set.
MoreFailsBusy(s) ==
    /\ requests["more"][s] > 0
    /\ requests' = Landed("more", s)
    /\ lost' = "failed"
    /\ UNCHANGED <<eng, station, view, fetching, loaded>>

MoreFails(s) ==
    /\ requests["more"][s] > 0
    /\ requests' = Landed("more", s)
    /\ fetching' = FALSE
    /\ lost' = "failed"
    /\ UNCHANGED <<eng, station, view, loaded>>

-----------------------------------------------------------------------------
(* The audio elements, with the callbacks their events lead to *)

Sound ==
    /\ Mounted
    /\ \/ \E place \in Places, ok \in BOOLEAN : CanMove(eng, place) /\ Calls(Moves(eng, place, ok))
       \/ \E i \in Elements, ok \in BOOLEAN : CanEnd(eng, i) /\ Calls(Ends(eng, i, ok))
       \/ \E i \in Elements, ok \in BOOLEAN : CanFail(eng, i) /\ Calls(Fails(eng, i, ok))
       \/ \E i \in Elements : eng.el[i].run = "playing" /\ Calls(Held(eng, i))
    /\ UNCHANGED <<station, lost, loaded>>

LoadSettles(s) == QueueFails(s) \/ \E q \in Queues(s), ok \in BOOLEAN : QueueArrives(s, q, ok)
MoreSettles(s) == MoreFails(s) \/ \E q \in Queues(s), ok \in BOOLEAN : MoreArrives(s, q, ok)

PlayerNext ==
    \/ \E s \in Stations : ClickStation(s)
    \/ TogglePlay
    \/ Press
    \/ \E t \in Tracks : Ban(t)
    \/ Unmount
    \/ \E s \in Stations : LoadSettles(s) \/ MoreSettles(s)
    \/ Sound

PlayerSpec == PlayerInit /\ [][PlayerNext]_vars

-----------------------------------------------------------------------------
(* Properties *)

PlayerTypeOK ==
    /\ TypeOK
    /\ station \in Stations \cup {NoStation}
    /\ view \in [track : Tracks \cup {NoTrack}, upcoming : Seq(Tracks), loading : BOOLEAN, error : BOOLEAN]
    /\ requests \in [{"load", "more"} -> [Stations -> 0 .. MaxRequests]]
    /\ {fetching, loaded} \subseteq BOOLEAN /\ lost \in {"no", "failed", "repeats"}

\* The page shows the engine's track and what really comes next, after every
\* skip, removal, late answer and track change, while there is a track.
ShownIsReal ==
    HasCurrent(eng) => view.track = Current(eng) /\ view.upcoming = Ahead(eng)

\* With clicks on several stations and answers in any order, the station that
\* is shown without a spinner or an error is the one the queue was loaded from.
ShownStationIsLoaded ==
    station # NoStation /\ ~view.loading /\ ~view.error => loaded

\* The spinner is never left on: an answer that ends it is still to come.
LoadingIsAwaited == view.loading => requests["load"][station] > 0

\* The flag that keeps one request for more out is set exactly while one is: a
\* flag left set would end the music at the end of the queue.
OneMoreAtATime ==
    LET out == {s \in Stations : requests["more"][s] > 0}
    IN  /\ fetching <=> out # {}
        /\ \A r, s \in out : r = s

\* "reshuffles when the queue runs out" (README.md:10): a queue that ran out
\* always has a request for more under way, unless the last one brought nothing:
\* it failed, found no songs, or only such as were just played.
DryIsAsked ==
    RanOut(eng) /\ eng.queue # <<>> => fetching \/ lost # "no"

\* What the README says of a station of any size: it "reshuffles when the queue
\* runs out".
ReshufflesWhenDry ==
    RanOut(eng) /\ eng.queue # <<>> => fetching \/ lost = "failed"

\* "Playing from station" (player-ui.tsx:195): with the queue of the station
\* that is shown loaded, what comes up belongs to that station.
UpNextIsOfStation ==
    loaded /\ HasCurrent(eng) =>
        \A k \in DOMAIN view.upcoming : view.upcoming[k] \in Songs[station]
=============================================================================
