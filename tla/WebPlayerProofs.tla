--------------------------- MODULE WebPlayerProofs ---------------------------
(***************************************************************************)
(* For any stations, songs and requests in flight: the page shows what the *)
(* engine plays, and the station it was loaded from; no spinner stays; one *)
(* request for more is out at a time; and while the page is there, the     *)
(* engine keeps what PlayerEngineProofs shows of it.                       *)
(***************************************************************************)
EXTENDS WebPlayer, PlayerEngineProofs

Kinds == {"load", "more"}
Flights == [Kinds -> [Stations -> Nat]]

\* A view is a record of four fields, two of them flags.
IsView(v) ==
    /\ v = [track |-> v.track, upcoming |-> v.upcoming, loading |-> v.loading, error |-> v.error]
    /\ v.loading \in BOOLEAN /\ v.error \in BOOLEAN

\* One request for more is out, or none.
OneOut(more, busy) ==
    IF busy THEN \E s \in Stations : more[s] = 1 /\ \A r \in Stations \ {s} : more[r] = 0
            ELSE \A s \in Stations : more[s] = 0

Counted ==
    /\ station \in Stations \cup {NoStation}
    /\ requests \in Flights
    /\ fetching \in BOOLEAN /\ loaded \in BOOLEAN
    /\ IsView(view)

Awaited == view.loading => station # NoStation /\ requests["load"][station] > 0

RInv == Counted /\ Awaited /\ ShownStationIsLoaded /\ OneOut(requests["more"], fetching)

-----------------------------------------------------------------------------
(* The requests *)

LEMMA LoadMoreOne ==
    ASSUME station \in Stations \cup {NoStation}, NEW flights \in Flights, NEW busy \in BOOLEAN,
           OneOut(flights["more"], busy), NEW asks, LoadMore(asks, flights, busy)
    PROVE  /\ requests' \in Flights /\ fetching' \in BOOLEAN
           /\ requests'["load"] = flights["load"]
           /\ OneOut(requests'["more"], fetching')
<1>1. CASE asks /\ station # NoStation /\ ~busy
  <2>1. /\ requests' = [flights EXCEPT !["more"][station] = @ + 1] /\ fetching' = TRUE
        /\ station \in Stations
    BY <1>1 DEF LoadMore
  <2>2. flights["more"] \in [Stations -> Nat] /\ \A s \in Stations : flights["more"][s] = 0
    BY <1>1 DEF OneOut, Flights, Kinds
  <2> DEFINE m == [flights["more"] EXCEPT ![station] = @ + 1]
  <2>3. m \in [Stations -> Nat] /\ m[station] = 1 /\ \A r \in Stations \ {station} : m[r] = 0
    BY <2>1, <2>2
  <2>4. requests' = [flights EXCEPT !["more"] = m]
    BY <2>1
  <2> HIDE DEF m
  <2>5. requests' \in Flights /\ requests'["more"] = m /\ requests'["load"] = flights["load"]
    BY <2>3, <2>4 DEF Flights, Kinds
  <2> QED BY <2>1, <2>3, <2>5 DEF OneOut
<1>2. CASE ~(asks /\ station # NoStation /\ ~busy)
  BY <1>2 DEF LoadMore
<1> QED BY <1>1, <1>2

\* A request that lands leaves the other kind as it was.
LEMMA LandedCount ==
    ASSUME requests \in Flights, NEW k \in Kinds, NEW s \in Stations, requests[k][s] > 0
    PROVE  /\ Landed(k, s) \in Flights
           /\ \A j \in Kinds : j # k => Landed(k, s)[j] = requests[j]
           /\ Landed(k, s)[k][s] = requests[k][s] - 1
           /\ \A r \in Stations : r # s => Landed(k, s)[k][r] = requests[k][r]
<1> DEFINE m == [requests[k] EXCEPT ![s] = @ - 1]
<1>1. requests[k] \in [Stations -> Nat]
  BY DEF Flights
<1>2. m \in [Stations -> Nat] /\ m[s] = requests[k][s] - 1
      /\ \A r \in Stations : r # s => m[r] = requests[k][r]
  BY <1>1
<1>3. Landed(k, s) = [requests EXCEPT ![k] = m]
  BY DEF Landed
<1> HIDE DEF m
<1> QED BY <1>2, <1>3 DEF Flights

LEMMA SyncedView ==
    ASSUME NEW e, NEW v, IsView(v)
    PROVE  /\ IsView(Synced(v, e)) /\ Synced(v, e).loading = v.loading /\ Synced(v, e).error = v.error
           /\ HasCurrent(e) => Synced(v, e).track = Current(e) /\ Synced(v, e).upcoming = Ahead(e)
<1> DEFINE t == IF HasCurrent(e) THEN Current(e) ELSE NoTrack
           u == Ahead(e)
<1>1. Synced(v, e) = [v EXCEPT !.track = t, !.upcoming = u]
  BY DEF Synced
<1>2. HasCurrent(e) => t = Current(e) /\ u = Ahead(e)
  OBVIOUS
<1> HIDE DEF t, u
<1>3. Synced(v, e) = [track |-> t, upcoming |-> u, loading |-> v.loading, error |-> v.error]
  BY <1>1 DEF IsView
<1> QED BY <1>2, <1>3 DEF IsView

LEMMA NotLoadingView ==
    ASSUME NEW v, IsView(v), NEW w, w = [v EXCEPT !.loading = FALSE]
    PROVE  IsView(w) /\ w.loading = FALSE /\ w.track = v.track /\ w.upcoming = v.upcoming
<1>1. w = [track |-> v.track, upcoming |-> v.upcoming, loading |-> FALSE, error |-> v.error]
  BY DEF IsView
<1>2. v.error \in BOOLEAN
  BY DEF IsView
<1> QED BY <1>1, <1>2 DEF IsView

LEMMA BecomesView ==
    ASSUME NEW e, NEW v, IsView(v), EngineBecomes(e, v)
    PROVE  IsView(view') /\ view'.loading = v.loading /\ view'.error = v.error
BY SyncedView DEF EngineBecomes

\* A call of the engine leaves stations and their requests alone.
LEMMA CallsCount ==
    ASSUME RInv, NEW e, NEW v, IsView(v), v.loading = view.loading, v.error = view.error,
           EngineBecomes(e, v), NEW asks, LoadMore(asks, requests, fetching),
           UNCHANGED <<station, lost, loaded>>
    PROVE  RInv'
<1>1. IsView(view') /\ view'.loading = view.loading /\ view'.error = view.error
  BY BecomesView
<1>2. /\ requests' \in Flights /\ fetching' \in BOOLEAN
      /\ requests'["load"] = requests["load"]
      /\ OneOut(requests'["more"], fetching')
  BY LoadMoreOne DEF RInv, Counted
<1> QED BY <1>1, <1>2 DEF RInv, Counted, Awaited, ShownStationIsLoaded

LEMMA PlayStationCount ==
    ASSUME RInv, NEW s \in Stations, PlayStation(s)
    PROVE  RInv'
<1>1. /\ station' = s /\ loaded' = (loaded /\ s = station)
      /\ view' = [view EXCEPT !.loading = TRUE, !.error = FALSE]
      /\ requests' = [requests EXCEPT !["load"][s] = @ + 1]
      /\ UNCHANGED <<eng, fetching, lost>>
  BY DEF PlayStation
<1>2. IsView(view') /\ view'.loading = TRUE
  BY <1>1 DEF RInv, Counted, IsView
<1> DEFINE m == [requests["load"] EXCEPT ![s] = @ + 1]
<1>3. m \in [Stations -> Nat] /\ m[s] > 0
  <2>1. requests["load"] \in [Stations -> Nat]
    BY DEF RInv, Counted, Flights, Kinds
  <2> QED BY <2>1
<1>4. requests' = [requests EXCEPT !["load"] = m]
  BY <1>1
<1> HIDE DEF m
<1>5. requests' \in Flights /\ requests'["load"] = m /\ requests'["more"] = requests["more"]
  BY <1>3, <1>4 DEF RInv, Counted, Flights, Kinds
<1>6. s # NoStation
  BY StationConstants
<1> QED BY <1>1, <1>2, <1>3, <1>5, <1>6 DEF RInv, Counted, Awaited, ShownStationIsLoaded

LEMMA LoadSettlesCount ==
    ASSUME RInv, NEW s \in Stations, LoadSettles(s)
    PROVE  RInv'
<1>1. requests["load"][s] > 0 /\ UNCHANGED <<station, lost>>
  BY DEF LoadSettles, QueueFails, QueueArrives
<1> DEFINE f == Landed("load", s)
<1>2. /\ f \in Flights /\ f["more"] = requests["more"]
      /\ \A r \in Stations : r # s => f["load"][r] = requests["load"][r]
  BY <1>1, LandedCount DEF RInv, Counted, Kinds
<1>3. IsView(view) /\ station \in Stations \cup {NoStation} /\ s # NoStation
  BY StationConstants DEF RInv, Counted
<1> HIDE DEF f
<1>4. CASE QueueFails(s)
  <2>1. requests' = f /\ view' = [view EXCEPT !.loading = FALSE, !.error = TRUE]
        /\ UNCHANGED <<station, fetching, lost, loaded>>
    BY <1>4 DEF QueueFails, f
  <2>2. IsView(view') /\ view'.loading = FALSE /\ view'.error = TRUE
    BY <1>3, <2>1 DEF IsView
  <2> QED BY <1>2, <2>1, <2>2 DEF RInv, Counted, Awaited, ShownStationIsLoaded
<1>5. ASSUME NEW q \in Queues(s), NEW ok \in BOOLEAN, QueueArrives(s, q, ok) PROVE RInv'
  <2>1. CASE s # station /\ requests' = f /\ UNCHANGED <<eng, view, fetching, loaded>>
    BY <1>1, <1>2, <1>3, <2>1 DEF RInv, Counted, Awaited, ShownStationIsLoaded
  <2>2. CASE /\ s = station /\ requests' = f
             /\ view' = [view EXCEPT !.loading = FALSE, !.error = TRUE]
             /\ UNCHANGED <<eng, fetching, loaded>>
    <3>1. IsView(view') /\ view'.loading = FALSE /\ view'.error = TRUE
      BY <1>3, <2>2 DEF IsView
    <3> QED BY <1>1, <1>2, <2>2, <3>1 DEF RInv, Counted, Awaited, ShownStationIsLoaded
  <2>3. ASSUME s = station, NEW e, EngineBecomes(e, [view EXCEPT !.loading = FALSE]),
               LoadMore(e.asks, f, fetching), loaded' = (s = station)
        PROVE  RInv'
    <3> DEFINE v == [view EXCEPT !.loading = FALSE]
    <3>1. IsView(v) /\ v.loading = FALSE
      BY <1>3, NotLoadingView
    <3> HIDE DEF v
    <3>2. IsView(view') /\ view'.loading = FALSE
      BY <2>3, <3>1, BecomesView DEF v
    <3>3. /\ requests' \in Flights /\ fetching' \in BOOLEAN
          /\ OneOut(requests'["more"], fetching')
      BY <1>2, <1>3, <2>3, LoadMoreOne DEF RInv, Counted
    <3> QED BY <1>1, <2>3, <3>2, <3>3 DEF RInv, Counted, Awaited, ShownStationIsLoaded
  <2> QED BY <1>5, <2>1, <2>2, <2>3 DEF QueueArrives, f
<1> QED BY <1>4, <1>5 DEF LoadSettles

LEMMA MoreSettlesCount ==
    ASSUME RInv, NEW s \in Stations, MoreSettles(s)
    PROVE  RInv'
<1>1. /\ requests["more"][s] > 0 /\ UNCHANGED <<station, loaded>>
      /\ requests' = Landed("more", s) /\ fetching' = FALSE
  BY DEF MoreSettles, MoreFails, MoreArrives
<1>2. /\ requests' \in Flights /\ requests'["load"] = requests["load"]
      /\ requests'["more"][s] = requests["more"][s] - 1
      /\ \A r \in Stations : r # s => requests'["more"][r] = requests["more"][r]
  BY <1>1, LandedCount DEF RInv, Counted, Kinds
<1>3. requests["more"][s] = 1 /\ \A r \in Stations : r # s => requests["more"][r] = 0
  BY <1>1 DEF RInv, Counted, OneOut
<1>4. OneOut(requests'["more"], fetching')
  BY <1>1, <1>2, <1>3 DEF OneOut
<1>5. IsView(view') /\ view'.loading = view.loading /\ view'.error = view.error
  <2>1. IsView(view)
    BY DEF RInv, Counted
  <2>2. CASE MoreFails(s)
    BY <2>1, <2>2 DEF MoreFails
  <2>3. ASSUME NEW e, NEW d, EngineBecomes(d, Synced(view, e))
        PROVE  IsView(view') /\ view'.loading = view.loading /\ view'.error = view.error
    BY <2>1, <2>3, SyncedView, BecomesView
  <2> QED BY <2>2, <2>3 DEF MoreSettles, MoreArrives
<1> QED BY <1>1, <1>2, <1>4, <1>5 DEF RInv, Counted, Awaited, ShownStationIsLoaded

-----------------------------------------------------------------------------
(* What the engine tells the page *)

Fields == {"queue", "index", "el", "active", "standbyFor", "volume", "crossfade", "fade",
           "askedMore", "wantPlaying", "shown", "attached", "asks", "changed"}

Whole(e) == DOMAIN e = Fields /\ e.queue \in Seq(Tracks)

Placed(e) == e.index \in -1 .. Len(e.queue)

\* A method that leads from d to e announces the track (onTrack), runs out and
\* asks for more (onNeedMore), or leaves the place in the queue alone.
Told(d, e) ==
    /\ Whole(e) /\ e.queue = d.queue
    /\ d.changed => e.changed
    /\ d.asks => e.asks
    /\ e.attached => d.attached
    /\ e.changed \/ ~HasCurrent(e) \/ e.index = d.index
    /\ RanOut(e) => e.asks \/ RanOut(d)
    /\ Placed(d) => Placed(e)

LEMMA ToldTrans ==
    ASSUME NEW d, NEW m, NEW e, Told(d, m), Told(m, e)
    PROVE  Told(d, e)
BY DEF Told, HasCurrent, RanOut, Placed

LEMMA ToldSame == ASSUME NEW e, Whole(e) PROVE Told(e, e)
BY DEF Told

LEMMA StopFadeTold == ASSUME NEW e, Whole(e) PROVE Told(e, StopFade(e))
<1> DEFINE x == [e.el EXCEPT ![Standby(e)] = Paused(@), ![e.active].vol = e.volume]
           r == StopFade(e)
<1>1. r = e \/ r = [e EXCEPT !.fade = NoFade, !.el = x]
  BY DEF StopFade
<1> HIDE DEF x, r
<1>2. Told(e, r)
  BY <1>1 DEF Told, Whole, Fields, RanOut, Placed
<1> QED BY <1>2 DEF r

LEMMA CheckMoreTold == ASSUME NEW e, Whole(e) PROVE Told(e, CheckMore(e)) /\ CheckMore(e).index = e.index
<1> DEFINE r == CheckMore(e)
<1>1. r = e \/ r = [e EXCEPT !.askedMore = TRUE, !.asks = TRUE]
  BY DEF CheckMore
<1> HIDE DEF r
<1>2. Told(e, r) /\ r.index = e.index
  BY <1>1 DEF Told, Whole, Fields, RanOut, Placed
<1> QED BY <1>2 DEF r

LEMMA PreloadNextTold == ASSUME NEW e, Whole(e) PROVE Told(e, PreloadNext(e)) /\ PreloadNext(e).index = e.index
<1> DEFINE n == e.index + 1
           x == [e.el EXCEPT ![Standby(e)] = Sourced(@, e.queue[n + 1])]
           r == PreloadNext(e)
<1>1. r = e \/ r = [e EXCEPT !.el = x, !.standbyFor = n]
  BY DEF PreloadNext
<1> HIDE DEF n, x, r
<1>2. Told(e, r) /\ r.index = e.index
  BY <1>1 DEF Told, Whole, Fields, RanOut, Placed
<1> QED BY <1>2 DEF r

LEMMA PlayTold == ASSUME NEW e, Whole(e), NEW ok PROVE Told(e, Play(e, ok)) /\ Play(e, ok).index = e.index
<1> DEFINE x == [e.el EXCEPT ![e.active] = Begun(@, ok)]
           r == Play(e, ok)
<1>1. r = e \/ r = [e EXCEPT !.wantPlaying = ok, !.shown = ok, !.el = x]
  BY DEF Play
<1> HIDE DEF x, r
<1>2. Told(e, r) /\ r.index = e.index
  BY <1>1 DEF Told, Whole, Fields, RanOut, Placed
<1> QED BY <1>2 DEF r

LEMMA SeekTold == ASSUME NEW e, Whole(e), NEW place PROVE Told(e, Seek(e, place))
<1> DEFINE x == [e.el EXCEPT ![e.active].at = place]
           r == Seek(e, place)
<1>1. r = [e EXCEPT !.el = x]
  BY DEF Seek
<1> HIDE DEF x, r
<1>2. Told(e, r)
  BY <1>1 DEF Told, Whole, Fields, RanOut, Placed
<1> QED BY <1>2 DEF r

LEMMA PauseTold == ASSUME NEW e, Whole(e) PROVE Told(e, Pause(e))
<1> DEFINE s == StopFade(e)
<1>1. Told(e, s) /\ Whole(s)
  BY StopFadeTold DEF Told
<1>2. Told(s, Pause(e))
  <2> DEFINE x == [s.el EXCEPT ![e.active] = Paused(@)]
             r == Pause(e)
  <2>1. r = [s EXCEPT !.wantPlaying = FALSE, !.shown = FALSE, !.el = x]
    BY DEF Pause
  <2> HIDE DEF s, x, r
  <2>2. Told(s, r)
    BY <1>1, <2>1 DEF Told, Whole, Fields, RanOut, Placed
  <2> QED BY <2>2 DEF r
<1> QED BY <1>1, <1>2, ToldTrans

\* Cue announces the track.
LEMMA CueTells ==
    ASSUME NEW e, Whole(e), NEW k \in 0 .. Len(e.queue) - 1
    PROVE  Told(e, Cue(e, k)) /\ Cue(e, k).changed /\ Placed(Cue(e, k))
<1>1. \E x, on : Cue(e, k) = [e EXCEPT !.index = k, !.active = on, !.standbyFor = -1,
                                     !.shown = e.wantPlaying, !.changed = TRUE, !.el = x]
  BY DEF Cue
<1> QED BY <1>1 DEF Told, Whole, Fields, RanOut, Placed

\* Start announces the track, or runs out.
LEMMA StartTold ==
    ASSUME NEW e, Whole(e), NEW i \in Nat, NEW autoplay, NEW ok
    PROVE  LET r == Start(e, i, autoplay, ok)
           IN  /\ Told(e, r) /\ Placed(r) /\ (r.changed \/ ~HasCurrent(r))
               /\ IF i >= Len(e.queue) THEN r.asks ELSE ~RanOut(r)
<1>1. CASE i >= Len(e.queue)
  <2> DEFINE r == [e EXCEPT !.index = Len(e.queue), !.wantPlaying = autoplay, !.asks = TRUE]
  <2>1. /\ DOMAIN r = Fields /\ r.queue = e.queue /\ r.index = Len(r.queue)
        /\ r.changed = e.changed /\ r.attached = e.attached /\ Len(r.queue) \in Nat
        /\ r.asks = TRUE
    BY DEF Whole, Fields
  <2>2. Start(e, i, autoplay, ok) = r
    BY <1>1 DEF Start
  <2> HIDE DEF r
  <2>3. ~HasCurrent(r)
    BY <2>1 DEF HasCurrent
  <2> QED BY <1>1, <2>1, <2>2, <2>3 DEF Told, Whole, Placed, RanOut
<1>2. CASE ~(i >= Len(e.queue))
  <2> DEFINE c == Cue(e, IF i > 0 THEN i ELSE 0)
             p == IF autoplay THEN Play(c, ok) ELSE c
  <2>1. Start(e, i, autoplay, ok) = CheckMore(PreloadNext(p))
    BY <1>2 DEF Start
  <2>2. Told(e, c) /\ Whole(c) /\ c.changed /\ Placed(c) /\ ~RanOut(c)
    <3>1. (IF i > 0 THEN i ELSE 0) \in 0 .. Len(e.queue) - 1 /\ Len(e.queue) \in Nat
      BY <1>2 DEF Whole
    <3>2. c.index = IF i > 0 THEN i ELSE 0
      BY DEF Cue, Whole, Fields
    <3> QED BY <3>1, <3>2, CueTells DEF Told, RanOut
  <2> HIDE DEF c
  <2>3. Told(c, p) /\ Whole(p) /\ p.index = c.index
    BY <2>2, PlayTold, ToldSame DEF Told
  <2> HIDE DEF p
  <2>4. Told(p, PreloadNext(p)) /\ Whole(PreloadNext(p)) /\ PreloadNext(p).index = c.index
    BY <2>3, PreloadNextTold DEF Told
  <2>5. /\ Told(PreloadNext(p), CheckMore(PreloadNext(p)))
        /\ CheckMore(PreloadNext(p)).index = c.index
    BY <2>4, CheckMoreTold
  <2>6. Start(e, i, autoplay, ok).changed
    BY <2>1, <2>2, <2>3, <2>4, <2>5 DEF Told
  <2>7. Told(c, Start(e, i, autoplay, ok))
    BY <2>1, <2>2, <2>3, <2>4, <2>5, ToldTrans
  <2>8. Told(e, Start(e, i, autoplay, ok))
    BY <2>2, <2>7, ToldTrans
  <2>9. Placed(Start(e, i, autoplay, ok))
    BY <2>2, <2>7 DEF Told
  <2>10. ~RanOut(Start(e, i, autoplay, ok))
    BY <2>1, <2>2, <2>5, <2>7 DEF Told, RanOut
  <2> QED BY <1>2, <2>6, <2>8, <2>9, <2>10
<1> QED BY <1>1, <1>2

LEMMA AdvanceTold == ASSUME NEW e, Whole(e), Placed(e), NEW ok PROVE Told(e, Advance(e, ok))
<1>1. e.index + 1 \in Nat
  BY DEF Placed, Whole
<1> QED BY <1>1, StartTold, ToldSame DEF Advance

LEMMA SkipNextTold == ASSUME NEW e, Whole(e), Placed(e), NEW ok PROVE Told(e, SkipNext(e, ok))
<1>1. Told(e, StopFade(e)) /\ Whole(StopFade(e)) /\ Placed(StopFade(e))
  BY StopFadeTold DEF Told
<1> QED BY <1>1, AdvanceTold, ToldTrans DEF SkipNext

LEMMA PreviousTold == ASSUME NEW e, Whole(e), Placed(e), NEW ok PROVE Told(e, Previous(e, ok))
<1>1. Told(e, StopFade(e)) /\ Whole(StopFade(e))
  BY StopFadeTold DEF Told
<1>2. ASSUME ~(e.index <= 0) PROVE Told(e, Start(StopFade(e), e.index - 1, e.wantPlaying, ok))
  <2>1. e.index - 1 \in Nat
    BY <1>2 DEF Placed, Whole
  <2> QED BY <1>1, <2>1, StartTold, ToldTrans
<1> QED BY <1>2, SeekTold DEF Previous

LEMMA ToggleTold == ASSUME NEW e, Whole(e), NEW ok PROVE Told(e, Toggle(e, ok))
BY PauseTold, PlayTold DEF Toggle

LEMMA DisposeTold == ASSUME NEW e, Whole(e) PROVE Told(e, Dispose(e))
<1> DEFINE s == StopFade(e)
           x == [i \in Elements |-> Paused(s.el[i])]
<1>1. Told(e, s) /\ Whole(s)
  BY StopFadeTold DEF Told
<1>2. Dispose(e) = [s EXCEPT !.el = x, !.attached = FALSE]
  BY DEF Dispose
<1> HIDE DEF s, x
<1>3. Told(s, Dispose(e))
  BY <1>1, <1>2 DEF Told, Whole, Fields, RanOut, Placed
<1> QED BY <1>1, <1>3, ToldTrans

LEMMA OnTimeUpdateTold == ASSUME NEW e, Whole(e), Placed(e), NEW ok PROVE Told(e, OnTimeUpdate(e, ok))
<1>1. ASSUME NEW n \in 0 .. Len(e.queue) - 1 PROVE Told(e, StartFade(e, n, ok))
  <2> DEFINE p == IF e.standbyFor # n THEN PreloadNext(e) ELSE e
             to == Standby(p)
             x == [p.el EXCEPT ![to] = Begun([@ EXCEPT !.vol = 0], ok)]
             f == [p EXCEPT !.el = x, !.active = to, !.index = n, !.standbyFor = -1,
                            !.wantPlaying = ok, !.shown = ok, !.changed = TRUE,
                            !.fade = [to |-> to, step |-> 0]]
  <2>1. StartFade(e, n, ok) = CheckMore(f)
    BY DEF StartFade
  <2>2. Told(e, p) /\ Whole(p)
    BY PreloadNextTold, ToldSame DEF Told
  <2> HIDE DEF p, to, x
  <2>3. Told(p, f) /\ Whole(f)
    BY <2>2 DEF Told, Whole, Fields, RanOut, Placed
  <2> HIDE DEF f
  <2>4. Told(f, CheckMore(f))
    BY <2>3, CheckMoreTold
  <2> QED BY <2>1, <2>2, <2>3, <2>4, ToldTrans
<1>2. e.index + 1 < Len(e.queue) => e.index + 1 \in 0 .. Len(e.queue) - 1
  BY DEF Placed, Whole
<1> QED BY <1>1, <1>2, ToldSame DEF OnTimeUpdate

LEMMA MovesTold ==
    ASSUME NEW e, Whole(e), Placed(e), NEW place, NEW ok
    PROVE  Told(e, Moves(e, place, ok))
<1>1. Told(e, Seek(e, place)) /\ Whole(Seek(e, place)) /\ Placed(Seek(e, place))
  BY SeekTold DEF Told
<1> QED BY <1>1, OnTimeUpdateTold, ToldTrans DEF Moves

LEMMA EndsTold ==
    ASSUME NEW e, Whole(e), Placed(e), NEW i, NEW ok
    PROVE  Told(e, Ends(e, i, ok))
<1> DEFINE t == IF i = e.active THEN OnTimeUpdate(e, ok) ELSE e
           x == [t.el EXCEPT ![i] = Paused(@)]
           p == [t EXCEPT !.el = x]
           q == [p EXCEPT !.shown = @ /\ Fading(p)]
<1>1. Ends(e, i, ok) = IF i # t.active THEN p ELSE Advance(q, ok)
  BY DEF Ends
<1>2. Told(e, t) /\ Whole(t)
  BY OnTimeUpdateTold, ToldSame DEF Told
<1> HIDE DEF t, x
<1>3. Told(t, p) /\ Whole(p)
  BY <1>2 DEF Told, Whole, Fields, RanOut, Placed
<1> HIDE DEF p
<1>4. Told(p, q) /\ Whole(q)
  BY <1>3 DEF Told, Whole, Fields, RanOut, Placed
<1> HIDE DEF q
<1>5. Told(q, Advance(q, ok))
  BY <1>2, <1>3, <1>4, AdvanceTold DEF Told
<1> QED BY <1>1, <1>2, <1>3, <1>4, <1>5, ToldTrans

LEMMA FailsTold ==
    ASSUME NEW e, Whole(e), Placed(e), NEW i, NEW ok
    PROVE  Told(e, Fails(e, i, ok))
<1> DEFINE x == [e.el EXCEPT ![i].run = "failed"]
           f == [e EXCEPT !.el = x]
<1>1. Fails(e, i, ok) = IF i = e.active THEN Advance(f, ok) ELSE f
  BY DEF Fails
<1> HIDE DEF x
<1>2. Told(e, f) /\ Whole(f)
  BY DEF Told, Whole, Fields, RanOut, Placed
<1> HIDE DEF f
<1>3. Told(f, Advance(f, ok))
  BY <1>2, AdvanceTold DEF Told
<1> QED BY <1>1, <1>2, <1>3, ToldTrans

LEMMA HeldTold == ASSUME NEW e, Whole(e), NEW i PROVE Told(e, Held(e, i))
<1> DEFINE x == [e.el EXCEPT ![i].run = "held"]
           b == IF i = e.active /\ ~Fading(e) THEN FALSE ELSE e.shown
<1>1. Held(e, i) = [e EXCEPT !.el = x, !.shown = b]
  BY DEF Held
<1> HIDE DEF x, b
<1> QED BY <1>1 DEF Told, Whole, Fields, RanOut, Placed

\* load() announces its first track; append() and remove() are followed by sync().
LEMMA LoadTold ==
    ASSUME NEW e, Whole(e), NEW q \in Seq(Tracks), NEW ok
    PROVE  LET r == Load(e, q, ok)
           IN  /\ Whole(r) /\ Placed(r) /\ (r.attached => e.attached)
               /\ r.changed \/ ~HasCurrent(r)
               /\ RanOut(r) => r.asks
<1> DEFINE s == StopFade(e)
           x == [s.el EXCEPT ![Standby(s)] = Sourced(@, NoTrack)]
           d == [s EXCEPT !.queue = q, !.askedMore = FALSE, !.standbyFor = -1, !.el = x]
<1>1. Load(e, q, ok) = Start(d, 0, TRUE, ok)
  BY DEF Load
<1>2. Told(e, s) /\ Whole(s)
  BY StopFadeTold DEF Told
<1> HIDE DEF s, x
<1>3. Whole(d) /\ d.attached = s.attached
  BY <1>2 DEF Whole, Fields
<1> DEFINE r == Start(d, 0, TRUE, ok)
<1> HIDE DEF d
<1>4. Told(d, r) /\ Placed(r) /\ (r.changed \/ ~HasCurrent(r)) /\ (RanOut(r) => r.asks)
  BY <1>3, StartTold
<1> HIDE DEF r
<1>5. Whole(r) /\ (r.attached => e.attached)
  BY <1>2, <1>3, <1>4 DEF Told
<1> QED BY <1>1, <1>4, <1>5 DEF r

LEMMA AppendPageTold ==
    ASSUME NEW e, Whole(e), Placed(e), NEW q \in Seq(Tracks), NEW ok
    PROVE  LET r == AppendPage(e, q, ok)
           IN  /\ Whole(r) /\ Placed(r) /\ (r.attached => e.attached)
               /\ RanOut(r) => Without(q, Skipped(e)) = <<>>
<1> DEFINE more == Without(q, Skipped(e))
           list == e.queue \o more
           a == [e EXCEPT !.queue = list, !.askedMore = FALSE]
           r == AppendPage(e, q, ok)
<1>1. \/ r = Start(a, a.index, a.wantPlaying, ok) /\ RanOut(e) /\ ~RanOut(a)
      \/ r = PreloadNext(a) /\ (RanOut(e) => RanOut(a))
  BY DEF AppendPage
<1>2. more \in Seq(Tracks)
  <2>1. more \in Seq(Tracks \ Skipped(e))
    BY WithoutType
  <2> HIDE DEF more
  <2> QED BY <2>1, SeqMonotonic
<1>3. more = Without(q, Skipped(e))
  OBVIOUS
<1> HIDE DEF more
<1>4. /\ list \in Seq(Tracks) /\ Len(list) = Len(e.queue) + Len(more)
      /\ Len(e.queue) \in Nat /\ Len(more) \in Nat /\ (Len(more) = 0 => more = <<>>)
  BY <1>2 DEF Whole
<1> HIDE DEF list, r
<1>5. Whole(a) /\ a.attached = e.attached /\ a.queue = list /\ a.index = e.index
  BY <1>4 DEF Whole, Fields
<1> HIDE DEF a
<1>6. Placed(a) /\ (more # <<>> => ~RanOut(a))
  BY <1>4, <1>5 DEF Placed, RanOut
<1> DEFINE Fine == Whole(r) /\ Placed(r) /\ (r.attached => e.attached) /\ (RanOut(r) => more = <<>>)
<1>7. ASSUME r = Start(a, a.index, a.wantPlaying, ok), RanOut(e), ~RanOut(a)
      PROVE  Fine
  <2>1. a.index \in Nat /\ ~(a.index >= Len(a.queue))
    BY <1>4, <1>5, <1>7 DEF RanOut, Placed
  <2>2. Told(a, r) /\ Placed(r) /\ ~RanOut(r)
    BY <1>5, <1>7, <2>1, StartTold
  <2> QED BY <1>5, <2>2 DEF Told
<1>8. ASSUME r = PreloadNext(a)
      PROVE  Fine
  <2>1. Told(a, r) /\ r.index = a.index
    BY <1>5, <1>8, PreloadNextTold
  <2>2. RanOut(r) => RanOut(a)
    BY <2>1 DEF Told, RanOut
  <2> QED BY <1>5, <1>6, <2>1, <2>2 DEF Told
<1>9. Fine
  BY <1>1, <1>7, <1>8
<1> QED BY <1>3, <1>9 DEF r

\* What is left of a queue that a track was taken from.
Shorter(e, r) ==
    /\ Whole(r) /\ Placed(r) /\ (r.attached => e.attached)
    /\ RanOut(r) => r.asks \/ (RanOut(e) /\ r.queue = e.queue)
    /\ e.queue = <<>> => r.queue = <<>>

LEMMA RemoveTold ==
    ASSUME NEW e, Whole(e), Placed(e), NEW t, NEW ok
    PROVE  Shorter(e, Remove(e, t, ok))
<1> DEFINE i == CHOOSE k \in Found(e, t) : \A j \in Found(e, t) : k <= j
           c == Spliced(e, i)
           r == Remove(e, t, ok)
<1>1. \/ r = e
      \/ Found(e, t) # {} /\ i = e.index /\ r = Start(c, i, e.wantPlaying, ok)
      \/ Found(e, t) # {} /\ i # e.index /\ r = PreloadNext(c)
  BY DEF Remove
<1>2. ASSUME Found(e, t) # {}
      PROVE  /\ Whole(c) /\ c.attached = e.attached /\ c.index = e.index
             /\ i \in e.index .. Len(e.queue) - 1 /\ i \in Nat
             /\ Len(c.queue) = Len(e.queue) - 1
  <2>1. \A k \in Found(e, t) : k \in 0 .. Len(e.queue) - 1 /\ k >= e.index
    BY DEF Found
  <2>2. i \in 0 .. Len(e.queue) - 1 /\ i >= e.index
    <3>1. Found(e, t) \subseteq Nat
      BY <2>1
    <3>2. \E k \in Found(e, t) : \A j \in Found(e, t) : k <= j
      BY <1>2, <3>1, LeastElement
    <3> QED BY <2>1, <3>2
  <2>3. i \in e.index .. Len(e.queue) - 1 /\ i \in Nat
    BY <2>2 DEF Placed, Whole
  <2> HIDE DEF i
  <2> DEFINE list == SubSeq(e.queue, 1, i) \o SubSeq(e.queue, i + 2, Len(e.queue))
             m == [e EXCEPT !.queue = list]
  <2>4. list \in Seq(Tracks) /\ Len(list) = Len(e.queue) - 1
    BY <2>2, SpliceFacts DEF Whole
  <2>5. SplicedOnly(e, i) = m
    BY DEF SplicedOnly
  <2> HIDE DEF list
  <2>6. Whole(m) /\ m.attached = e.attached /\ m.queue = list /\ m.index = e.index
    BY <2>4 DEF Whole, Fields
  <2> HIDE DEF m
  <2> DEFINE f == IF i \in {e.index, m.standbyFor} THEN -1
                  ELSE IF m.standbyFor > i THEN m.standbyFor - 1 ELSE m.standbyFor
  <2>7. c = [m EXCEPT !.standbyFor = f]
    BY <2>5 DEF Spliced
  <2> HIDE DEF f, c
  <2>8. Whole(c) /\ c.attached = m.attached /\ c.index = m.index /\ c.queue = m.queue
    BY <2>6, <2>7 DEF Whole, Fields
  <2> QED BY <2>3, <2>4, <2>6, <2>8
<1>3. Found(e, t) # {} => e.queue # <<>>
  BY DEF Found, Whole
<1> HIDE DEF i, c, r
<1>4. ASSUME r = e PROVE Shorter(e, r)
  BY <1>4 DEF Shorter
<1>5. ASSUME Found(e, t) # {}, i = e.index, r = Start(c, i, e.wantPlaying, ok) PROVE Shorter(e, r)
  <2>1. Told(c, r) /\ Placed(r) /\ (RanOut(r) => r.asks)
    BY <1>2, <1>5, StartTold
  <2> QED BY <1>2, <1>3, <1>5, <2>1 DEF Told, Shorter
<1>6. ASSUME Found(e, t) # {}, i # e.index, r = PreloadNext(c) PROVE Shorter(e, r)
  <2>1. Told(c, r) /\ r.index = c.index
    BY <1>2, <1>6, PreloadNextTold
  <2>2. c.index \in -1 .. Len(c.queue) - 1 /\ Len(c.queue) \in Int
    BY <1>2, <1>6 DEF Placed, Whole
  <2>3. r.queue = c.queue
    BY <2>1 DEF Told
  <2>4. Placed(r) /\ ~RanOut(r)
    BY <2>1, <2>2, <2>3 DEF Placed, RanOut
  <2> QED BY <1>2, <1>3, <1>6, <2>1, <2>4 DEF Told, Shorter
<1>7. Shorter(e, r)
  BY <1>1, <1>4, <1>5, <1>6
<1> QED BY <1>7 DEF r

-----------------------------------------------------------------------------
(* The engine in the page: it is shown as it is, and while the page is there *)
(* it keeps the invariant of PlayerEngineProofs.  Afterwards it need not: an *)
(* answer that comes late loads the disposed engine.                         *)

Shows(v, e) == HasCurrent(e) => v.track = Current(e) /\ v.upcoming = Ahead(e)

EInv == Whole(eng) /\ Placed(eng) /\ Shows(view, eng) /\ (Mounted => Inv)

LEMMA QuietWhole ==
    ASSUME NEW e, Whole(e)
    PROVE  /\ Whole(Quiet(e)) /\ Quiet(e).queue = e.queue /\ Quiet(e).index = e.index
           /\ Quiet(e).attached = e.attached
<1> DEFINE r == Quiet(e)
<1>1. r = [e EXCEPT !.asks = FALSE, !.changed = FALSE]
  BY DEF Quiet
<1> HIDE DEF r
<1>2. Whole(r) /\ r.queue = e.queue /\ r.index = e.index /\ r.attached = e.attached
  BY <1>1 DEF Whole, Fields
<1> QED BY <1>2 DEF r

LEMMA BecomesFine ==
    ASSUME NEW e, Whole(e), Placed(e), e.attached => Good(e), NEW v, IsView(v), EngineBecomes(e, v),
           e.changed \/ Shows(v, e)
    PROVE  EInv'
<1>1. eng' = Quiet(e) /\ view' = IF e.changed THEN Synced(v, e) ELSE v
  BY DEF EngineBecomes
<1>2. /\ Whole(eng') /\ eng'.queue = e.queue /\ eng'.index = e.index
      /\ eng'.attached = e.attached
  BY <1>1, QuietWhole
<1>3. Shows(view', e)
  BY <1>1, SyncedView DEF Shows
<1>4. Shows(view', eng')
  BY <1>2, <1>3 DEF Shows, HasCurrent, Current, Ahead
<1>5. e.attached => Inv'
  BY <1>1, QuietGood DEF Inv
<1> QED BY <1>2, <1>4, <1>5 DEF EInv, Mounted, Placed

\* A call of a method that Told speaks of, with the fields of the view that show
\* the music as they were.
LEMMA CallsFine ==
    ASSUME EInv, NEW e, Told(eng, e), e.attached => Good(e),
           NEW v, IsView(v), v.track = view.track, v.upcoming = view.upcoming, EngineBecomes(e, v)
    PROVE  EInv'
<1>1. e.changed \/ Shows(v, e)
  BY DEF EInv, Told, Shows, HasCurrent, Current, Ahead
<1> QED BY <1>1, BecomesFine DEF Told, EInv

\* A call that is followed by sync().
LEMMA SyncedFine ==
    ASSUME NEW e, Whole(e), Placed(e), e.attached => Good(e), IsView(view),
           EngineBecomes([e EXCEPT !.shown = e.wantPlaying], Synced(view, e))
    PROVE  EInv'
<1> DEFINE w == e.wantPlaying
           f == [e EXCEPT !.shown = w]
<1> HIDE DEF w
<1>1. /\ Whole(f) /\ Placed(f) /\ f.queue = e.queue /\ f.index = e.index /\ f.attached = e.attached
  BY DEF Whole, Fields, Placed
<1>2. ASSUME e.attached PROVE Good(f)
  <2>1. e \in Engines /\ w \in BOOLEAN
    BY <1>2 DEF Good, Ready, Engines, w
  <2>2. f \in Engines /\ Same(e, f)
    BY <2>1 DEF Engines, Same
  <2> HIDE DEF f
  <2> QED BY <1>2, <2>2, SameGood
<1>3. EngineBecomes(f, Synced(view, e))
  BY DEF w
<1> HIDE DEF f
<1>4. IsView(Synced(view, e)) /\ Shows(Synced(view, e), f)
  BY <1>1, SyncedView DEF Shows, HasCurrent, Current, Ahead
<1> QED BY <1>1, <1>2, <1>3, <1>4, BecomesFine

\* What the listener's buttons and the elements do.
LEMMA PageCalls ==
    ASSUME EInv, station \in Stations \cup {NoStation}, TogglePlay \/ Press \/ Unmount \/ Sound
    PROVE  \/ \E s \in Stations : PlayStation(s)
           \/ \E e : /\ Told(eng, e) /\ Good(e) /\ Calls(e)
                    /\ UNCHANGED <<station, lost, loaded>>
<1>1. Good(eng) /\ eng.attached /\ Whole(eng) /\ Placed(eng) /\ TRUE \in BOOLEAN
  BY DEF TogglePlay, Press, PressNext, PressPrevious, MediaKeys, MoveTo, Unmount, Sound,
         EInv, Inv, Mounted
<1> DEFINE Fine(e) == Told(eng, e) /\ Good(e)
<1>2. Fine(Toggle(eng, TRUE))
  BY <1>1, ToggleTold, ToggleSteps DEF Steps
<1>3. Fine(SkipNext(eng, TRUE))
  BY <1>1, SkipNextTold, SkipNextSteps DEF Steps
<1>4. Fine(Previous(eng, TRUE))
  BY <1>1, PreviousTold, PreviousSteps DEF Steps
<1>5. Fine(Play(eng, TRUE))
  BY <1>1, PlayTold, PlaySteps DEF Steps
<1>6. Fine(Pause(eng))
  BY <1>1, PauseTold, PauseSteps DEF Steps
<1>7. \A place \in Places : Fine(Seek(eng, place))
  BY <1>1, SeekTold, SeekSteps DEF Steps
<1>8. Fine(Dispose(eng))
  BY <1>1, DisposeTold, DisposeSteps DEF Steps
<1>9. \A place \in Places, ok \in BOOLEAN : Fine(Moves(eng, place, ok))
  BY <1>1, MovesTold, MovesSteps DEF Steps
<1>10. \A i \in Elements, ok \in BOOLEAN : CanEnd(eng, i) => Fine(Ends(eng, i, ok))
  BY <1>1, EndsTold, EndsSteps DEF Steps, CanEnd
<1>11. \A i \in Elements, ok \in BOOLEAN : Fine(Fails(eng, i, ok))
  BY <1>1, FailsTold, FailsSteps DEF Steps
<1>12. \A i \in Elements : Fine(Held(eng, i))
  BY <1>1, HeldTold, HeldSteps DEF Steps
<1> HIDE DEF Fine
<1>13. CASE TogglePlay
  <2>1. CASE HasCurrent(eng)
    <3>1. Calls(Toggle(eng, TRUE)) /\ UNCHANGED <<station, lost, loaded>>
      BY <1>13, <2>1 DEF TogglePlay
    <3> QED BY <1>2, <3>1 DEF Fine
  <2>2. CASE ~HasCurrent(eng)
    BY <1>13, <2>2 DEF TogglePlay
  <2> QED BY <2>1, <2>2
<1>14. CASE Press
  <2>1. /\ \/ Calls(SkipNext(eng, TRUE)) \/ Calls(Previous(eng, TRUE))
           \/ Calls(Play(eng, TRUE)) \/ Calls(Pause(eng))
           \/ \E place \in Places : Calls(Seek(eng, place))
        /\ UNCHANGED <<station, lost, loaded>>
    BY <1>14 DEF Press, PressNext, PressPrevious, MediaKeys, MoveTo
  <2> QED BY <1>3, <1>4, <1>5, <1>6, <1>7, <2>1 DEF Fine
<1>15. CASE Unmount
  BY <1>8, <1>15 DEF Unmount, Fine
<1>16. CASE Sound
  <2>1. /\ \/ \E place \in Places, ok \in BOOLEAN : Calls(Moves(eng, place, ok))
           \/ \E i \in Elements, ok \in BOOLEAN : CanEnd(eng, i) /\ Calls(Ends(eng, i, ok))
           \/ \E i \in Elements, ok \in BOOLEAN : Calls(Fails(eng, i, ok))
           \/ \E i \in Elements : Calls(Held(eng, i))
        /\ UNCHANGED <<station, lost, loaded>>
    BY <1>16 DEF Sound
  <2> QED BY <1>9, <1>10, <1>11, <1>12, <2>1 DEF Fine
<1> QED BY <1>13, <1>14, <1>15, <1>16

\* An answer is a sequence of tracks.
LEMMA AnswersAreTracks == \A s \in Stations : \A q \in Queues(s) : q \in Seq(Tracks)
<1> SUFFICES ASSUME NEW s \in Stations, NEW q \in Queues(s) PROVE q \in Seq(Tracks)
  OBVIOUS
<1>1. PICK S \in SUBSET Songs[s] : q \in [1 .. Cardinality(S) -> S]
  BY DEF Queues
<1>2. Songs[s] \subseteq Tracks /\ IsFiniteSet(Songs[s])
  BY StationConstants
<1>3. Cardinality(S) \in Nat
  BY <1>2, FS_Subset, FS_CardinalityType
<1> DEFINE n == Cardinality(S)
<1>4. q \in [1 .. n -> Tracks]
  BY <1>1, <1>2
<1> HIDE DEF n
<1> QED BY <1>3, <1>4 DEF n

PInv == RInv /\ EInv

LEMMA PInit == PlayerInit => PInv
<1> SUFFICES ASSUME PlayerInit PROVE PInv
  OBVIOUS
<1>1. /\ Init /\ station = NoStation
      /\ view = [track |-> NoTrack, upcoming |-> <<>>, loading |-> FALSE, error |-> FALSE]
      /\ requests = [k \in {"load", "more"} |-> [s \in Stations |-> 0]]
      /\ fetching = FALSE /\ lost = "no" /\ loaded = FALSE
  BY DEF PlayerInit
<1>2. requests \in Flights /\ \A s \in Stations : requests["more"][s] = 0
  BY <1>1 DEF Flights, Kinds
<1>3. IsView(view) /\ view.loading = FALSE
  BY <1>1 DEF IsView
<1>4. RInv
  BY <1>1, <1>2, <1>3 DEF RInv, Counted, Awaited, ShownStationIsLoaded, OneOut
<1>5. Inv
  BY <1>1, InitInv
<1>6. Whole(eng) /\ Placed(eng) /\ ~HasCurrent(eng)
  BY <1>1 DEF Init, Whole, Fields, Placed, HasCurrent
<1> QED BY <1>4, <1>5, <1>6 DEF PInv, EInv, Shows

LEMMA PNext == PInv /\ [PlayerNext]_vars => PInv'
<1> SUFFICES ASSUME PInv, [PlayerNext]_vars PROVE PInv'
  OBVIOUS
<1>1. RInv /\ EInv /\ station \in Stations \cup {NoStation} /\ IsView(view) /\ Whole(eng) /\ Placed(eng)
  BY DEF PInv, RInv, Counted, EInv
<1>2. CASE UNCHANGED vars
  BY <1>2 DEF vars, playerVars, PInv, RInv, EInv, Counted, Awaited, ShownStationIsLoaded,
              OneOut, Shows, Mounted, Inv
<1>3. ASSUME NEW s \in Stations, PlayStation(s) PROVE PInv'
  <2>1. eng' = eng /\ view' = [view EXCEPT !.loading = TRUE, !.error = FALSE]
    BY <1>3 DEF PlayStation
  <2>2. view'.track = view.track /\ view'.upcoming = view.upcoming
    BY <1>1, <2>1 DEF IsView
  <2>3. EInv'
    BY <1>1, <2>1, <2>2 DEF EInv, Shows, Mounted, Inv
  <2> QED BY <1>1, <1>3, <2>3, PlayStationCount DEF PInv
<1>4. CASE TogglePlay \/ Press \/ Unmount \/ Sound
  <2>1. ASSUME NEW e, Told(eng, e), Good(e), Calls(e), UNCHANGED <<station, lost, loaded>>
        PROVE  PInv'
    <3>1. EngineBecomes(e, view) /\ LoadMore(e.asks, requests, fetching)
      BY <2>1 DEF Calls
    <3>2. RInv'
      BY <1>1, <2>1, <3>1, CallsCount
    <3>3. EInv'
      BY <1>1, <2>1, <3>1, CallsFine
    <3> QED BY <3>2, <3>3 DEF PInv
  <2> QED BY <1>1, <1>3, <1>4, <2>1, PageCalls
<1>5. ASSUME NEW s \in Stations, ClickStation(s) PROVE PInv'
  BY <1>3, <1>5 DEF ClickStation
<1>6. ASSUME NEW t \in Tracks, Ban(t) PROVE PInv'
  <2> DEFINE e == Remove(eng, t, TRUE)
  <2>1. /\ EngineBecomes([e EXCEPT !.shown = e.wantPlaying], Synced(view, e))
        /\ LoadMore(e.asks, requests, fetching)
        /\ UNCHANGED <<station, lost, loaded>> /\ Good(eng) /\ eng.attached
    BY <1>1, <1>6 DEF Ban, EInv, Mounted, Inv
  <2>2. Whole(e) /\ Placed(e) /\ Good(e)
    <3>1. Good(e)
      BY <2>1, RemoveGood
    <3>2. Shorter(eng, e)
      BY <1>1, RemoveTold
    <3> HIDE DEF e
    <3> QED BY <3>1, <3>2 DEF Shorter
  <2> HIDE DEF e
  <2>3. EInv'
    BY <1>1, <2>1, <2>2, SyncedFine
  <2>4. /\ IsView(Synced(view, e)) /\ Synced(view, e).loading = view.loading
        /\ Synced(view, e).error = view.error
    BY <1>1, SyncedView
  <2>5. RInv'
    BY <1>1, <2>1, <2>4, CallsCount
  <2> QED BY <2>3, <2>5 DEF PInv
<1>7. ASSUME NEW s \in Stations, LoadSettles(s) PROVE PInv'
  <2>1. CASE eng' = eng /\ view'.track = view.track /\ view'.upcoming = view.upcoming
    <3>1. EInv'
      BY <1>1, <2>1 DEF EInv, Shows, Mounted, Inv
    <3> QED BY <1>1, <1>7, <3>1, LoadSettlesCount DEF PInv
  <2>2. ASSUME NEW q \in Queues(s), NEW ok \in BOOLEAN, q # <<>>,
               EngineBecomes(Load(eng, q, ok), [view EXCEPT !.loading = FALSE])
        PROVE  PInv'
    <3> DEFINE e == Load(eng, q, ok)
               v == [view EXCEPT !.loading = FALSE]
    <3>1. q \in Seq(Tracks) \ {<<>>}
      BY <2>2, AnswersAreTracks
    <3>2. Whole(e) /\ Placed(e) /\ (e.attached => eng.attached) /\ (e.changed \/ ~HasCurrent(e))
      BY <1>1, <3>1, LoadTold
    <3>3. eng.attached => Good(e)
      BY <1>1, <3>1, LoadGood DEF EInv, Mounted, Inv
    <3>4. EngineBecomes(e, v)
      BY <2>2
    <3> HIDE DEF e
    <3>5. IsView(v)
      BY <1>1, NotLoadingView
    <3> HIDE DEF v
    <3>6. EInv'
      BY <3>2, <3>3, <3>4, <3>5, BecomesFine DEF Shows
    <3> QED BY <1>1, <1>7, <3>6, LoadSettlesCount DEF PInv
  <2>3. CASE UNCHANGED <<eng, view>>
    BY <2>1, <2>3
  <2>4. CASE eng' = eng /\ view' = [view EXCEPT !.loading = FALSE, !.error = TRUE]
    <3>1. view'.track = view.track /\ view'.upcoming = view.upcoming
      BY <1>1, <2>4 DEF IsView
    <3> QED BY <2>1, <2>4, <3>1
  <2> QED BY <1>7, <2>2, <2>3, <2>4 DEF LoadSettles, QueueFails, QueueArrives
<1>8. ASSUME NEW s \in Stations, MoreSettles(s) PROVE PInv'
  <2>1. CASE MoreFails(s)
    <3>1. EInv'
      BY <1>1, <2>1 DEF MoreFails, EInv, Shows, Mounted, Inv
    <3> QED BY <1>1, <1>8, <3>1, MoreSettlesCount DEF PInv
  <2>2. ASSUME NEW q \in Queues(s), NEW ok \in BOOLEAN, MoreArrives(s, q, ok) PROVE PInv'
    <3> DEFINE e == AppendPage(eng, q, ok)
    <3>1. EngineBecomes([e EXCEPT !.shown = e.wantPlaying], Synced(view, e))
      BY <2>2 DEF MoreArrives
    <3>2. q \in Seq(Tracks)
      BY AnswersAreTracks
    <3>3. Whole(e) /\ Placed(e) /\ (e.attached => eng.attached)
      BY <1>1, <3>2, AppendPageTold
    <3>4. eng.attached => Good(e)
      BY <1>1, <3>2, AppendPageGood DEF EInv, Mounted, Inv
    <3> HIDE DEF e
    <3>5. EInv'
      BY <1>1, <3>1, <3>3, <3>4, SyncedFine
    <3> QED BY <1>1, <1>8, <3>5, MoreSettlesCount DEF PInv
  <2> QED BY <1>8, <2>1, <2>2 DEF MoreSettles
<1> QED BY <1>2, <1>4, <1>5, <1>6, <1>7, <1>8 DEF PlayerNext

\* A queue that ran out is asked for, and no queue was there before a station.
Dry ==
    /\ DryIsAsked
    /\ station = NoStation => eng.queue = <<>> /\ ~fetching

LEMMA QuietDry ==
    ASSUME NEW e, Whole(e), eng' = Quiet(e)
    PROVE  eng'.queue = e.queue /\ (RanOut(eng') <=> RanOut(e))
BY QuietWhole DEF RanOut

LEMMA DryNext == PInv /\ Dry /\ [PlayerNext]_vars => Dry'
<1> SUFFICES ASSUME PInv, Dry, [PlayerNext]_vars PROVE Dry'
  OBVIOUS
<1>1. /\ EInv /\ Whole(eng) /\ Placed(eng) /\ station \in Stations \cup {NoStation}
      /\ RanOut(eng) /\ eng.queue # <<>> => fetching \/ lost # "no"
      /\ station = NoStation => eng.queue = <<>> /\ ~fetching
      /\ fetching \in BOOLEAN /\ NoStation \notin Stations
  BY StationConstants DEF PInv, EInv, RInv, Counted, Dry, DryIsAsked
<1>2. CASE UNCHANGED <<eng, fetching, lost>> /\ (station' = station \/ station' \in Stations)
  BY <1>1, <1>2 DEF Dry, DryIsAsked
<1>3. ASSUME NEW s \in Stations, PlayStation(s) PROVE Dry'
  BY <1>2, <1>3 DEF PlayStation
<1>4. ASSUME NEW e, Whole(e), eng' = Quiet(e), NEW asks, NEW flights, LoadMore(asks, flights, fetching),
             UNCHANGED <<station, lost>>,
             RanOut(e) => asks \/ (RanOut(eng) /\ e.queue = eng.queue),
             station = NoStation => e.queue = <<>>
      PROVE  Dry'
  <2>1. eng'.queue = e.queue /\ (RanOut(eng') <=> RanOut(e))
    BY <1>4, QuietDry
  <2>2. /\ asks /\ station # NoStation => fetching'
        /\ fetching => fetching'
        /\ station = NoStation => ~fetching'
    BY <1>1, <1>4 DEF LoadMore
  <2>3. RanOut(eng') /\ eng'.queue # <<>> => fetching' \/ lost' # "no"
    <3> SUFFICES ASSUME RanOut(eng'), eng'.queue # <<>> PROVE fetching' \/ lost' # "no"
      OBVIOUS
    <3>1. CASE asks
      BY <1>1, <1>4, <2>1, <2>2, <3>1
    <3>2. CASE RanOut(eng) /\ e.queue = eng.queue
      <4>1. fetching \/ lost # "no"
        BY <1>1, <2>1, <3>2
      <4> QED BY <1>4, <2>2, <4>1
    <3> QED BY <1>4, <2>1, <3>1, <3>2
  <2>4. station' = NoStation => eng'.queue = <<>> /\ ~fetching'
    BY <1>4, <2>1, <2>2
  <2> QED BY <2>3, <2>4 DEF Dry, DryIsAsked
<1>5. CASE TogglePlay \/ Press \/ Unmount \/ Sound
  <2>1. ASSUME NEW e, Told(eng, e), Calls(e), UNCHANGED <<station, lost, loaded>>
        PROVE  Dry'
    <3>1. eng' = Quiet(e) /\ LoadMore(e.asks, requests, fetching)
      BY <2>1 DEF Calls, EngineBecomes
    <3> QED BY <1>1, <1>4, <2>1, <3>1 DEF Told
  <2> QED BY <1>1, <1>3, <1>5, <2>1, PageCalls
<1>6. ASSUME NEW s \in Stations, ClickStation(s) PROVE Dry'
  BY <1>3, <1>6 DEF ClickStation
<1>7. ASSUME NEW t \in Tracks, Ban(t) PROVE Dry'
  <2> DEFINE e == Remove(eng, t, TRUE)
             f == [e EXCEPT !.shown = e.wantPlaying]
  <2>1. /\ eng' = Quiet(f) /\ LoadMore(e.asks, requests, fetching) /\ UNCHANGED <<station, lost>>
    BY <1>7 DEF Ban, EngineBecomes
  <2>2. /\ Whole(e) /\ (RanOut(e) => e.asks \/ (RanOut(eng) /\ e.queue = eng.queue))
        /\ eng.queue = <<>> => e.queue = <<>>
    <3>1. Shorter(eng, e)
      BY <1>1, RemoveTold
    <3> HIDE DEF e
    <3> QED BY <3>1 DEF Shorter
  <2> HIDE DEF e
  <2>3. Whole(f) /\ f.queue = e.queue /\ (RanOut(f) <=> RanOut(e))
    BY <2>2 DEF Whole, Fields, RanOut
  <2> HIDE DEF f
  <2> QED BY <1>1, <1>4, <2>1, <2>2, <2>3
<1>8. ASSUME NEW s \in Stations, LoadSettles(s) PROVE Dry'
  <2>1. CASE UNCHANGED <<eng, fetching, lost, station>>
    BY <1>2, <2>1
  <2>2. ASSUME NEW q \in Queues(s), NEW ok \in BOOLEAN, s = station, UNCHANGED <<station, lost>>,
               EngineBecomes(Load(eng, q, ok), [view EXCEPT !.loading = FALSE]),
               LoadMore(Load(eng, q, ok).asks, Landed("load", s), fetching)
        PROVE  Dry'
    <3>1. Whole(Load(eng, q, ok)) /\ (RanOut(Load(eng, q, ok)) => Load(eng, q, ok).asks)
      BY <1>1, AnswersAreTracks, LoadTold
    <3>2. eng' = Quiet(Load(eng, q, ok))
      BY <2>2 DEF EngineBecomes
    <3> QED BY <1>1, <1>4, <2>2, <3>1, <3>2
  <2> QED BY <1>8, <2>1, <2>2 DEF LoadSettles, QueueFails, QueueArrives
<1>9. ASSUME NEW s \in Stations, MoreSettles(s) PROVE Dry'
  <2>1. station' = station /\ station # NoStation
    <3>1. requests["more"][s] > 0 /\ station' = station
      BY <1>9 DEF MoreSettles, MoreFails, MoreArrives
    <3>2. fetching
      BY <3>1 DEF PInv, RInv, OneOut
    <3> QED BY <1>1, <3>1, <3>2
  <2>2. CASE MoreFails(s)
    BY <2>1, <2>2 DEF MoreFails, Dry, DryIsAsked
  <2>3. ASSUME NEW q \in Queues(s), NEW ok \in BOOLEAN, MoreArrives(s, q, ok) PROVE Dry'
    <3> DEFINE e == AppendPage(eng, q, ok)
               f == [e EXCEPT !.shown = e.wantPlaying]
    <3>1. eng' = Quiet(f) /\ (lost' = "no" => Without(q, Skipped(eng)) # <<>>)
      BY <2>3 DEF MoreArrives, EngineBecomes
    <3>2. Whole(e) /\ (RanOut(e) => Without(q, Skipped(eng)) = <<>>)
      BY <1>1, AnswersAreTracks, AppendPageTold
    <3> HIDE DEF e
    <3>3. Whole(f) /\ (RanOut(f) <=> RanOut(e))
      BY <3>2 DEF Whole, Fields, RanOut
    <3> HIDE DEF f
    <3>4. RanOut(eng') => lost' # "no"
      BY <3>1, <3>2, <3>3, QuietDry
    <3> QED BY <2>1, <3>4 DEF Dry, DryIsAsked
  <2> QED BY <1>9, <2>2, <2>3 DEF MoreSettles
<1>10. CASE UNCHANGED vars
  BY <1>2, <1>10 DEF vars, playerVars
<1> QED BY <1>3, <1>5, <1>6, <1>7, <1>8, <1>9, <1>10 DEF PlayerNext

LEMMA PInvariance == PlayerSpec => []PInv
BY PInit, PNext, PTL DEF PlayerSpec

-----------------------------------------------------------------------------
(* The properties *)

\* After every skip, ban, late answer and track change, in any order, the page
\* shows the engine's track and what comes after it.
THEOREM PageShowsTheEngine == PlayerSpec => []ShownIsReal
<1>1. PInv => ShownIsReal
  BY DEF PInv, EInv, Shows, ShownIsReal
<1> QED BY <1>1, PInvariance, PTL

\* The station that is shown without a spinner or an error is the one whose
\* queue was loaded, however many were clicked and however late they answer.
THEOREM RightStationPlays == PlayerSpec => []ShownStationIsLoaded
<1>1. PInv => ShownStationIsLoaded
  BY DEF PInv, RInv
<1> QED BY <1>1, PInvariance, PTL

\* While the spinner is shown, the answer that ends it is still to come.
THEOREM SpinnerEnds == PlayerSpec => []LoadingIsAwaited
<1>1. PInv => LoadingIsAwaited
  BY DEF PInv, RInv, Awaited, LoadingIsAwaited
<1> QED BY <1>1, PInvariance, PTL

\* fetching is set exactly while a request for more is out, and one at most is.
THEOREM OneRequestForMore == PlayerSpec => []OneMoreAtATime
<1>1. PInv => OneMoreAtATime
  <2> SUFFICES ASSUME PInv PROVE OneMoreAtATime
    OBVIOUS
  <2>1. OneOut(requests["more"], fetching) /\ fetching \in BOOLEAN
    BY DEF PInv, RInv, Counted
  <2> QED BY <2>1 DEF OneOut, OneMoreAtATime
<1> QED BY <1>1, PInvariance, PTL

\* A queue that ran out has a request for more under way, unless the last one
\* brought nothing to play: whether a skip, an end, a failure, a ban or a reload
\* came to its end, and in whatever order answers come.
THEOREM DryQueueIsAsked == PlayerSpec => []DryIsAsked
<1>1. PlayerInit => Dry
  BY DEF PlayerInit, Init, Dry, DryIsAsked
<1>2. PInv /\ Dry /\ [PlayerNext]_vars => Dry'
  BY DryNext
<1>3. Dry => DryIsAsked
  BY DEF Dry
<1> QED BY <1>1, <1>2, <1>3, PInvariance, PTL DEF PlayerSpec

\* What PlayerEngineProofs shows of the engine holds in the page until the
\* listener signs out: the owner calls it as its callers are assumed to.
THEOREM EngineInThePage ==
    PlayerSpec => [](Mounted => PlaysWhatIsWanted /\ OneSounds /\ StandbyIsNext /\ VolumeIsSet)
<1>1. PInv => (Mounted => PlaysWhatIsWanted /\ OneSounds /\ StandbyIsNext /\ VolumeIsSet)
  BY InvMeans DEF PInv, EInv
<1> QED BY <1>1, PInvariance, PTL
=============================================================================
