---------------------------- MODULE PlayerEngine ----------------------------
(***************************************************************************)
(* The web player's engine (player/engine.ts): a queue of tracks played    *)
(* through two audio elements.  The active one sounds, the standby one     *)
(* holds the next track; with a crossfade both sound for a while.          *)
(*                                                                         *)
(* The engine is one record, e, and a method an operator from records to   *)
(* records, since the methods call each other.  The argument ok says       *)
(* whether the browser lets an element begin to play.                      *)
(*                                                                         *)
(* Indexes count from 0 as in the code: e.queue[i + 1] is queue[i].  What  *)
(* an element does is one field, run: "paused", "playing", "held" (paused  *)
(* by the system, not by the engine) or "failed" (its source cannot be     *)
(* played).  Setting src drops the element's undelivered events, so an     *)
(* event is an action enabled by what the element does now.                *)
(***************************************************************************)
EXTENDS Integers, Sequences, FiniteSets

CONSTANTS
    Tracks,      \* ids of tracks
    NoTrack,     \* src = ''
    LongTracks,  \* the tracks longer than two crossfades
    Lookahead,   \* LOOKAHEAD
    RecentSkip,  \* RECENT_SKIP
    FadeSteps,   \* ticks of a crossfade
    Volumes,     \* values of the volume setting
    Places       \* where an element's position is: "start" (up to RESTART_AFTER),
                 \* "body" or "tail" (within a crossfade of the end)

ASSUME EngineConstants ==
    /\ NoTrack \notin Tracks
    /\ LongTracks \subseteq Tracks
    /\ Lookahead \in Nat
    /\ RecentSkip \in Nat
    /\ FadeSteps \in Nat \ {0}
    /\ Volumes \subseteq Nat /\ \E full \in Volumes : \A v \in Volumes : v <= full
    /\ {"start", "tail"} \subseteq Places /\ Places \subseteq {"start", "body", "tail"}

Elements == {1, 2}
NoFade == [to |-> 0, step |-> 0]

Other(i) == 3 - i
Standby(e) == Other(e.active)
Fading(e) == e.fade # NoFade
HasCurrent(e) == e.index \in 0 .. Len(e.queue) - 1
Current(e) == e.queue[e.index + 1]
Ahead(e) == SubSeq(e.queue, e.index + 2, Len(e.queue))
RanOut(e) == e.index >= Len(e.queue)
\* The events onNeedMore and onTrack, which the owner takes in the same step.
Quiet(e) == [e EXCEPT !.asks = FALSE, !.changed = FALSE]

Sounding(e) == {i \in Elements : e.el[i].run = "playing"}

-----------------------------------------------------------------------------
(* One audio element *)

\* pause(): a failed element stays failed.
Paused(a) == IF a.run = "failed" THEN a ELSE [a EXCEPT !.run = "paused"]

\* play(): rejected for a failed element (nothing handles that) and for one
\* the browser does not let begin.
Begun(a, ok) == IF ok /\ a.run # "failed" THEN [a EXCEPT !.run = "playing"] ELSE a

\* src = url: the old media is dropped, paused and at its start.
Sourced(a, t) == [a EXCEPT !.src = t, !.run = "paused", !.at = "start"]

-----------------------------------------------------------------------------
(* The methods *)

\* Mistake: the outgoing element goes on.
StopFadeGoesOn(e) ==
    IF Fading(e) THEN [e EXCEPT !.fade = NoFade, !.el[e.active].vol = e.volume] ELSE e

\* Mistake: the volume stays where the ramp was.
StopFadeAsIs(e) ==
    IF Fading(e) THEN [e EXCEPT !.fade = NoFade, !.el[Standby(e)] = Paused(@)] ELSE e

StopFade(e) ==
    IF Fading(e)
    THEN [e EXCEPT !.fade = NoFade,
                   !.el = [e.el EXCEPT ![Standby(e)] = Paused(@),
                                    ![e.active].vol = e.volume]]
    ELSE e

\* askedMore keeps one request at a time out.
CheckMore(e) ==
    IF ~e.askedMore /\ Len(e.queue) - e.index - 1 <= Lookahead
    THEN [e EXCEPT !.askedMore = TRUE, !.asks = TRUE]
    ELSE e

PreloadNext(e) ==
    LET n == e.index + 1
    IN  IF n >= Len(e.queue) \/ e.standbyFor = n \/ Fading(e)
        THEN e
        ELSE [e EXCEPT !.el[Standby(e)] = Sourced(@, e.queue[n + 1]),
                       !.standbyFor = n]

\* play() with handlePlayError: a blocked start is taken back, and shown.
Play(e, ok) ==
    IF HasCurrent(e)
    THEN [e EXCEPT !.wantPlaying = ok, !.shown = ok,
                   !.el[e.active] = Begun(@, ok)]
    ELSE e

Pause(e) ==
    LET s == StopFade(e)
    IN  [s EXCEPT !.wantPlaying = FALSE, !.shown = FALSE,
                  !.el[e.active] = Paused(@)]

\* Makes queue[k] the current track: on the element that preloaded it, or else
\* on the active one.  Its owner reads wantPlaying at onTrack (shown).
Cue(e, k) ==
    LET preloaded == e.standbyFor = k
        on == IF preloaded THEN Standby(e) ELSE e.active
        cued == IF preloaded THEN e.el[on] ELSE Sourced(e.el[on], e.queue[k + 1])
        left == IF preloaded THEN Paused(e.el[Other(on)]) ELSE e.el[Other(on)]
    IN  [e EXCEPT !.index = k, !.active = on, !.standbyFor = -1,
                  !.shown = e.wantPlaying, !.changed = TRUE,
                  !.el = [i \in Elements |->
                            IF i = on THEN [cued EXCEPT !.vol = e.volume] ELSE left]]

\* Mistake: a queue that ran out asks for nothing.
StartQuietly(e, i, autoplay, ok) ==
    IF i >= Len(e.queue)
    THEN [e EXCEPT !.index = Len(e.queue), !.wantPlaying = autoplay]
    ELSE LET c == Cue(e, IF i > 0 THEN i ELSE 0)
         IN  CheckMore(PreloadNext(IF autoplay THEN Play(c, ok) ELSE c))

Start(e, i, autoplay, ok) ==
    IF i >= Len(e.queue)
    THEN [e EXCEPT !.index = Len(e.queue), !.wantPlaying = autoplay, !.asks = TRUE]
    ELSE LET c == Cue(e, IF i > 0 THEN i ELSE 0)
         IN  CheckMore(PreloadNext(IF autoplay THEN Play(c, ok) ELSE c))

Advance(e, ok) ==
    IF RanOut(e) THEN e ELSE Start(e, e.index + 1, e.wantPlaying, ok)

\* load(tracks, 0, true), the only way it is called.
Load(e, tracks, ok) ==
    LET s == StopFade(e)
    IN  Start([s EXCEPT !.queue = tracks, !.askedMore = FALSE, !.standbyFor = -1,
                        !.el[Standby(s)] = Sourced(@, NoTrack)],
              0, TRUE, ok)

\* The tracks of s that are not in drop, in their order.
Without(s, drop) ==
    LET kept == {k \in DOMAIN s : s[k] \notin drop}
        place(k) == Cardinality({m \in kept : m <= k})
    IN  [j \in 1 .. Cardinality(kept) |-> s[CHOOSE k \in kept : place(k) = j]]

\* Mistake: the tracks just played are not skipped.
SkippedAhead(e) == {e.queue[k] : k \in e.index + 2 .. Len(e.queue)}

\* The ids append() does not take again: what is ahead and the last played.
Skipped(e) ==
    LET first == IF e.index > RecentSkip THEN e.index - RecentSkip ELSE 0
    IN  {e.queue[k] : k \in first + 1 .. Len(e.queue)}

\* Mistake: more tracks do not start a player that ran out.
AppendOnly(e, tracks, ok) ==
    PreloadNext([e EXCEPT !.queue = @ \o Without(tracks, Skipped(e)), !.askedMore = FALSE])

AppendPage(e, tracks, ok) ==
    LET a == [e EXCEPT !.queue = @ \o Without(tracks, Skipped(e)), !.askedMore = FALSE]
    IN  IF RanOut(e) /\ ~RanOut(a)
        THEN Start(a, a.index, a.wantPlaying, ok)
        ELSE PreloadNext(a)

\* Mistake: tracks already played are looked through too.
FoundAnywhere(e, t) == {k \in 0 .. Len(e.queue) - 1 : e.queue[k + 1] = t}

\* Where t is current or waits.
Found(e, t) == {k \in 0 .. Len(e.queue) - 1 : k >= e.index /\ e.queue[k + 1] = t}

\* splice(i, 1), with the index standbyFor kept up to date.
SplicedOnly(e, i) == [e EXCEPT !.queue = SubSeq(@, 1, i) \o SubSeq(@, i + 2, Len(@))]
Spliced(e, i) ==
    [SplicedOnly(e, i) EXCEPT !.standbyFor = IF i \in {e.index, @} THEN -1
                                             ELSE IF @ > i THEN @ - 1 ELSE @]

Remove(e, t, ok) ==
    LET i == CHOOSE k \in Found(e, t) : \A j \in Found(e, t) : k <= j
    IN  IF Found(e, t) = {} THEN e
        ELSE IF i = e.index THEN Start(Spliced(e, i), i, e.wantPlaying, ok)
        ELSE PreloadNext(Spliced(e, i))

SkipNext(e, ok) == Advance(StopFade(e), ok)

Seek(e, place) == [e EXCEPT !.el[e.active].at = place]

Previous(e, ok) ==
    IF e.el[e.active].at # "start" \/ e.index <= 0
    THEN Seek(e, "start")
    ELSE Start(StopFade(e), e.index - 1, e.wantPlaying, ok)

Toggle(e, ok) == IF e.wantPlaying THEN Pause(e) ELSE Play(e, ok)

SetVolume(e, v) ==
    LET s == [e EXCEPT !.volume = v]
    IN  IF Fading(e) THEN s ELSE [s EXCEPT !.el[e.active].vol = v]

SetCrossfade(e, on) == [e EXCEPT !.crossfade = on]

\* detach: no event of an element reaches the engine after this.
Dispose(e) ==
    LET s == StopFade(e)
    IN  [s EXCEPT !.el = [i \in Elements |-> Paused(s.el[i])], !.attached = FALSE]

\* The incoming track is the current one from the first tick on.
StartFade(e, n, ok) ==
    LET p == IF e.standbyFor # n THEN PreloadNext(e) ELSE e
        to == Standby(p)
    IN  CheckMore([p EXCEPT !.el[to] = Begun([@ EXCEPT !.vol = 0], ok),
                            !.active = to, !.index = n, !.standbyFor = -1,
                            !.wantPlaying = ok, !.shown = ok, !.changed = TRUE,
                            !.fade = [to |-> to, step |-> 0]])

OnTimeUpdate(e, ok) ==
    IF /\ e.crossfade /\ ~Fading(e) /\ e.wantPlaying
       /\ e.el[e.active].at = "tail"
       /\ e.el[e.active].src \in LongTracks
       /\ e.index + 1 < Len(e.queue)
    THEN StartFade(e, e.index + 1, ok)
    ELSE e

\* One tick of the interval startFade sets.
FadeTick(e) ==
    LET to == e.fade.to
        k == e.fade.step + 1
        t == [e EXCEPT !.fade.step = k,
                       !.el = [e.el EXCEPT ![to].vol = (e.volume * k) \div FadeSteps,
                                        ![Other(to)].vol = (e.volume * (FadeSteps - k)) \div FadeSteps]]
        s == StopFade(t)
    IN  IF k < FadeSteps THEN t
        ELSE PreloadNext([s EXCEPT !.el[Other(to)] = Paused(@)])

-----------------------------------------------------------------------------
(* What an element reports *)

\* 'timeupdate' as its position moves on.
CanMove(e, place) ==
    /\ e.el[e.active].run = "playing"
    /\ place = "start" => e.el[e.active].at = "start"
    /\ place = "body" => e.el[e.active].at # "tail"

Moves(e, place, ok) == OnTimeUpdate(Seek(e, place), ok)

\* 'timeupdate', 'pause' and 'ended' as it reaches the end: all three count
\* only while it is the active element, which the first may change.
CanEnd(e, i) == e.el[i].run = "playing" /\ (i = e.active => e.el[i].at = "tail")

Ends(e, i, ok) ==
    LET t == IF i = e.active THEN OnTimeUpdate(e, ok) ELSE e
        p == [t EXCEPT !.el[i] = Paused(@)]
    IN  IF i # t.active THEN p
        ELSE Advance([p EXCEPT !.shown = @ /\ Fading(p)], ok)

\* 'error' when its source cannot be played.
CanFail(e, i) == e.el[i].src # NoTrack /\ e.el[i].run # "failed"

Fails(e, i, ok) ==
    LET f == [e EXCEPT !.el[i].run = "failed"]
    IN  IF i = e.active THEN Advance(f, ok) ELSE f

\* 'pause' when the system stops it.
Held(e, i) ==
    [e EXCEPT !.el[i].run = "held",
              !.shown = IF i = e.active /\ ~Fading(e) THEN FALSE ELSE @]

-----------------------------------------------------------------------------
(* The engine as a state machine: its owner calls the methods, in any order  *)
(* and with any tracks; the elements report what happens to them.            *)

CONSTANTS
    Pages,      \* the lists of tracks that may arrive
    MaxQueue    \* bounds the queue

ASSUME PagesAreTracks == Pages \subseteq Seq(Tracks) \ {<<>>}

VARIABLE eng

Init ==
    LET full == CHOOSE v \in Volumes : \A w \in Volumes : w <= v
    IN  eng = [queue |-> <<>>, index |-> -1,
               el |-> [i \in Elements |->
                         [src |-> NoTrack, run |-> "paused", at |-> "start", vol |-> full]],
               active |-> 1, standbyFor |-> -1, volume |-> full, crossfade |-> FALSE,
               fade |-> NoFade, askedMore |-> FALSE, wantPlaying |-> FALSE,
               shown |-> FALSE, attached |-> TRUE, asks |-> FALSE, changed |-> FALSE]

Becomes(e) == eng' = Quiet(e)

\* What the owner calls.
CallLoad(p, ok) == eng.attached /\ Becomes(Load(eng, p, ok))
CallAppend(p, ok) ==
    /\ eng.attached
    /\ Becomes(AppendPage(eng, p, ok))
    /\ Len(eng'.queue) <= MaxQueue
CallRemove(t) == eng.attached /\ Becomes(Remove(eng, t, TRUE))
CallPlay == eng.attached /\ Becomes(Play(eng, TRUE))
CallPause == eng.attached /\ Becomes(Pause(eng))
CallToggle == eng.attached /\ Becomes(Toggle(eng, TRUE))
CallNext == eng.attached /\ Becomes(SkipNext(eng, TRUE))
CallPrevious == eng.attached /\ Becomes(Previous(eng, TRUE))
CallSeek(place) == eng.attached /\ Becomes(Seek(eng, place))
CallSettings(v, on) == eng.attached /\ Becomes(SetCrossfade(SetVolume(eng, v), on))
CallDispose == eng.attached /\ Becomes(Dispose(eng))

\* What the elements and the interval do.
TimePasses(place, ok) == eng.attached /\ CanMove(eng, place) /\ Becomes(Moves(eng, place, ok))
ElementEnds(i, ok) == eng.attached /\ CanEnd(eng, i) /\ Becomes(Ends(eng, i, ok))
ElementFails(i, ok) == eng.attached /\ CanFail(eng, i) /\ Becomes(Fails(eng, i, ok))
SystemPauses(i) == eng.attached /\ eng.el[i].run = "playing" /\ Becomes(Held(eng, i))
FadeTicks == Fading(eng) /\ Becomes(FadeTick(eng))

Next ==
    \/ \E p \in Pages, ok \in BOOLEAN : CallLoad(p, ok) \/ CallAppend(p, ok)
    \/ \E t \in Tracks : CallRemove(t)
    \/ CallPlay \/ CallPause \/ CallToggle \/ CallNext \/ CallPrevious
    \/ \E place \in Places : CallSeek(place)
    \/ \E v \in Volumes, on \in BOOLEAN : CallSettings(v, on)
    \/ CallDispose
    \/ \E place \in Places, ok \in BOOLEAN : TimePasses(place, ok)
    \/ \E i \in Elements, ok \in BOOLEAN : ElementEnds(i, ok) \/ ElementFails(i, ok)
    \/ \E i \in Elements : SystemPauses(i)
    \/ FadeTicks

Spec == Init /\ [][Next]_eng

-----------------------------------------------------------------------------
(* Properties *)

Element == [src : Tracks \cup {NoTrack}, run : {"paused", "playing", "held", "failed"},
            at : Places, vol : Nat]

\* The types of the engine's fields.
TypeOK ==
    /\ eng \in [queue : Seq(Tracks), index : Int, el : [Elements -> Element],
                 active : Elements, standbyFor : Int, volume : Volumes, crossfade : BOOLEAN,
                 fade : [to : {0, 1, 2}, step : Nat], askedMore : BOOLEAN,
                 wantPlaying : BOOLEAN, shown : BOOLEAN, attached : BOOLEAN,
                 asks : {FALSE}, changed : {FALSE}]
    /\ eng.index \in -1 .. Len(eng.queue)

\* Whatever was called and whatever the elements reported, in any order: when
\* playing is wanted the active element holds the current track (not the one
\* it had before a skip, a removal or a reload) and it sounds, unless its file
\* fails or the system holds it.
PlaysWhatIsWanted ==
    HasCurrent(eng) =>
        /\ eng.el[eng.active].src = Current(eng)
        /\ eng.attached /\ eng.wantPlaying => eng.el[eng.active].run # "paused"

\* Two elements never sound at once except in a crossfade, and nothing sounds
\* after dispose(): stopFade, swap and preloadNext leave no element running.
OneSounds ==
    /\ ~Fading(eng) => Sounding(eng) \subseteq {eng.active}
    /\ ~eng.attached => Sounding(eng) = {}

\* standbyFor, an index into a queue that load(), append() and remove() change,
\* names the next track, and the standby element holds that track: swap() would
\* otherwise play another one under its name.
StandbyIsNext ==
    eng.standbyFor # -1 =>
        /\ ~Fading(eng)
        /\ eng.standbyFor = eng.index + 1
        /\ eng.standbyFor < Len(eng.queue)
        /\ eng.el[Standby(eng)].src = eng.queue[eng.standbyFor + 1]

\* A crossfade ends in the element it began with, and outside of one the
\* active element has the volume the listener set: an interrupted ramp, or a
\* setting changed in one, leaves no track at half volume.
VolumeIsSet ==
    IF Fading(eng) THEN eng.fade.to = eng.active
                   ELSE eng.el[eng.active].vol = eng.volume

\* The engine keeps what it promises its owner: PlayOrder, with the tracks of
\* the elements that play as the ones that are heard.
Order == INSTANCE PlayOrder WITH
            list <- eng.queue,
            at <- eng.index,
            heard <- {eng.el[i].src : i \in Sounding(eng)}

KeepsOrder == Order!Spec
=============================================================================
